-------------------------- MODULE AdminMfa_proofs --------------------------
(***************************************************************************)
(* Proofs about AdminMfa, for any number of requests, tokens and secrets.  *)
(***************************************************************************)
EXTENDS AdminMfa, SequenceTheorems, TLAPS

LogEvents == {"MFA_SETUP_STARTED", "MFA_ENABLED", "MFA_DISABLED"}

-----------------------------------------------------------------------------
(* The inductive invariant.                                                *)

\* A code that was sent is one the phone could make.
CodeOK ==
    \A r \in Requests : job[r].code \in phone \cup {None}

\* Who is about to commit holds the row, and found it as it still is.
DraftOK ==
    \A r \in Requests : pc[r] = "commit" =>
        /\ rowLock = r
        /\ \/ /\ job[r].kind = "start-mfa"
              /\ ~admin.enabled /\ draft[r] \in TotpSecrets
           \/ /\ job[r].kind = "enable-mfa"
              /\ ~admin.enabled /\ admin.secret \in phone
           \/ /\ job[r].kind = "disable-mfa"
              /\ admin.enabled /\ job[r].code = admin.secret

\* What a login has read was the row at some moment since it was sent; one
\* that is past the check was let in by it.
SeenOK ==
    \A r \in Requests : pc[r] \in {"verify", "insert"} =>
        /\ LettingIn(seen[r], job[r].code) => could[r]
        /\ pc[r] = "insert" => LettingIn(seen[r], job[r].code)

IInv == TypeOK /\ CodeOK /\ DraftOK /\ NeverLockedOut /\ SeenOK

LEMMA InitIInv == Init => IInv
<1> SUFFICES ASSUME Init PROVE IInv
  OBVIOUS
<1>1. Nothing \in Rows
  BY DEF Nothing, Rows
<1>2. TypeOK
  <2>1. log \in Seq(LogEvents) /\ Len(log) <= MaxLog
    BY BoundAssumption DEF Init
  <2>2. NoJob \in [kind : Kinds \cup {"none"}, code : Codes]
    BY DEF NoJob, Codes
  <2> QED BY <1>1, <2>1, <2>2 DEF Init, TypeOK, Places, LogEvents
<1>3. CodeOK /\ DraftOK /\ NeverLockedOut /\ SeenOK
  BY DEF Init, CodeOK, DraftOK, NeverLockedOut, SeenOK, NoJob, Nothing
<1> QED BY <1>2, <1>3 DEF IInv

-----------------------------------------------------------------------------
(* Types.                                                                  *)

LEMMA EventOfType == \A k \in Kinds \ {"login"} : EventOf[k] \in LogEvents
BY DEF EventOf, Kinds, LogEvents

\* The history is one flag per request ...
LEMMA WatchType == Watch => could' \in [Requests -> BOOLEAN]
BY DEF Watch

\* ... which stays raised while the login is under way.
LEMMA WatchKeeps ==
    ASSUME Watch, NEW r \in Requests, pc'[r] \in {"verify", "insert"}
    PROVE  could'[r] <=> could[r] \/ LettingIn(admin', job'[r].code)
BY DEF Watch

LEMMA EndType ==
    ASSUME TypeOK, Watch, NEW r \in Requests,
           NEW why \in {"unauthorized", "conflict", "code_invalid", "failed"},
           End(r, why)
    PROVE  TypeOK'
BY WatchType DEF End, Go, TypeOK, Places

\* The row each transaction writes keeps the CHECK of table admins.
LEMMA UpdatedRow ==
    ASSUME IInv, NEW r \in Requests, pc[r] = "commit"
    PROVE  /\ Updated(r) \in Rows
           /\ Updated(r).enabled <=> job[r].kind = "enable-mfa"
           /\ Updated(r).enabled => Updated(r).secret \in phone
<1>1. /\ admin \in Rows /\ draft[r] \in TotpSecrets \cup {None}
      /\ phone \subseteq TotpSecrets /\ None \notin TotpSecrets
  BY NoneAssumption DEF IInv, TypeOK
<1>2. CASE job[r].kind = "start-mfa"
  <2>1. draft[r] \in TotpSecrets
    BY <1>2 DEF IInv, DraftOK
  <2>2. Updated(r) = [enabled |-> FALSE, secret |-> draft[r]]
    BY <1>2 DEF Updated
  <2>3. Updated(r).enabled = FALSE /\ Updated(r).secret = draft[r]
    BY <2>2
  <2>4. Updated(r) \in Rows
    BY <2>1, <2>2 DEF Rows
  <2> QED BY <1>2, <2>3, <2>4
<1>3. CASE job[r].kind = "enable-mfa"
  <2>1. admin.secret \in phone
    BY <1>3 DEF IInv, DraftOK
  <2>2. Updated(r) = [admin EXCEPT !.enabled = TRUE]
    BY <1>3 DEF Updated
  <2>3. /\ Updated(r) \in [enabled : BOOLEAN, secret : TotpSecrets \cup {None}]
        /\ Updated(r).enabled = TRUE /\ Updated(r).secret = admin.secret
    BY <1>1, <2>2 DEF Rows
  <2> QED BY <1>1, <1>3, <2>1, <2>3 DEF Rows
<1>4. CASE job[r].kind = "disable-mfa"
  <2>1. Updated(r) = Nothing
    BY <1>4 DEF Updated, Cleared
  <2>2. Nothing \in Rows /\ Nothing.enabled = FALSE
    BY DEF Rows, Nothing
  <2> QED BY <1>4, <2>1, <2>2
<1> QED BY <1>2, <1>3, <1>4 DEF IInv, DraftOK

LEMMA NextType == IInv /\ [Next]_vars => TypeOK'
<1> SUFFICES ASSUME IInv, [Next]_vars PROVE TypeOK'
  OBVIOUS
<1>0. TypeOK
  BY DEF IInv
<1>1. ASSUME Watch, NEW r \in Requests, NEW c \in Codes, NEW k \in Kinds,
             NEW place \in {"read", "lock"}, Send(r, k, c, place)
      PROVE  TypeOK'
  <2>1. [kind |-> k, code |-> c] \in [kind : Kinds \cup {"none"}, code : Codes]
    OBVIOUS
  <2> QED BY <1>0, <1>1, <2>1, WatchType DEF Send, Go, TypeOK, Places
<1>2. ASSUME Watch, NEW r \in Requests, ReadAdmin(r) PROVE TypeOK'
  BY <1>0, <1>2, WatchType DEF ReadAdmin, Go, TypeOK, Places
<1>3. ASSUME Watch, NEW r \in Requests, Verify(r) PROVE TypeOK'
  <2>1. CASE End(r, "unauthorized")
    BY <1>0, <1>3, <2>1, EndType
  <2>2. CASE ~End(r, "unauthorized")
    BY <1>0, <1>3, <2>2, WatchType DEF Verify, Go, TypeOK, Places
  <2> QED BY <2>1, <2>2
<1>4. ASSUME Watch, NEW r \in Requests, InsertSession(r) PROVE TypeOK'
  BY <1>0, <1>4, WatchType DEF InsertSession, Go, TypeOK, Places
<1>5. ASSUME Watch, NEW r \in Requests, BeginMFA(r) PROVE TypeOK'
  <2>1. CASE End(r, "conflict")
    BY <1>0, <1>5, <2>1, EndType
  <2>2. CASE ~End(r, "conflict")
    BY <1>0, <1>5, <2>2, WatchType
       DEF BeginMFA, TakeRow, Hold, Go, TypeOK, Places
  <2> QED BY <2>1, <2>2
<1>6. ASSUME Watch, NEW r \in Requests, SetMFA(r) PROVE TypeOK'
  <2>1. CASE End(r, "conflict") \/ End(r, "code_invalid")
    BY <1>0, <1>6, <2>1, EndType
  <2>2. CASE ~(End(r, "conflict") \/ End(r, "code_invalid"))
    <3>1. ForUpdate(r) /\ Hold(r) /\ UNCHANGED draft
      BY <1>6, <2>2 DEF SetMFA
    <3> QED BY <1>0, <1>6, <3>1, WatchType
            DEF ForUpdate, TakeRow, Hold, Go, TypeOK, Places
  <2> QED BY <2>1, <2>2
<1>7. ASSUME Watch, NEW r \in Requests, Commit(r) PROVE TypeOK'
  <2>1. EventOf[job[r].kind] \in LogEvents
    BY <1>7, EventOfType DEF Commit, IInv, DraftOK, Kinds
  <2>2. /\ log' = Append(log, EventOf[job[r].kind])
        /\ Len(log) < MaxLog /\ log \in Seq(LogEvents)
    BY <1>0, <1>7 DEF Commit, TypeOK, LogEvents
  <2>3. log' \in Seq(LogEvents) /\ Len(log') = Len(log) + 1 /\ Len(log) \in Nat
    BY <2>1, <2>2
  <2>4. Len(log') <= MaxLog
    BY <2>2, <2>3, BoundAssumption
  <2>5. /\ admin' \in Rows /\ rowLock' \in Requests \cup {None}
        /\ pc' \in [Requests -> Places] /\ could' \in [Requests -> BOOLEAN]
        /\ UNCHANGED <<sessions, phone, job, seen, draft>>
    BY <1>0, <1>7, UpdatedRow, WatchType DEF Commit, Go, TypeOK, Places
  <2> QED BY <1>0, <2>3, <2>4, <2>5 DEF TypeOK, LogEvents
<1>8. ASSUME Watch, NEW r \in Requests, Abort(r) PROVE TypeOK'
  BY <1>0, <1>8, EndType DEF Abort
<1>9. ASSUME Watch, NEW r \in Requests, Respond(r) PROVE TypeOK'
  <2>1. /\ Nothing \in Rows
        /\ NoJob \in [kind : Kinds \cup {"none"}, code : Codes]
    BY DEF Nothing, Rows, NoJob, Codes
  <2> QED BY <1>0, <1>9, <2>1, WatchType DEF Respond, Go, TypeOK, Places
<1>10. CASE Watch /\ (Scan \/ \E t \in Tokens : EndSession(t))
  <2>1. admin.secret \in TotpSecrets \cup {None}
    BY <1>0 DEF TypeOK, Rows
  <2> QED BY <1>0, <1>10, <2>1, WatchType DEF Scan, EndSession, TypeOK
<1>11. CASE UNCHANGED vars
  BY <1>0, <1>11 DEF vars, TypeOK
<1> QED
  BY <1>1, <1>2, <1>3, <1>4, <1>5, <1>6, <1>7, <1>8, <1>9, <1>10, <1>11
     DEF Next, SendLogin, SendChange, Kinds

-----------------------------------------------------------------------------
(* The rest of the invariant.                                              *)

Rest == CodeOK /\ DraftOK /\ NeverLockedOut /\ SeenOK

\* A login that goes on with what it had read stays accounted for.
LEMMA SeenStays ==
    ASSUME IInv, Watch, NEW q \in Requests,
           pc'[q] = pc[q], job'[q] = job[q], seen'[q] = seen[q],
           pc'[q] \in {"verify", "insert"}
    PROVE  /\ LettingIn(seen'[q], job'[q].code) => could'[q]
           /\ pc'[q] = "insert" => LettingIn(seen'[q], job'[q].code)
<1>1. could[q] => could'[q]
  BY WatchKeeps
<1> QED BY <1>1 DEF IInv, SeenOK

LEMMA SendRest ==
    ASSUME IInv, Watch, NEW r \in Requests, NEW c \in Codes, NEW k \in Kinds,
           NEW place \in {"read", "lock"}, Send(r, k, c, place)
    PROVE  Rest'
<1>1. /\ job' = [job EXCEPT ![r] = [kind |-> k, code |-> c]]
      /\ pc' = [pc EXCEPT ![r] = place] /\ c \in phone \cup {None}
      /\ UNCHANGED <<admin, rowLock, phone, seen, draft>>
  BY DEF Send, Go
<1>2. /\ pc'[r] = place /\ job'[r].code = c
      /\ \A q \in Requests \ {r} : pc'[q] = pc[q] /\ job'[q] = job[q]
  BY <1>1 DEF IInv, TypeOK
<1>3. CodeOK' /\ DraftOK' /\ NeverLockedOut'
  BY <1>1, <1>2 DEF IInv, CodeOK, DraftOK, NeverLockedOut
<1>4. SeenOK'
  BY <1>1, <1>2, SeenStays DEF SeenOK
<1> QED BY <1>3, <1>4 DEF Rest

LEMMA EndRest ==
    ASSUME IInv, Watch, NEW r \in Requests,
           NEW why \in {"unauthorized", "conflict", "code_invalid", "failed"},
           End(r, why)
    PROVE  Rest'
<1>1. /\ pc'[r] = why /\ \A q \in Requests \ {r} : pc'[q] = pc[q]
      /\ rowLock' = IF rowLock = r THEN None ELSE rowLock
      /\ UNCHANGED <<admin, phone, job, seen, draft>>
  BY DEF End, Go, IInv, TypeOK
<1>2. CodeOK' /\ DraftOK' /\ NeverLockedOut'
  BY <1>1 DEF IInv, CodeOK, DraftOK, NeverLockedOut
<1>3. SeenOK'
  BY <1>1, SeenStays DEF SeenOK
<1> QED BY <1>2, <1>3 DEF Rest

LEMMA LoginRest ==
    ASSUME IInv, Watch, NEW r \in Requests,
           ReadAdmin(r) \/ Verify(r) \/ InsertSession(r)
    PROVE  Rest'
<1>1. CASE ReadAdmin(r)
  <2>1. /\ pc[r] = "read" /\ pc'[r] = "verify" /\ seen'[r] = admin
        /\ \A q \in Requests \ {r} : pc'[q] = pc[q] /\ seen'[q] = seen[q]
        /\ UNCHANGED <<admin, rowLock, phone, job, draft>>
    BY <1>1 DEF ReadAdmin, Go, IInv, TypeOK
  <2>2. LettingIn(seen'[r], job'[r].code) => could'[r]
    BY <2>1, WatchKeeps DEF LettingIn, Fits
  <2>3. SeenOK'
    BY <2>1, <2>2, SeenStays DEF SeenOK
  <2> QED BY <2>1, <2>3 DEF IInv, Rest, CodeOK, DraftOK, NeverLockedOut
<1>2. CASE Verify(r)
  <2>1. CASE End(r, "unauthorized")
    BY <2>1, EndRest
  <2>2. CASE ~End(r, "unauthorized")
    <3>1. /\ pc[r] = "verify" /\ pc'[r] = "insert"
          /\ \A q \in Requests \ {r} : pc'[q] = pc[q]
          /\ UNCHANGED <<admin, rowLock, phone, job, seen, draft>>
          /\ LettingIn(seen[r], job[r].code)
      BY <1>2, <2>2 DEF Verify, Go, CodeDue, LettingIn, IInv, TypeOK
    <3>2. could[r] /\ could'[r]
      BY <3>1, WatchKeeps DEF IInv, SeenOK
    <3>3. SeenOK'
      BY <3>1, <3>2, SeenStays DEF SeenOK
    <3> QED BY <3>1, <3>3 DEF IInv, Rest, CodeOK, DraftOK, NeverLockedOut
  <2> QED BY <2>1, <2>2
<1>3. CASE InsertSession(r)
  <2>1. /\ pc'[r] = "done" /\ \A q \in Requests \ {r} : pc'[q] = pc[q]
        /\ UNCHANGED <<admin, rowLock, phone, job, seen, draft>>
    BY <1>3 DEF InsertSession, Go, IInv, TypeOK
  <2>2. SeenOK'
    BY <2>1, SeenStays DEF SeenOK
  <2> QED BY <2>1, <2>2 DEF IInv, Rest, CodeOK, DraftOK, NeverLockedOut
<1> QED BY <1>1, <1>2, <1>3

\* Who takes the row for what it found finds the row without a transaction.
LEMMA HoldRest ==
    ASSUME IInv, Watch, NEW r \in Requests, TakeRow(r), Hold(r),
           pc[r] = "lock",
           \A q \in Requests \ {r} : draft'[q] = draft[q],
           \/ /\ job[r].kind = "start-mfa"
              /\ ~admin.enabled /\ draft'[r] \in TotpSecrets
           \/ /\ job[r].kind = "enable-mfa"
              /\ ~admin.enabled /\ admin.secret \in phone
           \/ /\ job[r].kind = "disable-mfa"
              /\ admin.enabled /\ job[r].code = admin.secret
    PROVE  Rest'
<1>1. /\ rowLock = None /\ rowLock' = r /\ pc'[r] = "commit"
      /\ \A q \in Requests \ {r} : pc'[q] = pc[q]
      /\ UNCHANGED <<admin, phone, job, seen>>
  BY DEF Hold, TakeRow, Go, IInv, TypeOK
<1>2. \A q \in Requests : pc[q] # "commit"
  BY <1>1, NoneAssumption DEF IInv, DraftOK
<1>3. DraftOK'
  BY <1>1, <1>2 DEF DraftOK
<1>4. SeenOK'
  BY <1>1, SeenStays DEF SeenOK
<1> QED BY <1>1, <1>3, <1>4 DEF IInv, Rest, CodeOK, NeverLockedOut

LEMMA ChangeRest ==
    ASSUME IInv, Watch, NEW r \in Requests, BeginMFA(r) \/ SetMFA(r)
    PROVE  Rest'
<1>1. CASE BeginMFA(r)
  <2>1. CASE End(r, "conflict")
    BY <2>1, EndRest
  <2>2. CASE ~End(r, "conflict")
    <3>1. PICK s \in TotpSecrets : draft' = [draft EXCEPT ![r] = s]
      BY <1>1, <2>2 DEF BeginMFA
    <3>2. draft'[r] \in TotpSecrets
          /\ \A q \in Requests \ {r} : draft'[q] = draft[q]
      BY <3>1 DEF IInv, TypeOK
    <3> QED BY <1>1, <2>2, <3>2, HoldRest DEF BeginMFA, NotEnabled
  <2> QED BY <2>1, <2>2
<1>2. CASE SetMFA(r)
  <2>1. CASE End(r, "conflict") \/ End(r, "code_invalid")
    BY <2>1, EndRest
  <2>2. CASE ~(End(r, "conflict") \/ End(r, "code_invalid"))
    <3>1. /\ pc[r] = "lock" /\ TakeRow(r) /\ Hold(r) /\ UNCHANGED draft
          /\ admin.secret # None /\ job[r].code = admin.secret
          /\ \/ job[r].kind = "enable-mfa" /\ admin.enabled # TRUE
             \/ job[r].kind = "disable-mfa" /\ admin.enabled # FALSE
      BY <1>2, <2>2 DEF SetMFA, Fits, ForUpdate
    <3>2. admin.secret \in phone /\ admin.enabled \in BOOLEAN
      BY <3>1 DEF IInv, TypeOK, CodeOK, Rows
    <3> QED BY <3>1, <3>2, HoldRest
  <2> QED BY <2>1, <2>2
<1> QED BY <1>1, <1>2

LEMMA CommitRest ==
    ASSUME IInv, Watch, NEW r \in Requests, Commit(r)
    PROVE  Rest'
<1>1. /\ pc[r] = "commit" /\ pc'[r] = "done"
      /\ \A q \in Requests \ {r} : pc'[q] = pc[q]
      /\ admin' = Updated(r)
      /\ UNCHANGED <<phone, job, seen, draft>>
  BY DEF Commit, Go, IInv, TypeOK
<1>2. \A q \in Requests : pc'[q] # "commit"
  BY <1>1 DEF IInv, DraftOK
<1>3. NeverLockedOut'
  BY <1>1, UpdatedRow DEF NeverLockedOut
<1>4. SeenOK'
  BY <1>1, SeenStays DEF SeenOK
<1> QED BY <1>1, <1>2, <1>3, <1>4 DEF IInv, Rest, CodeOK, DraftOK

LEMMA NextRest == IInv /\ [Next]_vars => Rest'
<1> SUFFICES ASSUME IInv, [Next]_vars PROVE Rest'
  OBVIOUS
<1>1. ASSUME Watch, NEW r \in Requests, NEW c \in Codes,
             \/ SendLogin(r, c)
             \/ \E k \in Kinds \ {"login"} : SendChange(r, k, c)
      PROVE  Rest'
  BY <1>1, SendRest DEF SendLogin, SendChange, Kinds
<1>2. ASSUME Watch, NEW r \in Requests, Abort(r) PROVE Rest'
  BY <1>2, EndRest DEF Abort
<1>3. ASSUME Watch, NEW r \in Requests, Respond(r) PROVE Rest'
  <2>1. /\ pc'[r] = "idle" /\ job'[r] = NoJob
        /\ \A q \in Requests \ {r} : /\ pc'[q] = pc[q] /\ job'[q] = job[q]
                                     /\ seen'[q] = seen[q]
                                     /\ draft'[q] = draft[q]
        /\ UNCHANGED <<admin, rowLock, phone>>
    BY <1>3 DEF Respond, Go, IInv, TypeOK
  <2>2. CodeOK' /\ DraftOK' /\ NeverLockedOut'
    BY <2>1 DEF IInv, CodeOK, DraftOK, NeverLockedOut, NoJob
  <2>3. SeenOK'
    BY <1>3, <2>1, SeenStays DEF SeenOK
  <2> QED BY <2>2, <2>3 DEF Rest
<1>4. CASE Watch /\ Scan
  <2>1. /\ ~admin.enabled /\ phone' = phone \cup {admin.secret}
        /\ UNCHANGED <<admin, rowLock, pc, job, seen, draft>>
    BY <1>4 DEF Scan
  <2>2. SeenOK'
    BY <1>4, <2>1, SeenStays DEF SeenOK
  <2> QED BY <2>1, <2>2 DEF IInv, Rest, CodeOK, DraftOK, NeverLockedOut
<1>5. CASE Watch /\ \E t \in Tokens : EndSession(t)
  <2>1. UNCHANGED <<admin, rowLock, phone, pc, job, seen, draft>>
    BY <1>5 DEF EndSession
  <2>2. SeenOK'
    BY <1>5, <2>1, SeenStays DEF SeenOK
  <2> QED BY <2>1, <2>2 DEF IInv, Rest, CodeOK, DraftOK, NeverLockedOut
<1>6. CASE UNCHANGED vars
  BY <1>6 DEF vars, IInv, Rest, CodeOK, DraftOK, NeverLockedOut, SeenOK,
              LettingIn, Fits
<1> QED
  BY <1>1, <1>2, <1>3, <1>4, <1>5, <1>6, LoginRest, ChangeRest, CommitRest
     DEF Next

-----------------------------------------------------------------------------
(* The theorems.                                                           *)

\* Every step keeps the row, the drafts, the codes in flight and what logins
\* have read consistent.
THEOREM Invariance == Spec => []IInv
<1>1. IInv /\ [Next]_vars => IInv'
  BY NextType, NextRest DEF IInv, Rest
<1> QED BY <1>1, InitIInv, PTL DEF Spec

\* The row, the log, the phone and every request have the shape of the code's
\* types, and no more events are written than the bound allows.
THEOREM TypeCorrect == Spec => []TypeOK
<1>1. IInv => TypeOK
  BY DEF IInv
<1> QED BY <1>1, Invariance, PTL

\* However setups from several windows overtake each other, protection is
\* only ever on with a secret that the administrator's phone holds.
THEOREM NeverLockedOutHolds == Spec => []NeverLockedOut
<1>1. IInv => NeverLockedOut
  BY DEF IInv
<1> QED BY <1>1, Invariance, PTL

\* Only a commit writes the row of the administrator.
LEMMA RowWrites ==
    ASSUME Next, admin' # admin
    PROVE  \E r \in Requests : Commit(r)
BY DEF Next, SendLogin, SendChange, Send, ReadAdmin, Verify, InsertSession,
       BeginMFA, SetMFA, Hold, End, Abort, Respond, Scan, EndSession

\* Protection that is on goes off only by a disabling that had its code.
THEOREM OnlyItsCodeTurnsItOffHolds == Spec => OnlyItsCodeTurnsItOff
<1> DEFINE Step ==
      admin.enabled /\ ~admin'.enabled =>
          \E r \in Requests : /\ pc[r] = "commit" /\ pc'[r] = "done"
                              /\ job[r].kind = "disable-mfa"
                              /\ job[r].code = admin.secret
<1>1. IInv /\ [Next]_vars => [Step]_vars
  <2> SUFFICES ASSUME IInv, Next, admin.enabled, ~admin'.enabled PROVE Step
    BY DEF vars
  <2>1. PICK r \in Requests : Commit(r)
    BY RowWrites
  <2>2. pc[r] = "commit" /\ pc'[r] = "done"
    BY <2>1 DEF Commit, Go, IInv, TypeOK
  <2>3. job[r].kind = "disable-mfa" /\ job[r].code = admin.secret
    BY <2>2 DEF IInv, DraftOK
  <2> QED BY <2>2, <2>3
<1> QED BY <1>1, Invariance, PTL DEF Spec, OnlyItsCodeTurnsItOff

\* Every login that is let in was sent before some moment at which the row, as
\* it stood, would have let it in, whatever became of the row afterwards.
THEOREM LaterLoginsNeedCodeHolds == Spec => LaterLoginsNeedCode
<1> DEFINE Step == \A r \in Requests : GivesSession(r) => could[r]
<1>1. IInv => Step \/ UNCHANGED vars
  BY DEF IInv, SeenOK, GivesSession
<1> QED BY <1>1, Invariance, PTL DEF Spec, LaterLoginsNeedCode
-----------------------------------------------------------------------------
(* The audit log.                                                          *)

\* What the first n events tell does not depend on those that come after.
LEMMA OnAfterPrefix ==
    ASSUME NEW n \in Nat, NEW l, NEW m, \A i \in 1 .. n : m[i] = l[i]
    PROVE  OnAfter(m, n) <=> OnAfter(l, n)
<1>1. {i \in 1 .. n : m[i] # "MFA_SETUP_STARTED"}
        = {i \in 1 .. n : l[i] # "MFA_SETUP_STARTED"}
  OBVIOUS
<1> QED BY <1>1 DEF OnAfter

\* A setup that starts tells nothing, anything else has the last word.
LEMMA OnAfterOneMore ==
    ASSUME NEW n \in Nat, NEW l
    PROVE  OnAfter(l, n + 1) <=>
             IF l[n + 1] = "MFA_SETUP_STARTED" THEN OnAfter(l, n)
                                               ELSE l[n + 1] = "MFA_ENABLED"
<1> DEFINE before == {i \in 1 .. n : l[i] # "MFA_SETUP_STARTED"}
           after == {i \in 1 .. n + 1 : l[i] # "MFA_SETUP_STARTED"}
<1>1. before \subseteq 1 .. n /\ after \subseteq 1 .. n + 1
  OBVIOUS
<1>2. CASE l[n + 1] = "MFA_SETUP_STARTED"
  <2>1. after = before
    BY <1>2
  <2> QED BY <1>2, <2>1 DEF OnAfter
<1>3. CASE l[n + 1] # "MFA_SETUP_STARTED"
  <2>1. n + 1 \in after /\ \A j \in after : j <= n + 1
    BY <1>3
  <2>2. \A i \in after : (\A j \in after : j <= i) => i = n + 1
    BY <1>1, <2>1
  <2> HIDE DEF after
  <2>3. OnAfter(l, n + 1) <=>
          \E i \in after : (\A j \in after : j <= i) /\ l[i] = "MFA_ENABLED"
    BY DEF OnAfter, after
  <2> QED BY <1>3, <2>1, <2>2, <2>3
<1> QED BY <1>2, <1>3

LEMMA LogStep ==
    ASSUME IInv, LogAlternates, [Next]_vars
    PROVE  LogAlternates'
<1>1. CASE UNCHANGED <<admin, log>>
  BY <1>1 DEF LogAlternates
<1>2. ASSUME NEW r \in Requests, Commit(r) PROVE LogAlternates'
  <2>1. PICK e : e = EventOf[job[r].kind]
    OBVIOUS
  <2>2. /\ pc[r] = "commit" /\ admin' = Updated(r) /\ log' = Append(log, e)
    BY <1>2, <2>1 DEF Commit
  <2>3. \/ e = "MFA_SETUP_STARTED" /\ ~admin.enabled /\ ~admin'.enabled
        \/ e = "MFA_ENABLED" /\ ~admin.enabled /\ admin'.enabled
        \/ e = "MFA_DISABLED" /\ admin.enabled /\ ~admin'.enabled
    BY <2>1, <2>2, UpdatedRow DEF IInv, DraftOK, EventOf, Kinds
  <2>4. PICK l \in Seq(LogEvents), n \in Nat : l = log /\ n = Len(log)
    BY DEF IInv, TypeOK, LogEvents
  <2> DEFINE m == Append(l, e)
  <2>5. e \in LogEvents
    BY <2>3 DEF LogEvents
  <2>6. /\ Len(m) = n + 1 /\ DOMAIN m = 1 .. n + 1 /\ DOMAIN l = 1 .. n
        /\ m[n + 1] = e /\ \A i \in 1 .. n : m[i] = l[i]
    BY <2>4, <2>5, AppendProperties
  <2>12. m = log'
    BY <2>2, <2>4
  <2> HIDE DEF m
  <2>7. \A k \in 0 .. n : OnAfter(m, k) <=> OnAfter(l, k)
    <3> SUFFICES ASSUME NEW k \in 0 .. n PROVE OnAfter(m, k) <=> OnAfter(l, k)
      OBVIOUS
    <3>1. k \in Nat /\ \A i \in 1 .. k : m[i] = l[i]
      BY <2>6
    <3> QED BY <3>1, OnAfterPrefix
  <2>8. OnAfter(m, n + 1) <=> IF e = "MFA_SETUP_STARTED" THEN OnAfter(l, n)
                                                         ELSE e = "MFA_ENABLED"
    BY <2>6, <2>7, OnAfterOneMore
  <2>9. admin.enabled <=> OnAfter(l, n)
    BY <2>4 DEF LogAlternates
  <2>10. admin'.enabled <=> OnAfter(m, n + 1)
    BY <2>3, <2>8, <2>9
  <2>11. ASSUME NEW i \in 1 .. n + 1, m[i] # "MFA_SETUP_STARTED"
         PROVE  m[i] = "MFA_ENABLED" <=> ~OnAfter(m, i - 1)
    <3>1. CASE i = n + 1
      <4>1. OnAfter(m, i - 1) <=> OnAfter(l, n)
        BY <2>7, <3>1
      <4> QED BY <2>3, <2>6, <2>9, <2>11, <3>1, <4>1
    <3>2. CASE i # n + 1
      <4>1. i \in 1 .. n /\ i - 1 \in 0 .. n
        BY <3>2
      <4>2. l[i] = "MFA_ENABLED" <=> ~OnAfter(l, i - 1)
        BY <2>4, <2>6, <2>11, <4>1 DEF LogAlternates
      <4> QED BY <2>6, <2>7, <4>1, <4>2
    <3> QED BY <3>1, <3>2
  <2> QED BY <2>4, <2>6, <2>10, <2>11, <2>12 DEF LogAlternates
<1>3. UNCHANGED <<admin, log>> \/ \E r \in Requests : Commit(r)
  BY DEF vars, Next, SendLogin, SendChange, Send, ReadAdmin, Verify,
         InsertSession, BeginMFA, SetMFA, Hold, End, Abort, Respond, Scan,
         EndSession
<1> QED BY <1>1, <1>2, <1>3

\* The audit log switches protection on and off in turn, however requests
\* overtake each other and fail, and ends with what the row says.
THEOREM LogAlternatesHolds == Spec => []LogAlternates
<1>1. Init => LogAlternates
  <2> SUFFICES ASSUME Init PROVE LogAlternates
    OBVIOUS
  <2>1. log = <<>> /\ ~admin.enabled
    BY DEF Init, Nothing
  <2>2. ~OnAfter(<<>>, 0)
    BY DEF OnAfter
  <2> QED BY <2>1, <2>2 DEF LogAlternates
<1>2. IInv /\ LogAlternates /\ [Next]_vars => LogAlternates'
  BY LogStep
<1> QED BY <1>1, <1>2, Invariance, PTL DEF Spec
=============================================================================
