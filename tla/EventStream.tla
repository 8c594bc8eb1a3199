---------------------------- MODULE EventStream ----------------------------
(***************************************************************************)
(* The live approvals page: Server.approvals and Server.events of          *)
(* internal/server/pages.go, Store.Session and Store.Approvals under them, *)
(* and the EventSource of web/static/app.js.  One browser window of one    *)
(* administrator: its page, the stream that page opened, and the queue of  *)
(* requests that others change.                                            *)
(***************************************************************************)
EXTENDS Naturals

CONSTANTS
    Queues,     \* what Approvals can return: ids, waiting counts and paths
    None,       \* the zero value of previous
    MaxChange,  \* bound: changes of the queue
    MaxDrop     \* bound: broken connections

ASSUME NoneAssumption == None \notin Queues
ASSUME BoundAssumption == MaxChange \in Nat /\ MaxDrop \in Nat

VARIABLES
    queue,     \* what Approvals returns now
    session,   \* whether the session of the cookie exists and is current
    page,      \* "loading", "shown", or "login" or "error" instead of it
    shows,     \* the queue that the page was rendered from
    stream,    \* where the handler of GET /admin/events is
    previous,  \* its hash of the last snapshot
    first,     \* it has taken none yet
    notice,    \* an "approvals" event is on its way to the page
    changes, drops

handler == <<stream, previous, first>>
vars == <<queue, session, page, shows, handler, notice, changes, drops>>

Open == {"session", "query", "wait"}

TypeOK ==
    /\ queue \in Queues
    /\ session \in BOOLEAN
    /\ page \in {"loading", "shown", "login", "error"}
    /\ shows \in Queues \cup {None}
    /\ page = "shown" => shows # None
    /\ stream \in Open \cup {"off", "connecting", "failed"}
    /\ previous \in Queues \cup {None}
    /\ first \in BOOLEAN
    /\ notice \in BOOLEAN
    /\ changes \in 0 .. MaxChange
    /\ drops \in 0 .. MaxDrop

Init ==
    /\ queue \in Queues
    /\ session = TRUE
    /\ page = "loading" /\ shows = None
    /\ stream = "off" /\ previous = None /\ first = TRUE
    /\ notice = FALSE
    /\ changes = 0 /\ drops = 0

-----------------------------------------------------------------------------
\* A request arrives or is decided, its instances come and go.
QueueChanges ==
    /\ changes < MaxChange
    /\ changes' = changes + 1
    /\ queue' \in Queues \ {queue}
    /\ UNCHANGED <<session, page, shows, handler, notice, drops>>

\* The session is logged out in another window or its 12 hours are over.
SessionEnds ==
    /\ session
    /\ session' = FALSE
    /\ UNCHANGED <<queue, page, shows, handler, notice, changes, drops>>

KeptPage == shows \* mutant: the page is not rendered again
Rendered == queue

\* GET /admin/approvals: the middleware, the query, the page; its script then
\* opens an EventSource.
Load ==
    /\ page = "loading"
    /\ \/ /\ session
          /\ page' = "shown"
          /\ shows' = Rendered
          /\ stream' = "connecting"
       \/ /\ ~session
          /\ page' = "login"
          /\ UNCHANGED <<shows, stream>>
    /\ UNCHANGED <<queue, session, previous, first, notice, changes, drops>>

\* GET /admin/events reaches the handler with previous and first as declared.
\* Without a session the middleware redirects, which an EventSource takes as
\* a failure for good.
Connect ==
    /\ stream = "connecting"
    /\ stream' = IF session THEN "session" ELSE "failed"
    /\ previous' = None
    /\ first' = TRUE
    /\ UNCHANGED <<queue, session, page, shows, notice, changes, drops>>

\* The handler asks for the session in every round and returns without one;
\* the EventSource then connects again.
CheckedOnce == TRUE \* mutant: the middleware's check is taken as enough
StillValid == session

CheckSession ==
    /\ stream = "session"
    /\ stream' = IF StillValid THEN "query" ELSE "connecting"
    /\ UNCHANGED <<queue, session, page, shows, previous, first, notice,
                   changes, drops>>

\* !first && hash != previous.
FirstForgotten == queue # previous \* mutant
NeverAfterFirst == FALSE \* mutant: previous updated before it is compared
Changed == ~first /\ queue # previous

Look ==
    /\ stream = "query"
    /\ notice' = (notice \/ Changed)
    /\ previous' = queue
    /\ first' = FALSE
    /\ stream' = "wait"
    /\ UNCHANGED <<queue, session, page, shows, changes, drops>>

Tick ==
    /\ stream = "wait"
    /\ stream' = "session"
    /\ UNCHANGED <<queue, session, page, shows, previous, first, notice,
                   changes, drops>>

\* The connection breaks or a query fails; what was on its way is lost and the
\* EventSource connects again.
Drop ==
    /\ drops < MaxDrop
    /\ drops' = drops + 1
    /\ stream \in Open
    /\ stream' = "connecting"
    /\ notice' = FALSE
    /\ UNCHANGED <<queue, session, page, shows, previous, first, changes>>

\* The middleware or the handler cannot read what it needs and answers 500:
\* the window shows that answer, without any script, and an EventSource takes
\* it as a failure for good.
Fail500 ==
    /\ drops < MaxDrop
    /\ drops' = drops + 1
    /\ \/ page = "loading" /\ page' = "error" /\ UNCHANGED stream
       \/ stream = "connecting" /\ stream' = "failed" /\ UNCHANGED page
    /\ UNCHANGED <<queue, session, shows, previous, first, notice, changes>>

\* The event reloads the page; pagehide closes the stream.
Reload ==
    /\ notice /\ page = "shown"
    /\ notice' = FALSE
    /\ page' = "loading"
    /\ stream' = "off"
    /\ UNCHANGED <<queue, session, shows, previous, first, changes, drops>>

Proceed == Load \/ Connect \/ CheckSession \/ Look \/ Tick \/ Reload
Next == Proceed \/ QueueChanges \/ SessionEnds \/ Drop \/ Fail500

Spec == Init /\ [][Next]_vars

\* The browser and the handler's goroutine keep going and the ticker ticks;
\* nothing makes the queue change, the session end or the connection break.
Fairness ==
    /\ WF_vars(Load) /\ WF_vars(Connect) /\ WF_vars(CheckSession)
    /\ WF_vars(Look) /\ WF_vars(Tick) /\ WF_vars(Reload)
FairSpec == Spec /\ Fairness

-----------------------------------------------------------------------------
\* A stream that has seen what its page shows, and that is not broken any
\* more, has the page follow every change (unless the session ends).
Watching == stream = "wait" /\ shows = previous /\ drops = MaxDrop

\* Pages do not reload each other for ever: when the queue rests, so does the
\* window.
ReloadsSettle == <>[](page # "loading")

\* A stream does not outlive the session it was opened with.
StreamEndsWithSession == ~session ~> stream \notin Open

\* The page says "New requests will appear here automatically"
\* (web/templates/approvals.html:1).  A change after the page was rendered and
\* before its stream takes the first snapshot goes unseen.
NewRequestsAppear == shows # queue ~> (shows = queue \/ ~session)
=============================================================================
