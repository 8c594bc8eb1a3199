------------------------------ MODULE Shutdown ------------------------------
(***************************************************************************)
(* The end of cmd/lockgate serve: on SIGTERM the HTTP server shuts down,   *)
(* handlers have ten seconds to finish, then their connections are closed; *)
(* the deferred DB.Close waits until the last handler has given its        *)
(* database connection back.  Beside the live page and its stream of       *)
(* EventStream, which does not end by itself, one handler of any other     *)
(* route is at work.  Stopped or killed, the server is started again.      *)
(***************************************************************************)
EXTENDS EventStream

CONSTANTS
    MaxStop     \* bound: signals and crashes

ASSUME StopAssumption == MaxStop \in Nat

VARIABLES
    server,     \* "up", "draining" in Shutdown, "closing" in DB.Close, "down"
    late,       \* the ten seconds of Shutdown's context are over
    killed,     \* the process did not end by itself
    work,       \* the other handler: "off", "query" on the database, "write"
    heard,      \* what its caller has got last: "none", "answer", "nothing"
    orphans,    \* handlers that are in a query for a connection that is gone
    stops

process == <<server, late, killed, work, heard, orphans, stops>>
allVars == <<vars, process>>

ShutdownTypeOK ==
    /\ TypeOK
    /\ server \in {"up", "draining", "closing", "down"}
    /\ late \in BOOLEAN /\ killed \in BOOLEAN
    /\ work \in {"off", "query", "write"}
    /\ heard \in {"none", "answer", "nothing"}
    /\ orphans \subseteq {"stream", "work"}
    /\ stops \in 0 .. MaxStop
    /\ stream \in Open \/ work # "off" => server \in {"up", "draining"}
    /\ orphans # {} => server = "closing"

ShutdownInit ==
    /\ Init
    /\ server = "up" /\ late = FALSE /\ killed = FALSE
    /\ work = "off" /\ heard = "none" /\ orphans = {}
    /\ stops = 0

-----------------------------------------------------------------------------
(* The window and its stream, as far as the process serves them.           *)

\* Load and Connect need the listener, which Shutdown closes first.
Arrive == server = "up" /\ (Load \/ Connect) /\ UNCHANGED process

\* A handler goes on while its connection stands, Shutdown or not.
Stream == (CheckSession \/ Look \/ Tick) /\ UNCHANGED process

Window == Reload /\ UNCHANGED process

Failing == server = "up" /\ Fail500 /\ UNCHANGED process

\* While the server is away a reload ends on an error page; a proxy in front
\* answers 502, which an EventSource takes as a failure for good, without one
\* it tries again.
Refused ==
    /\ server # "up"
    /\ \/ page = "loading" /\ page' = "error" /\ UNCHANGED stream
       \/ stream = "connecting" /\ stream' = "failed" /\ UNCHANGED page
    /\ UNCHANGED <<queue, session, shows, previous, first, notice, changes,
                   drops, process>>

Others == (QueueChanges \/ SessionEnds \/ Drop) /\ UNCHANGED process

-----------------------------------------------------------------------------
(* The other handler.                                                      *)

Request ==
    /\ server = "up" /\ work = "off"
    /\ work' = "query"
    /\ heard' = "none"
    /\ UNCHANGED <<vars, server, late, killed, orphans, stops>>

Work ==
    /\ \/ work = "query" /\ work' = "write" /\ UNCHANGED heard
       \/ work = "write" /\ work' = "off" /\ heard' = "answer"
    /\ UNCHANGED <<vars, server, late, killed, orphans, stops>>

-----------------------------------------------------------------------------
(* main.                                                                   *)

\* SIGTERM or SIGINT; NotifyContext swallows the ones after the first.
Signal ==
    /\ server = "up" /\ stops < MaxStop
    /\ server' = "draining"
    /\ stops' = stops + 1
    /\ UNCHANGED <<vars, late, killed, work, heard, orphans>>

\* context.WithTimeout(..., 10*time.Second).
NoDeadline == FALSE \* mutant: context.Background()
Deadline == ~late

TimeUp ==
    /\ server = "draining"
    /\ Deadline
    /\ late' = TRUE
    /\ UNCHANGED <<vars, server, killed, work, heard, orphans, stops>>

AtOnce == TRUE \* mutant: Close instead of Shutdown
GivesUp == late

\* Shutdown returns when no connection is active any more, or with an error,
\* and then Close breaks the ones that are left and cancels their requests.
Drained ==
    /\ server = "draining"
    /\ stream \notin Open /\ work = "off"
    /\ server' = "closing"
    /\ UNCHANGED <<vars, late, killed, work, heard, orphans, stops>>

Broken == IF stream \in Open THEN "connecting" ELSE stream

Lose ==
    /\ stream' = Broken
    /\ notice' = FALSE
    /\ work' = "off"
    /\ heard' = IF work = "off" THEN heard ELSE "nothing"
    /\ UNCHANGED <<queue, session, page, shows, previous, first, changes,
                   drops>>

Close ==
    /\ server = "draining" /\ GivesUp
    /\ server' = "closing"
    /\ Lose
    /\ orphans' = (IF stream \in {"session", "query"} THEN {"stream"} ELSE {})
                    \cup (IF work = "query" THEN {"work"} ELSE {})
    /\ UNCHANGED <<late, killed, stops>>

\* A cancelled query returns, its transaction is rolled back.
HandlerReturns(h) ==
    /\ h \in orphans
    /\ orphans' = orphans \ {h}
    /\ UNCHANGED <<vars, server, late, killed, work, heard, stops>>

\* DB.Close returns when every connection is back in the pool.
Exit ==
    /\ server = "closing" /\ orphans = {}
    /\ server' = "down"
    /\ UNCHANGED <<vars, late, killed, work, heard, orphans, stops>>

\* A crash, or SIGKILL by a supervisor that waits no longer than main does.
\* A listener that fails (main.go:137-140) is counted here: main then returns
\* without draining.
Kill ==
    /\ server # "down" /\ stops < MaxStop
    /\ stops' = stops + 1
    /\ server' = "down"
    /\ killed' = TRUE
    /\ orphans' = {}
    /\ Lose
    /\ UNCHANGED late

Start ==
    /\ server = "down"
    /\ server' = "up"
    /\ late' = FALSE /\ killed' = FALSE /\ heard' = "none"
    /\ UNCHANGED <<vars, work, orphans, stops>>

Finish ==
    \/ TimeUp \/ Drained \/ Close \/ Exit
    \/ \E h \in {"stream", "work"} : HandlerReturns(h)

ShutdownNext ==
    \/ Arrive \/ Stream \/ Window \/ Failing \/ Refused \/ Others
    \/ Request \/ Work
    \/ Signal \/ Finish \/ Kill \/ Start

\* As in EventStream; main and the timers go on, queries return, and whoever
\* stopped the server starts it again.
ShutdownFairness ==
    /\ WF_allVars(Arrive) /\ WF_allVars(Stream) /\ WF_allVars(Window)
    /\ WF_allVars(TimeUp) /\ WF_allVars(Drained) /\ WF_allVars(Close)
    /\ WF_allVars(Exit) /\ WF_allVars(Start)
    /\ \A h \in {"stream", "work"} : WF_allVars(HandlerReturns(h))

ShutdownSpec ==
    ShutdownInit /\ [][ShutdownNext]_allVars /\ ShutdownFairness

-----------------------------------------------------------------------------
\* "SIGINT/SIGTERM triggers graceful shutdown" (README.md:101): it ends, with
\* an open page whose stream would go on for ever, and with a handler that
\* never finishes.
ShutdownEnds == server = "draining" ~> server = "down"

\* It is graceful: only a handler that needs more than the ten seconds, or a
\* killed process, leaves its caller without an answer, and a process that
\* ends by itself leaves no query of a handler behind.
OrderlyEnd ==
    /\ heard = "nothing" => late \/ killed
    /\ server = "down" /\ ~killed =>
          orphans = {} /\ work = "off" /\ stream \notin Open

\* After the last restart the page follows the queue as before, once its
\* stream has seen what the page shows.
RestartedPageFollows ==
    (Watching /\ stops = MaxStop /\ server = "up" /\ shows # queue)
        ~> (shows = queue \/ ~session)
=============================================================================
