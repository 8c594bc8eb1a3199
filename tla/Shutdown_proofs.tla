-------------------------- MODULE Shutdown_proofs --------------------------
(***************************************************************************)
(* Proofs about Shutdown, for any queue, any number of changes, broken     *)
(* connections, signals and crashes: who is left when the process ends,    *)
(* and whose caller goes without an answer.                                *)
(***************************************************************************)
EXTENDS Shutdown, TLAPS

-----------------------------------------------------------------------------
(* The inductive invariant.                                                *)

\* What a step of the window and its stream keeps, the process apart.
ProcessOK ==
    /\ server \in {"up", "draining", "closing", "down"}
    /\ late \in BOOLEAN /\ killed \in BOOLEAN
    /\ work \in {"off", "query", "write"}
    /\ heard \in {"none", "answer", "nothing"}
    /\ orphans \subseteq {"stream", "work"}
    /\ stops \in 0 .. MaxStop

\* Handlers are at work while there is a server for them, and cancelled ones
\* keep it from ending.
Served ==
    /\ stream \in Open \/ work # "off" => server \in {"up", "draining"}
    /\ orphans # {} => server = "closing"

\* A caller without an answer has waited for ten seconds or met a crash.
Excused == heard = "nothing" => late \/ killed

EndInv == TypeOK /\ ProcessOK /\ Served /\ Excused

LEMMA EndInvImplies ==
    EndInv => ShutdownTypeOK /\ OrderlyEnd
BY DEF EndInv, ProcessOK, Served, Excused, ShutdownTypeOK, OrderlyEnd

-----------------------------------------------------------------------------
(* The window and its stream by themselves.                                *)

LEMMA WindowStep ==
    ASSUME TypeOK,
           \/ Load \/ Connect \/ CheckSession \/ Look \/ Tick \/ Reload
           \/ QueueChanges \/ SessionEnds \/ Drop \/ Fail500
    PROVE  TypeOK'
<1>1. CASE Load
  BY <1>1, NoneAssumption DEF Load, Rendered, TypeOK, Open
<1>2. CASE Connect
  BY <1>2 DEF Connect, TypeOK, Open
<1>3. CASE CheckSession
  BY <1>3 DEF CheckSession, StillValid, TypeOK, Open
<1>4. CASE Look
  BY <1>4 DEF Look, Changed, TypeOK, Open
<1>5. CASE Tick
  BY <1>5 DEF Tick, TypeOK, Open
<1>6. CASE Reload
  BY <1>6 DEF Reload, TypeOK, Open
<1>7. CASE QueueChanges
  BY <1>7, BoundAssumption DEF QueueChanges, handler, TypeOK, Open
<1>8. CASE SessionEnds
  BY <1>8 DEF SessionEnds, handler, TypeOK, Open
<1>9. CASE Drop
  <2>1. drops \in 0 .. MaxDrop /\ drops < MaxDrop /\ drops' = drops + 1
    BY <1>9 DEF Drop, TypeOK
  <2>2. drops' \in 0 .. MaxDrop
    BY <2>1, BoundAssumption
  <2> QED BY <1>9, <2>2 DEF Drop, TypeOK, Open
<1>10. CASE Fail500
  <2>1. drops \in 0 .. MaxDrop /\ drops < MaxDrop /\ drops' = drops + 1
    BY <1>10 DEF Fail500, TypeOK
  <2>2. drops' \in 0 .. MaxDrop
    BY <2>1, BoundAssumption
  <2> QED BY <1>10, <2>2 DEF Fail500, TypeOK, Open
<1> QED BY <1>1, <1>2, <1>3, <1>4, <1>5, <1>6, <1>7, <1>8, <1>9, <1>10

LEMMA RefusedStep ==
    ASSUME TypeOK, Refused
    PROVE  TypeOK'
BY DEF Refused, TypeOK, Open

LEMMA LoseStep ==
    ASSUME TypeOK, Lose
    PROVE  TypeOK' /\ stream' \notin Open /\ work' = "off"
BY DEF Lose, Broken, TypeOK, Open

\* A handler is opened by Connect, and goes on only where it is open already.
LEMMA OpensOnlyAtArrival ==
    ASSUME TypeOK,
           \/ CheckSession \/ Look \/ Tick \/ Reload
           \/ QueueChanges \/ SessionEnds \/ Drop \/ Fail500 \/ Refused,
           stream' \in Open
    PROVE  stream \in Open
BY DEF CheckSession, Look, Tick, Reload, QueueChanges, SessionEnds, Drop,
       Fail500, Refused, StillValid, Open, handler

-----------------------------------------------------------------------------
LEMMA EndInitially ==
    ShutdownInit => EndInv
<1> SUFFICES ASSUME ShutdownInit PROVE EndInv
  OBVIOUS
<1>1. 0 \in 0 .. MaxChange /\ 0 \in 0 .. MaxDrop /\ 0 \in 0 .. MaxStop
  BY BoundAssumption, StopAssumption
<1>2. TypeOK
  BY <1>1 DEF ShutdownInit, Init, TypeOK
<1>3. ProcessOK
  BY <1>1 DEF ShutdownInit, ProcessOK
<1>4. Served /\ Excused
  BY DEF ShutdownInit, Init, Served, Excused, Open
<1> QED BY <1>2, <1>3, <1>4 DEF EndInv

\* What the process keeps to itself.
LEMMA SameProcess ==
    ASSUME ProcessOK, Excused, UNCHANGED process
    PROVE  ProcessOK' /\ Excused'
BY DEF process, ProcessOK, Excused

LEMMA SameWindow ==
    ASSUME TypeOK, UNCHANGED vars
    PROVE  TypeOK' /\ stream' = stream
BY DEF vars, handler, TypeOK

LEMMA EndStep ==
    ASSUME EndInv, ShutdownNext
    PROVE  EndInv'
<1>0. TypeOK /\ ProcessOK /\ Served /\ Excused
  BY DEF EndInv
<1>1. CASE Arrive
  <2>1. server = "up" /\ (Load \/ Connect) /\ UNCHANGED process
    BY <1>1 DEF Arrive
  <2>2. TypeOK' /\ ProcessOK' /\ Excused'
    BY <1>0, <2>1, WindowStep, SameProcess
  <2>3. Served'
    BY <1>0, <2>1 DEF Served, process
  <2> QED BY <2>2, <2>3 DEF EndInv
<1>2. CASE Stream \/ Window \/ Others \/ Failing \/ Refused
  <2>1. /\ UNCHANGED process
        /\ \/ CheckSession \/ Look \/ Tick \/ Reload
           \/ QueueChanges \/ SessionEnds \/ Drop \/ Fail500 \/ Refused
    BY <1>2 DEF Stream, Window, Others, Failing, Refused, process
  <2>2. TypeOK'
    BY <1>0, <2>1, WindowStep, RefusedStep
  <2>3. ProcessOK' /\ Excused'
    BY <1>0, <2>1, SameProcess
  <2>4. stream' \in Open => stream \in Open
    BY <1>0, <2>1, OpensOnlyAtArrival
  <2>5. Served'
    BY <1>0, <2>1, <2>4 DEF Served, process
  <2> QED BY <2>2, <2>3, <2>5 DEF EndInv
<1>3. CASE Request
  <2>1. UNCHANGED vars
    BY <1>3 DEF Request
  <2>2. TypeOK' /\ stream' = stream
    BY <1>0, <2>1, SameWindow
  <2>3. ProcessOK' /\ Served' /\ Excused'
    BY <1>0, <1>3, <2>2 DEF Request, ProcessOK, Served, Excused
  <2> QED BY <2>2, <2>3 DEF EndInv
<1>4. CASE Work
  <2>1. UNCHANGED vars
    BY <1>4 DEF Work
  <2>2. TypeOK' /\ stream' = stream
    BY <1>0, <2>1, SameWindow
  <2>3. ProcessOK' /\ Served' /\ Excused'
    BY <1>0, <1>4, <2>2 DEF Work, ProcessOK, Served, Excused
  <2> QED BY <2>2, <2>3 DEF EndInv
<1>5. CASE Signal
  <2>1. UNCHANGED vars
    BY <1>5 DEF Signal
  <2>2. TypeOK' /\ stream' = stream
    BY <1>0, <2>1, SameWindow
  <2>3. ProcessOK'
    BY <1>0, <1>5, StopAssumption DEF Signal, ProcessOK
  <2>4. Served' /\ Excused'
    BY <1>0, <1>5, <2>2 DEF Signal, Served, Excused
  <2> QED BY <2>2, <2>3, <2>4 DEF EndInv
<1>6. CASE TimeUp
  <2>1. UNCHANGED vars
    BY <1>6 DEF TimeUp
  <2>2. TypeOK' /\ stream' = stream
    BY <1>0, <2>1, SameWindow
  <2>3. ProcessOK' /\ Served' /\ Excused'
    BY <1>0, <1>6, <2>2 DEF TimeUp, ProcessOK, Served, Excused
  <2> QED BY <2>2, <2>3 DEF EndInv
<1>7. CASE Drained
  <2>1. UNCHANGED vars
    BY <1>7 DEF Drained
  <2>2. TypeOK' /\ stream' = stream
    BY <1>0, <2>1, SameWindow
  <2>3. ProcessOK' /\ Served' /\ Excused'
    BY <1>0, <1>7, <2>2 DEF Drained, ProcessOK, Served, Excused
  <2> QED BY <2>2, <2>3 DEF EndInv
<1>8. CASE Close
  <2>1. TypeOK' /\ stream' \notin Open /\ work' = "off"
    BY <1>0, <1>8, LoseStep DEF Close
  <2>2. ProcessOK'
    BY <1>0, <1>8 DEF Close, Lose, ProcessOK
  <2>3. Served'
    BY <1>8, <2>1 DEF Close, Served
  <2>4. Excused'
    BY <1>8 DEF Close, GivesUp, Excused
  <2> QED BY <2>1, <2>2, <2>3, <2>4 DEF EndInv
<1>9. ASSUME NEW h \in {"stream", "work"}, HandlerReturns(h)
      PROVE  EndInv'
  <2>1. UNCHANGED vars
    BY <1>9 DEF HandlerReturns
  <2>2. TypeOK' /\ stream' = stream
    BY <1>0, <2>1, SameWindow
  <2>3. ProcessOK' /\ Served' /\ Excused'
    BY <1>0, <1>9, <2>2 DEF HandlerReturns, ProcessOK, Served, Excused
  <2> QED BY <2>2, <2>3 DEF EndInv
<1>10. CASE Exit
  <2>1. UNCHANGED vars
    BY <1>10 DEF Exit
  <2>2. TypeOK' /\ stream' = stream
    BY <1>0, <2>1, SameWindow
  <2>3. ProcessOK' /\ Served' /\ Excused'
    BY <1>0, <1>10, <2>2 DEF Exit, ProcessOK, Served, Excused
  <2> QED BY <2>2, <2>3 DEF EndInv
<1>11. CASE Kill
  <2>1. TypeOK' /\ stream' \notin Open /\ work' = "off"
    BY <1>0, <1>11, LoseStep DEF Kill
  <2>2. ProcessOK'
    BY <1>0, <1>11, StopAssumption DEF Kill, Lose, ProcessOK
  <2>3. Served' /\ Excused'
    BY <1>11, <2>1 DEF Kill, Served, Excused
  <2> QED BY <2>1, <2>2, <2>3 DEF EndInv
<1>12. CASE Start
  <2>1. UNCHANGED vars
    BY <1>12 DEF Start
  <2>2. TypeOK' /\ stream' = stream
    BY <1>0, <2>1, SameWindow
  <2>3. ProcessOK' /\ Served' /\ Excused'
    BY <1>0, <1>12, <2>2 DEF Start, ProcessOK, Served, Excused
  <2> QED BY <2>2, <2>3 DEF EndInv
<1> QED
  BY <1>1, <1>2, <1>3, <1>4, <1>5, <1>6, <1>7, <1>8, <1>9, <1>10, <1>11, <1>12
     DEF ShutdownNext, Finish

LEMMA EndStutter ==
    ASSUME EndInv, UNCHANGED allVars
    PROVE  EndInv'
<1>1. TypeOK' /\ stream' = stream
  BY SameWindow DEF EndInv, allVars
<1>2. ProcessOK' /\ Excused'
  BY SameProcess DEF EndInv, allVars
<1>3. Served'
  BY <1>1 DEF EndInv, Served, allVars, process
<1> QED BY <1>1, <1>2, <1>3 DEF EndInv

\* Before, during and after any number of ends, orderly ones and crashes,
\* there are handlers only while there is a server, and a caller that gets
\* nothing was waiting for more than ten seconds or when the process died.
THEOREM EndInvariance == ShutdownSpec => []EndInv
<1>1. EndInv /\ [ShutdownNext]_allVars => EndInv'
  BY EndStep, EndStutter
<1> QED BY EndInitially, <1>1, PTL DEF ShutdownSpec

\* The variables keep their types; a server that is closing or down has no
\* handler, and only one that is closing waits for cancelled queries.
THEOREM ShutdownTypeCorrect == ShutdownSpec => []ShutdownTypeOK
BY EndInvariance, EndInvImplies, PTL

\* Shutdown is graceful: a process that ends by itself leaves no query behind,
\* and no caller without an answer but one whose handler took too long.
THEOREM OrderlyEndHolds == ShutdownSpec => []OrderlyEnd
BY EndInvariance, EndInvImplies, PTL
=============================================================================
