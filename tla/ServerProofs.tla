---------------------------- MODULE ServerProofs ----------------------------
(***************************************************************************)
(* That the shutdown of server.Run leaves things in order, and that no     *)
(* goroutine of it waits to report a failure, for any set of services and  *)
(* any set of tunnel connections; and of the metrics endpoint that Run     *)
(* serves, for any set of requests and any limit, that promhttp's limit is *)
(* kept and that a client without credentials learns nothing.              *)
(***************************************************************************)
EXTENDS Server, Exporter, FiniteSetTheorems, TLAPS

\* A connection is in register only while transport.Serve has not returned.
HandlersCovered ==
    \A c \in Conn : conn[c].at \in Handling => task["tunnel"] \in {"accept", "wait"}

\* Nothing runs before the goroutines are launched.
NotStarted == Quiet /\ \A g \in Task : task[g] = "off"

\* The stages of Run and what each has left behind it.
Stages ==
    /\ pc = "listen" => NotStarted
    /\ pc \in {"accepts", "drain", "forced", "metrics"} => open \cap Accepts = {}
    /\ pc \in {"drain", "forced", "metrics"} => \A g \in Accepts : task[g] = "done"
    /\ pc = "metrics" => Quiet
    /\ metricsCancelled => pc \in {"metrics", "returned"}

\* The metrics listener is open only while its goroutine accepts on it.
MetricsListener == "metrics" \in open => pc = "listen" \/ task["metrics"] = "accept"

\* What a goroutine sends on errs is the last thing it does.
ReportedLast == \A i \in DOMAIN errs : task[errs[i]] = "done"

IInv ==
    /\ TypeOK /\ HandlersCovered /\ Stages /\ MetricsListener /\ ReportedLast
    /\ ShutdownInOrder

\* No goroutine of Run blocks on errs (server.go: the channel has one slot per
\* goroutine): one that is about to report a failure finds a free slot.
NoReportBlocks == \A g \in Task : task[g] = "report" => Len(errs) < Capacity

-----------------------------------------------------------------------------
(* The channel errs.                                                        *)

\* A sequence in which nothing occurs twice keeps that when something new is appended.
LEMMA AppendDistinct ==
    ASSUME NEW S, NEW q \in Seq(S), NEW g \in S, \A i \in DOMAIN q : q[i] # g,
           \A i, j \in DOMAIN q : q[i] = q[j] => i = j
    PROVE  /\ Append(q, g) \in Seq(S)
           /\ \A i, j \in DOMAIN Append(q, g) : Append(q, g)[i] = Append(q, g)[j] => i = j
           /\ \A i \in DOMAIN Append(q, g) :
                  Append(q, g)[i] = g \/ \E j \in DOMAIN q : Append(q, g)[i] = q[j]
<1> DEFINE r == Append(q, g)
<1>1. r \in Seq(S) /\ Len(q) \in Nat /\ DOMAIN q = 1..Len(q) /\ DOMAIN r = 1..(Len(q) + 1)
  OBVIOUS
<1>2. \A i \in 1..Len(q) : r[i] = q[i]
  OBVIOUS
<1>3. r[Len(q) + 1] = g
  OBVIOUS
<1> HIDE DEF r
<1>4. \A i \in DOMAIN r : i = Len(q) + 1 \/ i \in DOMAIN q
  BY <1>1
<1>5. \A i \in DOMAIN r : r[i] = g \/ \E j \in DOMAIN q : r[i] = q[j]
  BY <1>1, <1>2, <1>3, <1>4
<1>6. \A i, j \in DOMAIN r : r[i] = r[j] => i = j
  BY <1>1, <1>2, <1>3, <1>4
<1> QED
  BY <1>1, <1>5, <1>6 DEF r

\* Nor does receiving from it bring anything in.
LEMMA TailDistinct ==
    ASSUME NEW S, NEW q \in Seq(S), q # <<>>,
           \A i, j \in DOMAIN q : q[i] = q[j] => i = j
    PROVE  /\ Tail(q) \in Seq(S)
           /\ \A i, j \in DOMAIN Tail(q) : Tail(q)[i] = Tail(q)[j] => i = j
           /\ \A i \in DOMAIN Tail(q) : \E j \in DOMAIN q : Tail(q)[i] = q[j]
<1> DEFINE r == Tail(q)
<1>1. /\ r \in Seq(S) /\ Len(q) \in Nat \ {0}
      /\ DOMAIN q = 1..Len(q) /\ DOMAIN r = 1..(Len(q) - 1)
  OBVIOUS
<1>2. \A i \in DOMAIN r : i + 1 \in DOMAIN q /\ r[i] = q[i + 1]
  BY <1>1
<1> HIDE DEF r
<1>3. \A i, j \in DOMAIN r : r[i] = r[j] => i = j
  BY <1>1, <1>2
<1> QED
  BY <1>1, <1>2, <1>3 DEF r

-----------------------------------------------------------------------------
(* The inductive invariant.                                                 *)

\* Run starts with nothing listening and no goroutine.
LEMMA InitIInv == Init => IInv
<1> SUFFICES ASSUME Init PROVE IInv
  OBVIOUS
<1>1. task = [g \in Task |-> "off"] /\ conn = [c \in Conn |-> None] /\ errs = <<>> /\ pc = "listen"
  BY DEF Init
<1>2. None \in [at : {"none", "gone"} \cup Handling \cup Working, svc : Task] /\ None.at = "none"
  BY DEF None, Task
<1>3. TypeOK
  <2>1. task \in [Task -> {"off", "accept", "wait", "report", "done"}]
    BY <1>1
  <2>2. conn \in [Conn -> [at : {"none", "gone"} \cup Handling \cup Working, svc : Task]]
    BY <1>1, <1>2, Zenon
  <2>3. errs \in Seq(Task) /\ DOMAIN errs = {}
    BY <1>1
  <2> QED
    BY <2>1, <2>2, <2>3 DEF Init, TypeOK
<1>4. Quiet
  BY <1>1, <1>2 DEF Quiet
<1> QED
  BY <1>1, <1>3, <1>4
  DEF Init, IInv, HandlersCovered, Stages, NotStarted, MetricsListener, ReportedLast,
      ShutdownInOrder, Quiet, Handling, Task

\* What the steps of a connection have in common: only conn changes.  The new point
\* is one of register only while the tunnel's goroutine has not ended its Serve, and
\* a point of work only from register or from another.
LEMMA MovesIInv ==
    ASSUME IInv, NEW c \in Conn, NEW s \in Task,
           NEW p \in {"none", "gone"} \cup Handling \cup Working, Moves(c, s, p),
           p \in Handling => task["tunnel"] \in {"accept", "wait"},
           p \in Working => conn[c].at \in Handling \cup Working
    PROVE  IInv'
<1> USE DEF IInv
<1>1. TypeOK'
  BY DEF TypeOK, Moves, ctxVars
<1>2. /\ \A d \in Conn : d # c => conn'[d] = conn[d]
      /\ conn'[c].at = p
      /\ UNCHANGED <<pc, metered, open, task, errs, failure, ctxVars>>
  BY DEF TypeOK, Moves
<1>3. HandlersCovered'
  BY <1>2 DEF HandlersCovered
<1>4. Quiet /\ task["tunnel"] \in {"off", "done"} => Quiet'
  BY <1>2 DEF Quiet, Handling, Working
<1>5. pc \in {"listen", "metrics", "returned"} => Quiet /\ task["tunnel"] \in {"off", "done"}
  BY DEF Stages, NotStarted, ShutdownInOrder, Task, Accepts
<1>6. Stages' /\ ShutdownInOrder'
  BY <1>2, <1>4, <1>5 DEF Stages, NotStarted, ShutdownInOrder, ctxVars
<1>7. MetricsListener' /\ ReportedLast'
  BY <1>2 DEF MetricsListener, ReportedLast
<1> QED
  BY <1>1, <1>3, <1>6, <1>7

\* The steps of Run itself before the select.
LEMMA StartIInv ==
    ASSUME IInv, Launch \/ \E g \in Task : Listen(g) \/ ListenFails(g)
    PROVE  IInv'
<1> USE DEF IInv
<1>1. ASSUME NEW g \in Task, Listen(g)
      PROVE  IInv'
  <2>1. TypeOK'
    BY <1>1 DEF Listen, TypeOK, ctxVars
  <2> QED
    BY <1>1, <2>1 DEF Listen, Due, HandlersCovered, Stages, NotStarted, MetricsListener, ReportedLast,
       ShutdownInOrder, Quiet, ctxVars
<1>2. ASSUME NEW g \in Task, ListenFails(g)
      PROVE  IInv'
  <2>1. TypeOK'
    BY <1>2 DEF ListenFails, TypeOK, ctxVars
  <2> QED
    BY <1>2, <2>1 DEF ListenFails, Due, HandlersCovered, Stages, NotStarted, MetricsListener, ReportedLast,
       ShutdownInOrder, Quiet, ctxVars
<1>3. ASSUME Launch
      PROVE  IInv'
  <2>1. TypeOK'
    BY <1>3 DEF Launch, TypeOK, ctxVars
  <2>2. \A i \in DOMAIN errs : FALSE
    BY <1>3 DEF Launch, Stages, NotStarted, ReportedLast, TypeOK
  <2>3. MetricsListener'
    BY <1>3 DEF Launch, MetricsListener, Task
  <2>4. \A c \in Conn : conn'[c].at \notin Handling
    BY <1>3 DEF Launch, Stages, NotStarted, Quiet, Handling
  <2> QED
    BY <1>3, <2>1, <2>2, <2>3, <2>4
    DEF Launch, HandlersCovered, Stages, ReportedLast, ShutdownInOrder, ctxVars
<1> QED
  BY <1>1, <1>2, <1>3

\* The goroutines: a listener that fails, transport.Serve that returns, a report.
LEMMA TaskIInv ==
    ASSUME IInv, ServeReturns \/ \E g \in Task : Broken(g) \/ Report(g)
    PROVE  IInv'
<1> USE DEF IInv
<1>1. "tunnel" \in Task /\ "metrics" \in Task /\ "metrics" \notin Accepts /\ Accepts \subseteq Task
  BY ServerAssumption DEF Task, Accepts
<1>2. ASSUME NEW g \in Task, task[g] \in {"accept", "wait", "report"},
             NEW p \in {"wait", "report", "done"}, task' = [task EXCEPT ![g] = p],
             task[g] = "accept" \/ g # "metrics" \/ "metrics" \notin open,
             g = "metrics" => "metrics" \notin open',
             g = "tunnel" /\ p # "wait" => \A c \in Conn : conn[c].at \notin Handling,
             open' \subseteq open,
             UNCHANGED <<pc, metered, ctxVars, conn>>
      PROVE  HandlersCovered' /\ Stages' /\ MetricsListener' /\ ShutdownInOrder'
  <2>1. \A h \in Task : task'[h] = IF h = g THEN p ELSE task[h]
    BY <1>2 DEF TypeOK
  <2>2. pc # "listen" /\ pc # "returned"
    BY <1>2 DEF Stages, NotStarted, ShutdownInOrder
  <2>3. HandlersCovered'
    BY <1>1, <1>2, <2>1 DEF HandlersCovered
  <2>4. Stages'
    BY <1>1, <1>2, <2>1, <2>2 DEF Stages, Quiet, ctxVars
  <2>5. MetricsListener'
    BY <1>1, <1>2, <2>1, <2>2 DEF MetricsListener
  <2>6. ShutdownInOrder'
    BY <1>2, <2>2 DEF ShutdownInOrder, Quiet, ctxVars
  <2> QED
    BY <2>3, <2>4, <2>5, <2>6
<1>3. ASSUME NEW g \in Task, Broken(g)
      PROVE  IInv'
  <2> DEFINE p == IF g = "tunnel" THEN "wait" ELSE IF Over(g) THEN "done" ELSE "report"
  <2>1. p \in {"wait", "report", "done"} /\ (g = "tunnel" => p = "wait")
    OBVIOUS
  <2>2. task[g] = "accept" /\ task' = [task EXCEPT ![g] = p] /\ open' \subseteq open
        /\ (g = "metrics" => "metrics" \notin open')
    BY <1>3, ServerAssumption DEF Broken
  <2> HIDE DEF p
  <2>3. TypeOK'
    BY <1>3, <2>1, <2>2 DEF Broken, TypeOK, ctxVars
  <2>4. ReportedLast'
    BY <1>3, <2>2 DEF Broken, ReportedLast, TypeOK
  <2>5. UNCHANGED <<pc, metered, ctxVars, conn>>
    BY <1>3 DEF Broken
  <2> QED
    BY <1>2, <2>1, <2>2, <2>3, <2>4, <2>5
<1>4. ASSUME ServeReturns
      PROVE  IInv'
  <2> DEFINE p == IF cancelled THEN "done" ELSE "report"
  <2>1. p \in {"wait", "report", "done"} /\ task["tunnel"] = "wait" /\ task' = [task EXCEPT !["tunnel"] = p]
        /\ open' = open /\ UNCHANGED <<pc, metered, ctxVars, conn>>
        /\ \A c \in Conn : conn[c].at \notin Handling
    BY <1>4 DEF ServeReturns
  <2> HIDE DEF p
  <2>2. TypeOK'
    BY <1>1, <1>4, <2>1 DEF ServeReturns, TypeOK, ctxVars
  <2>3. ReportedLast'
    BY <1>1, <1>4, <2>1 DEF ServeReturns, ReportedLast, TypeOK
  <2> QED
    BY <1>1, <1>2, <2>1, <2>2, <2>3
<1>5. ASSUME NEW g \in Task, Report(g)
      PROVE  IInv'
  <2>1. task[g] = "report" /\ task' = [task EXCEPT ![g] = "done"] /\ open' = open
        /\ errs' = Append(errs, g) /\ UNCHANGED <<pc, metered, ctxVars, conn>>
    BY <1>5 DEF Report
  <2>2. g = "metrics" => "metrics" \notin open
    BY <2>1 DEF MetricsListener, Stages, NotStarted
  <2>3. g = "tunnel" => \A c \in Conn : conn[c].at \notin Handling
    BY <2>1 DEF HandlersCovered
  <2>4. \A i \in DOMAIN errs : errs[i] # g
    BY <2>1 DEF ReportedLast
  <2>5. /\ errs' \in Seq(Task)
        /\ \A i, j \in DOMAIN errs' : errs'[i] = errs'[j] => i = j
        /\ \A i \in DOMAIN errs' : errs'[i] = g \/ \E j \in DOMAIN errs : errs'[i] = errs[j]
    BY <2>1, <2>4, AppendDistinct DEF TypeOK
  <2>6. TypeOK'
    BY <1>5, <2>1, <2>5 DEF Report, TypeOK, ctxVars
  <2>7. ReportedLast'
    <3>1. \A h \in Task : task'[h] = IF h = g THEN "done" ELSE task[h]
      BY <2>1 DEF TypeOK
    <3>2. \A j \in DOMAIN errs : errs[j] \in Task
      BY DEF TypeOK
    <3> QED
      BY <2>5, <3>1, <3>2 DEF ReportedLast
  <2> QED
    BY <1>2, <2>1, <2>2, <2>3, <2>6, <2>7
<1> QED
  BY <1>3, <1>4, <1>5

\* The select and the shutdown.
LEMMA StopIInv ==
    ASSUME IInv, \/ Select \/ CloseListeners \/ AcceptsWait \/ Timer \/ Done \/ Return
                 \/ \E s \in Svc : StopPool(s)
    PROVE  IInv'
<1> USE DEF IInv
<1>1. ASSUME Select
      PROVE  IInv'
  <2>1. pc = "select" /\ pc' = "stop" /\ UNCHANGED <<metered, open, task, asked, stopped, forced, conn, metricsCancelled>>
    BY <1>1 DEF Select, Cancel
  <2>2. /\ errs' \in Seq(Task)
        /\ \A i, j \in DOMAIN errs' : errs'[i] = errs'[j] => i = j
        /\ \A i \in DOMAIN errs' : \E j \in DOMAIN errs : errs'[i] = errs[j]
    <3>1. CASE errs' = errs
      BY <3>1 DEF TypeOK
    <3>2. CASE errs # <<>> /\ errs' = Tail(errs)
      BY <3>2, TailDistinct DEF TypeOK
    <3> QED
      BY <1>1, <3>1, <3>2 DEF Select
  <2>3. TypeOK'
    BY <1>1, <2>1, <2>2 DEF Select, Cancel, TypeOK
  <2>4. ReportedLast'
    BY <2>1, <2>2 DEF ReportedLast
  <2> QED
    BY <2>1, <2>3, <2>4 DEF HandlersCovered, Stages, MetricsListener, ShutdownInOrder, Quiet
<1>2. ASSUME NEW s \in Svc, StopPool(s)
      PROVE  IInv'
  BY <1>2 DEF StopPool, TypeOK, HandlersCovered, Stages, MetricsListener, ReportedLast,
     ShutdownInOrder, Quiet, ctxVars
<1>3. ASSUME CloseListeners
      PROVE  IInv'
  BY <1>3 DEF CloseListeners, TypeOK, HandlersCovered, Stages, MetricsListener, ReportedLast,
     ShutdownInOrder, Quiet, ctxVars
<1>4. ASSUME AcceptsWait
      PROVE  IInv'
  BY <1>4 DEF AcceptsWait, TypeOK, HandlersCovered, Stages, MetricsListener, ReportedLast,
     ShutdownInOrder, Quiet, ctxVars
<1>5. ASSUME Timer
      PROVE  IInv'
  BY <1>5 DEF Timer, TypeOK, HandlersCovered, Stages, MetricsListener, ReportedLast,
     ShutdownInOrder, Quiet, ctxVars
<1>6. ASSUME Done
      PROVE  IInv'
  <2>1. Quiet
    <3>1. \A c \in Conn : conn[c].at \in {"none", "gone"} \cup Handling \cup Working
      BY DEF TypeOK
    <3>2. \A c \in Conn : conn[c].at \notin Handling
      BY <1>6 DEF Done, Stages, HandlersCovered, Accepts
    <3> QED
      BY <1>6, <3>1, <3>2 DEF Done, Drained, Quiet
  <2> QED
    BY <1>6, <2>1 DEF Done, TypeOK, HandlersCovered, Stages, MetricsListener, ReportedLast,
       ShutdownInOrder, Quiet
<1>7. ASSUME Return
      PROVE  IInv'
  <2>1. \A g \in Task : task[g] \in {"off", "done"}
    BY <1>7 DEF Return, Stages, Task, Accepts
  <2>2. open = {}
    BY <1>7 DEF Return, Stages, MetricsListener, TypeOK, Task, Accepts
  <2> QED
    BY <1>7, <2>1, <2>2 DEF Return, TypeOK, HandlersCovered, Stages, MetricsListener, ReportedLast,
       ShutdownInOrder, Quiet, ctxVars
<1> QED
  BY <1>1, <1>2, <1>3, <1>4, <1>5, <1>6, <1>7

\* A tunnel connection: its handler, then its worker.
LEMMA ConnIInv ==
    ASSUME IInv, NEW c \in Conn,
           Arrives(c) \/ ConnStep(c) \/ Leases(c) \/ LeaseEnds(c) \/ Retires(c)
    PROVE  IInv'
<1>1. conn[c].svc \in Task /\ Svc \subseteq Task
  BY DEF IInv, TypeOK, Task
<1>2. conn[c].at \in Handling => task["tunnel"] \in {"accept", "wait"}
  BY DEF IInv, HandlersCovered
<1>3. CASE Arrives(c)
  <2>1. PICK s \in Svc : Moves(c, s, "hello")
    BY <1>3 DEF Arrives
  <2> QED
    BY <1>1, <1>3, <2>1, MovesIInv DEF Arrives, Handling, Working
<1>4. CASE Refused(c)
  BY <1>1, <1>4, MovesIInv DEF Refused, Handling, Working
<1>5. CASE Register(c)
  BY <1>1, <1>2, <1>5, MovesIInv DEF Register, Handling, Working
<1>6. CASE Completes(c)
  BY <1>1, <1>6, MovesIInv DEF Completes, Handling, Working
<1>7. CASE CutOff(c)
  BY <1>1, <1>7, MovesIInv DEF CutOff, Handling, Working
<1>8. CASE Leases(c)
  BY <1>1, <1>8, MovesIInv DEF Leases, Handling, Working
<1>9. CASE LeaseEnds(c)
  BY <1>1, <1>9, MovesIInv DEF LeaseEnds, Handling, Working
<1>10. CASE Retires(c)
  BY <1>1, <1>10, MovesIInv DEF Retires, Handling, Working
<1> QED
  BY <1>3, <1>4, <1>5, <1>6, <1>7, <1>8, <1>9, <1>10 DEF ConnStep

\* Every step of Run, of its tasks and of the connections keeps the invariant.
LEMMA NextIInv == IInv /\ [Next]_vars => IInv'
<1> SUFFICES ASSUME IInv, [Next]_vars PROVE IInv'
  OBVIOUS
<1>1. CASE UNCHANGED vars
  BY <1>1 DEF IInv, TypeOK, HandlersCovered, Stages, NotStarted, MetricsListener, ReportedLast,
     ShutdownInOrder, Quiet, vars, ctxVars
<1>2. CASE Interrupt
  BY <1>2 DEF Interrupt, IInv, TypeOK, HandlersCovered, Stages, NotStarted, MetricsListener, ReportedLast,
     ShutdownInOrder, Quiet
<1>3. CASE RunStep
  BY <1>3, StartIInv, StopIInv DEF RunStep
<1>4. CASE ServeReturns \/ \E g \in Task : Broken(g) \/ Report(g)
  BY <1>4, TaskIInv
<1>5. ASSUME NEW c \in Conn, Arrives(c) \/ ConnStep(c) \/ Leases(c) \/ LeaseEnds(c) \/ Retires(c)
      PROVE  IInv'
  BY <1>5, ConnIInv
<1> QED
  BY <1>1, <1>2, <1>3, <1>4, <1>5 DEF Next, Returned

\* The inductive invariant is one of the specification.
THEOREM ServerInvariant == Spec => []IInv
  BY InitIInv, NextIInv, PTL DEF Spec

\* Every variable has its type, and no failure is in errs twice.
THEOREM ServerTypeOK == Spec => []TypeOK
  BY ServerInvariant, PTL DEF IInv

\* The shutdown of server.Run leaves things in order: the metrics server outlives
\* the drain, and nothing is open or running when Run returns.
THEOREM ServerShutdownInOrder == Spec => []ShutdownInOrder
  BY ServerInvariant, PTL DEF IInv

-----------------------------------------------------------------------------
(* The capacity of errs.                                                    *)

\* Run starts one goroutine per service and two more.
LEMMA TaskCardinality == IsFiniteSet(Task) /\ Cardinality(Task) = Capacity /\ Capacity \in Nat
<1>1. IsFiniteSet(Svc) /\ Cardinality(Svc) \in Nat /\ "tunnel" \notin Svc /\ "metrics" \notin Svc
  BY ServerAssumption, FS_CardinalityType
<1>2. IsFiniteSet(Svc \cup {"tunnel"}) /\ Cardinality(Svc \cup {"tunnel"}) = Cardinality(Svc) + 1
  BY <1>1, FS_AddElement
<1>3. Task = (Svc \cup {"tunnel"}) \cup {"metrics"} /\ "metrics" \notin Svc \cup {"tunnel"}
  BY <1>1 DEF Task
<1>4. IsFiniteSet(Task) /\ Cardinality(Task) = Cardinality(Svc) + 1 + 1
  BY <1>2, <1>3, FS_AddElement
<1> QED
  BY <1>1, <1>4 DEF Capacity

\* No two entries of errs are the same and none is one that is still to report, so
\* that errs is shorter than there are goroutines.
LEMMA RoomToReport == IInv => NoReportBlocks
<1> SUFFICES ASSUME IInv, NEW g \in Task, task[g] = "report"
             PROVE  Len(errs) < Capacity
  BY DEF NoReportBlocks
<1> DEFINE Rest == Task \ {g}
<1>1. errs \in Seq(Task) /\ Len(errs) \in Nat /\ DOMAIN errs = 1..Len(errs)
  BY DEF IInv, TypeOK
<1>2. \A i, j \in 1..Len(errs) : errs[i] = errs[j] => i = j
  BY <1>1 DEF IInv, TypeOK
<1>3. errs \in [1..Len(errs) -> Rest]
  BY <1>1 DEF IInv, ReportedLast
<1>4. IsFiniteSet(Rest) /\ Cardinality(Rest) = Capacity - 1
  BY TaskCardinality, FS_RemoveElement
<1>5. IsFiniteSet(1..Len(errs)) /\ Cardinality(1..Len(errs)) = Len(errs)
  BY <1>1, FS_Interval
<1>6. errs \in Injection(1..Len(errs), Rest)
  BY <1>2, <1>3 DEF Injection, IsInjective
<1>7. Len(errs) <= Cardinality(Rest)
  BY <1>4, <1>5, <1>6, FS_Injection DEF ExistsInjection
<1> QED
  BY <1>1, <1>4, <1>7, TaskCardinality

\* No goroutine of server.Run ever blocks on the send to errs.
THEOREM ServerNoReportBlocks == Spec => []NoReportBlocks
  BY ServerInvariant, RoomToReport, PTL

-----------------------------------------------------------------------------
(* The metrics endpoint.                                                    *)

\* Finitely many scrapes run, and no client is told anything before its handler has
\* run, but that its connection was cut.
ExporterInv ==
    /\ ExporterTypeOK /\ IsFiniteSet(InFlight)
    /\ \A r \in Request : place[r] \in {"none", "handler"} => answer[r] \in {"none", "cut"}
    /\ UnauthenticatedLearnsNothing

\* A request takes a slot or leaves one, or neither.
LEMMA SlotTaken ==
    ASSUME IsFiniteSet(InFlight), ExporterTypeOK, NEW r \in Request, NEW p,
           place' = [place EXCEPT ![r] = p], p = "collect" => ~Busy
    PROVE  IsFiniteSet(InFlight') /\ Cardinality(InFlight') <= MaxInFlight
<1>1. Cardinality(InFlight) \in Nat /\ MaxInFlight \in Nat /\ Cardinality(InFlight) <= MaxInFlight
  BY FS_CardinalityType, LimitAssumption DEF ExporterTypeOK
<1>2. \A q \in Request : place'[q] = IF q = r THEN p ELSE place[q]
  BY DEF ExporterTypeOK
<1>3. CASE p = "collect" /\ r \notin InFlight
  <2>1. InFlight' = InFlight \cup {r}
    BY <1>2, <1>3 DEF InFlight
  <2>2. IsFiniteSet(InFlight') /\ Cardinality(InFlight') = Cardinality(InFlight) + 1
    BY <1>3, <2>1, FS_AddElement
  <2>3. Cardinality(InFlight) < MaxInFlight
    BY <1>1, <1>3 DEF Busy
  <2> QED
    BY <1>1, <2>2, <2>3
<1>4. CASE p # "collect" \/ r \in InFlight
  <2>1. InFlight' \subseteq InFlight
    BY <1>2, <1>4 DEF InFlight
  <2>2. IsFiniteSet(InFlight') /\ Cardinality(InFlight') <= Cardinality(InFlight)
    BY <2>1, FS_Subset
  <2>3. Cardinality(InFlight') \in Nat
    BY <2>2, FS_CardinalityType
  <2> QED
    BY <1>1, <2>2, <2>3
<1> QED
  BY <1>3, <1>4

\* The inductive invariant is one of the specification.
THEOREM ExporterInvariant == ExporterSpec => []ExporterInv
<1>1. ExporterInit => ExporterInv
  <2> SUFFICES ASSUME ExporterInit PROVE ExporterInv
    OBVIOUS
  <2>1. InFlight = {}
    BY DEF ExporterInit, InFlight
  <2>2. IsFiniteSet(InFlight) /\ Cardinality(InFlight) <= MaxInFlight
    BY <2>1, FS_EmptySet, LimitAssumption
  <2> QED
    BY <2>2 DEF ExporterInit, ExporterInv, ExporterTypeOK, UnauthenticatedLearnsNothing, Kind, SomeKind
<1>2. ExporterInv /\ [ExporterNext]_exporterVars => ExporterInv'
  <2> SUFFICES ASSUME ExporterInv, [ExporterNext]_exporterVars PROVE ExporterInv'
    OBVIOUS
  <2> USE DEF ExporterInv
  <2>1. CASE UNCHANGED exporterVars
    BY <2>1 DEF ExporterTypeOK, UnauthenticatedLearnsNothing, InFlight, exporterVars, requestVars, serverVars
  <2>2. ASSUME NEW r \in Request, RequestArrives(r)
        PROVE  ExporterInv'
    <3>1. PICK k \in Kind : kind' = [kind EXCEPT ![r] = k]
      BY <2>2 DEF RequestArrives
    <3>2. place[r] = "none" /\ place' = [place EXCEPT ![r] = "handler"] /\ UNCHANGED <<answer, serverVars>>
      BY <2>2 DEF RequestArrives
    <3>3. IsFiniteSet(InFlight') /\ Cardinality(InFlight') <= MaxInFlight
      BY <3>2, SlotTaken
    <3>4. ExporterTypeOK'
      BY <3>1, <3>2, <3>3 DEF ExporterTypeOK, serverVars
    <3> QED
      BY <3>1, <3>2, <3>3, <3>4 DEF ExporterTypeOK, UnauthenticatedLearnsNothing
  <2>3. ASSUME NEW r \in Request, Handle(r)
        PROVE  ExporterInv'
    <3> DEFINE a == Verdict(r)
    <3>1. /\ a \in {"unauthorized", "not found", "method not allowed", "overload", "none"}
          /\ ~kind[r].auth => a = "unauthorized"
          /\ a = "none" => ~Busy
      BY DEF Verdict
    <3>2. /\ place[r] = "handler" /\ UNCHANGED <<kind, serverVars>>
          /\ answer' = [answer EXCEPT ![r] = IF @ = "none" THEN a ELSE @]
          /\ place' = [place EXCEPT ![r] = IF a = "none" THEN "collect" ELSE "over"]
      BY <2>3 DEF Handle, Tell
    <3> HIDE DEF a
    <3>3. IsFiniteSet(InFlight') /\ Cardinality(InFlight') <= MaxInFlight
      BY <3>1, <3>2, SlotTaken
    <3>4. ExporterTypeOK'
      BY <3>1, <3>2, <3>3 DEF ExporterTypeOK, serverVars
    <3> QED
      BY <3>1, <3>2, <3>3, <3>4 DEF ExporterTypeOK, UnauthenticatedLearnsNothing
  <2>4. ASSUME NEW r \in Request, Collected(r)
        PROVE  ExporterInv'
    <3>1. IsFiniteSet(InFlight') /\ Cardinality(InFlight') <= MaxInFlight
      BY <2>4, SlotTaken DEF Collected
    <3> QED
      BY <2>4, <3>1 DEF Collected, Tell, ExporterTypeOK, UnauthenticatedLearnsNothing, serverVars
  <2>5. ASSUME NEW r \in Request, TimesOut(r)
        PROVE  ExporterInv'
    <3>1. InFlight' = InFlight
      BY <2>5 DEF TimesOut, InFlight
    <3> QED
      BY <2>5, <3>1 DEF TimesOut, Tell, ExporterTypeOK, UnauthenticatedLearnsNothing, serverVars
  <2>6. CASE ClosesServer
    <3>1. InFlight' = InFlight
      BY <2>6 DEF ClosesServer, InFlight
    <3> QED
      BY <2>6, <3>1 DEF ClosesServer, ExporterTypeOK, UnauthenticatedLearnsNothing
  <2>7. CASE Starts \/ CancelServe \/ ServeEnds \/ Decides \/ Returns
    <3>1. InFlight' = InFlight /\ UNCHANGED requestVars
      BY <2>7 DEF Starts, CancelServe, ServeEnds, Decides, Returns, InFlight, requestVars
    <3> QED
      BY <2>7, <3>1 DEF Starts, CancelServe, ServeEnds, Decides, Returns, Result, ExporterTypeOK,
         UnauthenticatedLearnsNothing, requestVars
  <2> QED
    BY <2>1, <2>2, <2>3, <2>4, <2>5, <2>6, <2>7 DEF ExporterNext, Finished
<1> QED
  BY <1>1, <1>2, PTL DEF ExporterSpec

\* Every variable has its type, and no more scrapes run than promhttp admits.
THEOREM ExporterTypeCorrect == ExporterSpec => []ExporterTypeOK
  BY ExporterInvariant, PTL DEF ExporterInv

\* Whoever asks the metrics endpoint without credentials is told the same whatever
\* it asks for and however busy the endpoint is, and starts no scrape.
THEOREM ExporterUnauthenticatedLearnsNothing == ExporterSpec => []UnauthenticatedLearnsNothing
  BY ExporterInvariant, PTL DEF ExporterInv
=============================================================================
