------------------------------- MODULE Server -------------------------------
(***************************************************************************)
(* server.Run (server/server.go) from its first Listen to its return: the  *)
(* goroutines it starts, the channel they report failures on, the wait     *)
(* groups, and the shutdown with its drain.  The components it starts      *)
(* appear only by what Run relies on: a pool refuses registrations once    *)
(* stopped (Pool), transport.Serve returns after its handlers (Guard), and *)
(* a lease may last for ever unless the pool is forced.                    *)
(***************************************************************************)
EXTENDS Integers, FiniteSets, Sequences

CONSTANTS
    Svc,   \* the configured services
    Conn   \* tunnel connections

ASSUME ServerAssumption == Svc # {} /\ IsFiniteSet(Svc) /\ Svc \cap {"tunnel", "metrics"} = {}

(***************************************************************************)
(* The goroutines of Run are named for their listeners.  One is accepting, *)
(* or (the tunnel's) waiting for its handlers, or has seen that the        *)
(* context is not cancelled and is about to send on errs.                  *)
(***************************************************************************)
Task == Svc \cup {"tunnel", "metrics"}
Accepts == Svc \cup {"tunnel"}

VARIABLES
    pc,       \* where Run is
    metered,  \* cfg.Metrics # nil
    open,     \* the open listeners
    task,     \* what each goroutine is doing
    errs,     \* the channel errs
    failure,  \* the variable failure
    asked,    \* ctx is done
    cancelled, metricsCancelled,  \* runCtx and metricsCtx
    stopped,  \* the pools that are stopped
    forced,   \* the pools that are forced
    conn      \* each connection: its service and what its goroutine is doing

ctxVars == <<asked, cancelled, metricsCancelled>>
vars == <<pc, metered, open, task, errs, failure, ctxVars, stopped, forced, conn>>

None == [at |-> "none", svc |-> "tunnel"]
Handling == {"hello", "ready"}   \* in register
Working  == {"idle", "leased"}   \* in work

Init ==
    /\ pc = "listen" /\ metered \in BOOLEAN
    /\ open = {} /\ task = [g \in Task |-> "off"]
    /\ errs = <<>> /\ failure = "nil"
    /\ asked = FALSE /\ cancelled = FALSE /\ metricsCancelled = FALSE
    /\ stopped = {} /\ forced = {}
    /\ conn = [c \in Conn |-> None]

Interrupt ==
    /\ ~asked /\ asked' = TRUE
    /\ UNCHANGED <<pc, metered, open, task, errs, failure, cancelled, metricsCancelled, stopped, forced, conn>>

-----------------------------------------------------------------------------
(* Starting.                                                                *)

\* The listeners are opened in this order: tunnel, services in any order, metrics.
Due(g) ==
    /\ pc = "listen" /\ g \notin open
    /\ \/ g = "tunnel"
       \/ g \in Svc /\ "tunnel" \in open
       \/ g = "metrics" /\ metered /\ Accepts \subseteq open
Listen(g) ==
    /\ Due(g)
    /\ open' = open \cup {g}
    /\ UNCHANGED <<pc, metered, task, errs, failure, ctxVars, stopped, forced, conn>>
ListenFails(g) ==
    /\ Due(g)
    /\ open' = {} /\ failure' = "error" /\ pc' = "returned"
    /\ UNCHANGED <<metered, task, errs, ctxVars, stopped, forced, conn>>

Launch ==
    /\ pc = "listen" /\ open = IF metered THEN Task ELSE Accepts
    /\ task' = [g \in Task |-> IF g \in open THEN "accept" ELSE "off"]
    /\ pc' = "select"
    /\ UNCHANGED <<metered, open, errs, failure, ctxVars, stopped, forced, conn>>

-----------------------------------------------------------------------------
(* The goroutines.                                                          *)

\* Accept or Serve fails: the listener is closed, or broken.  The tunnel's
\* closes its listener and unfinished handshakes, and waits for its handlers.
Over(g) == IF g = "metrics" THEN metricsCancelled ELSE cancelled
Broken(g) ==
    /\ task[g] = "accept"
    /\ open' = IF g \in Svc THEN open ELSE open \ {g}
    /\ task' = [task EXCEPT ![g] = IF g = "tunnel" THEN "wait" ELSE IF Over(g) THEN "done" ELSE "report"]
    /\ UNCHANGED <<pc, metered, errs, failure, ctxVars, stopped, forced, conn>>

\* transport.Serve returns after the last handler, and register with it.
ServeReturnsEarly ==
    /\ task["tunnel"] = "wait"
    /\ task' = [task EXCEPT !["tunnel"] = IF cancelled THEN "done" ELSE "report"]
    /\ UNCHANGED <<pc, metered, open, errs, failure, ctxVars, stopped, forced, conn>>
ServeReturns ==
    /\ task["tunnel"] = "wait"
    /\ \A c \in Conn : conn[c].at \notin Handling
    /\ task' = [task EXCEPT !["tunnel"] = IF cancelled THEN "done" ELSE "report"]
    /\ UNCHANGED <<pc, metered, open, errs, failure, ctxVars, stopped, forced, conn>>

\* One slot per goroutine that may report.
CapacityShort == Cardinality(Svc) + 1
Capacity == Cardinality(Svc) + 2
Report(g) ==
    /\ task[g] = "report" /\ Len(errs) < Capacity
    /\ errs' = Append(errs, g)
    /\ task' = [task EXCEPT ![g] = "done"]
    /\ UNCHANGED <<pc, metered, open, failure, ctxVars, stopped, forced, conn>>

-----------------------------------------------------------------------------
(* Tunnel connections: handlers, then worker goroutines.                    *)

Moves(c, s, p) ==
    /\ conn' = [conn EXCEPT ![c] = [at |-> p, svc |-> s]]
    /\ UNCHANGED <<pc, metered, open, task, errs, failure, ctxVars, stopped, forced>>

Arrives(c) ==
    /\ conn[c].at = "none" /\ task["tunnel"] = "accept" /\ "tunnel" \in open
    /\ \E s \in Svc : Moves(c, s, "hello")

\* register returns without a worker: refused, its client gone, or its pool stopped.
Refused(c) == conn[c].at \in Handling /\ Moves(c, conn[c].svc, "gone")
Register(c) ==
    /\ conn[c].at = "hello" /\ conn[c].svc \notin stopped
    /\ Moves(c, conn[c].svc, "ready")

\* The registration completes and workers.Add comes before register returns;
\* Idle sends the new worker home if its pool stopped meanwhile.
Completes(c) ==
    /\ conn[c].at = "ready"
    /\ Moves(c, conn[c].svc, "idle")

Leases(c) ==
    /\ conn[c].at = "idle" /\ conn[c].svc \notin stopped
    /\ Moves(c, conn[c].svc, "leased")
LeaseEnds(c) == conn[c].at = "leased" /\ Moves(c, conn[c].svc, "idle")

\* A worker goroutine returns: an idle one at any time, always once its pool is
\* stopped, and any once it is forced.
Retires(c) == conn[c].at = "idle" /\ Moves(c, conn[c].svc, "gone")
CutOff(c) ==
    /\ conn[c].at = "leased" /\ conn[c].svc \in forced
    /\ Moves(c, conn[c].svc, "gone")

-----------------------------------------------------------------------------
(* Stopping.                                                                *)

\* The select: ctx is done or a goroutine has failed.  Then runCtx is cancelled.
Cancel == cancelled' = TRUE /\ UNCHANGED metricsCancelled
Select ==
    /\ pc = "select"
    /\ \/ asked /\ UNCHANGED <<errs, failure>>
       \/ errs # <<>> /\ errs' = Tail(errs) /\ failure' = "error"
    /\ Cancel
    /\ pc' = "stop"
    /\ UNCHANGED <<metered, open, task, asked, stopped, forced, conn>>

\* Pools one after another, then the listeners; then accepts.Wait.
StopPool(s) ==
    /\ pc = "stop" /\ s \notin stopped
    /\ stopped' = stopped \cup {s}
    /\ UNCHANGED <<pc, metered, open, task, errs, failure, ctxVars, forced, conn>>
CloseListeners ==
    /\ pc = "stop" /\ stopped = Svc
    /\ open' = open \ Accepts /\ pc' = "accepts"
    /\ UNCHANGED <<metered, task, errs, failure, ctxVars, stopped, forced, conn>>
AcceptsWait ==
    /\ pc = "accepts" /\ \A g \in Accepts : task[g] = "done"
    /\ pc' = "drain"
    /\ UNCHANGED <<metered, open, task, errs, failure, ctxVars, stopped, forced, conn>>

\* The drain: all workers are done, or its timer fires and the pools are forced.
Drained == \A c \in Conn : conn[c].at \notin Working
Timer ==
    /\ pc = "drain" /\ pc' = "forced"
    /\ forced' = Svc
    /\ UNCHANGED <<metered, open, task, errs, failure, ctxVars, stopped, conn>>
Done ==
    /\ pc \in {"drain", "forced"} /\ Drained
    /\ metricsCancelled' = TRUE /\ pc' = "metrics"
    /\ UNCHANGED <<metered, open, task, errs, failure, asked, cancelled, stopped, forced, conn>>
Return ==
    /\ pc = "metrics" /\ task["metrics"] \in {"off", "done"}
    /\ pc' = "returned"
    /\ UNCHANGED <<metered, open, task, errs, failure, ctxVars, stopped, forced, conn>>

-----------------------------------------------------------------------------
\* What a goroutine does when its context ends or its listener is closed.
Unblocked(g) == (Over(g) \/ g \notin open) /\ Broken(g)
RunStep ==
    \/ \E g \in Task : Listen(g) \/ ListenFails(g)
    \/ Launch \/ Select \/ \E s \in Svc : StopPool(s)
    \/ CloseListeners \/ AcceptsWait \/ Timer \/ Done \/ Return
ConnStep(c) == Refused(c) \/ Register(c) \/ Completes(c) \/ CutOff(c)

Returned == pc = "returned" /\ UNCHANGED vars

Next ==
    \/ RunStep \/ Interrupt \/ ServeReturns \/ Returned
    \/ \E g \in Task : Broken(g) \/ Report(g)
    \/ \E c \in Conn : Arrives(c) \/ ConnStep(c) \/ Leases(c) \/ LeaseEnds(c) \/ Retires(c)

Spec == Init /\ [][Next]_vars

(***************************************************************************)
(* Fairness.  Run and its goroutines make progress; a handler ends (its    *)
(* phases have deadlines) and so does the idle worker of a stopped pool.   *)
(* A lease need not end, and no listener need fail.                        *)
(***************************************************************************)
Fairness ==
    /\ WF_vars(RunStep) /\ WF_vars(ServeReturns)
    /\ \A g \in Task : WF_vars(Unblocked(g)) /\ WF_vars(Report(g))
    /\ \A c \in Conn : /\ WF_vars(ConnStep(c))
                       /\ WF_vars(conn[c].svc \in stopped /\ Retires(c))
FairSpec == Spec /\ Fairness

-----------------------------------------------------------------------------
(* Properties.                                                              *)

\* Every variable has its type, and errs holds no goroutine's failure twice.
TypeOK ==
    /\ pc \in {"listen", "select", "stop", "accepts", "drain", "forced", "metrics", "returned"}
    /\ open \subseteq Task /\ stopped \subseteq Svc /\ forced \subseteq Svc
    /\ task \in [Task -> {"off", "accept", "wait", "report", "done"}]
    /\ errs \in Seq(Task) /\ \A i, j \in DOMAIN errs : errs[i] = errs[j] => i = j
    /\ failure \in {"nil", "error"}
    /\ {metered, asked, cancelled, metricsCancelled} \subseteq BOOLEAN
    /\ conn \in [Conn -> [at : {"none", "gone"} \cup Handling \cup Working, svc : Task]]

\* The shutdown leaves things in order.  The metrics server is not stopped while a
\* connection is left, so that scrapes can watch the drain (server.go:93); no
\* handler adds a worker that Run does not wait for (server.go:122, worker.go:90);
\* and when Run returns, also because a listener could not be opened, no listener
\* is open and no goroutine of it is running.
Quiet == \A c \in Conn : conn[c].at \in {"none", "gone"}
ShutdownInOrder ==
    /\ metricsCancelled => Quiet
    /\ pc = "returned" => Quiet /\ open = {} /\ \A g \in Task : task[g] \in {"off", "done"}

\* The server stops when it is asked to, though a lease never ends; and it stops
\* when any one of its listeners fails: it does not go on without a service, its
\* tunnel or its metrics.
StopsWhenDue ==
    (pc = "select" /\ asked) \/ (\E g \in Task : task[g] = "report") ~> pc = "returned"
=============================================================================
