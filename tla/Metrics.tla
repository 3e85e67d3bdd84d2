------------------------------ MODULE Metrics ------------------------------
(***************************************************************************)
(* The server's counters and a scrape of them (metrics/metrics.go), put    *)
(* together with the pool.  The accept loop counts a visitor before it     *)
(* dispatches it and a refusal after, register counts a connection before  *)
(* its worker starts and the worker counts its end after Closed; Collect   *)
(* meanwhile loads one counter after the other, without a lock.            *)
(*                                                                         *)
(* A counter with labels is loaded label by label.  Its total grows by one *)
(* at a time, so the sum that is read is the value the total had at some   *)
(* moment of those loads: one step that loads the total stands for them.   *)
(***************************************************************************)
EXTENDS Pool

VARIABLES
    visitors,  \* Service.Visitors
    failed,    \* the total of Service.dispatch
    opened,    \* the connections Service.Opened has counted
    closed,    \* the connections Service.closed has counted
    loop,      \* the service's accept loop in server.Run
    step,      \* the loads Collect has made, of Order
    seen,      \* what it has loaded
    settled    \* the scrape began after the server had drained

counterVars == <<visitors, failed, opened, closed, loop>>
scrapeVars  == <<step, seen, settled>>
metricsVars == <<vars, counterVars, scrapeVars>>

\* The gauges and counters of one service, and what a scrape starts from.
Fields == {"opened", "leases", "live", "pending", "waits", "visitors", "closed", "failed"}
NothingSeen == [f \in Fields |-> 0]

MetricsInit ==
    /\ Init
    /\ visitors = 0 /\ failed = 0 /\ opened = {} /\ closed = {} /\ loop = "accept"
    /\ step = 0 /\ seen = NothingSeen /\ settled = FALSE

-----------------------------------------------------------------------------
(* The accept loop and the workers.                                         *)

\* Accept returns a visitor, which is counted at once.
CountVisitor ==
    /\ loop = "accept" /\ visitors < MaxVisitors
    /\ visitors' = visitors + 1
    /\ loop' = "dispatch"
    /\ UNCHANGED <<vars, failed, opened, closed, scrapeVars>>

\* Dispatch returned an error: DispatchFailed records it under its label.
CountFailureWhileRunning ==
    /\ loop = "failed"
    /\ failed' = IF stopping THEN failed ELSE failed + 1
    /\ loop' = "accept"
    /\ UNCHANGED <<vars, visitors, opened, closed, scrapeVars>>
CountFailure ==
    /\ loop = "failed"
    /\ failed' = failed + 1
    /\ loop' = "accept"
    /\ UNCHANGED <<vars, visitors, opened, closed, scrapeVars>>

\* Run closes the listener once the pools are stopped.
LoopEnds ==
    /\ loop = "accept" /\ stopping
    /\ loop' = "ended"
    /\ UNCHANGED <<vars, visitors, failed, opened, closed, scrapeVars>>

\* register: the handshake is through, the worker goroutine not yet started.
CountOpened(w) ==
    /\ at[w] = "register" /\ w \notin opened
    /\ opened' = opened \cup {w}
    /\ UNCHANGED <<vars, visitors, failed, closed, loop, scrapeVars>>

\* The worker goroutine's deferred function, after Closed.
CountClosed(w) ==
    /\ at[w] = "done" /\ w \in opened \ closed
    /\ closed' = closed \cup {w}
    /\ UNCHANGED <<vars, visitors, failed, opened, loop, scrapeVars>>

\* A step of the pool.  Dispatch is called for the visitor just counted; work
\* starts for a connection that is counted, and one that is counted starts it.
PoolStep ==
    /\ Next
    /\ IF arrived' = arrived
       THEN UNCHANGED loop
       ELSE loop = "dispatch" /\ loop' = IF refused' = refused THEN "accept" ELSE "failed"
    /\ \A w \in Worker : at[w] = "register" /\ at'[w] # "register" =>
                             (w \in opened <=> at'[w] # "done")
    /\ UNCHANGED <<visitors, failed, opened, closed, scrapeVars>>

-----------------------------------------------------------------------------
(* A scrape.                                                                *)

\* Pool.Stats: the states of the workers and the queue, in one critical section.
Live == {w \in Worker : state[w] \notin {"none", "closed"}}
Stats(s) == [s EXCEPT !.live = Cardinality(Live), !.pending = pending,
                      !.waits = waitTimeouts + waitCanceled]

\* The order in which Collect reads.
OrderVisitorsEarly == <<"opened", "leases", "visitors", "stats", "closed", "failed">>
Order == <<"opened", "leases", "stats", "visitors", "closed", "failed">>

Load(c, s) ==
    CASE c = "opened"   -> [s EXCEPT !.opened = Cardinality(opened)]
      [] c = "leases"   -> [s EXCEPT !.leases = leases]
      [] c = "stats"    -> Stats(s)
      [] c = "visitors" -> [s EXCEPT !.visitors = visitors]
      [] c = "closed"   -> [s EXCEPT !.closed = Cardinality(closed)]
      [] c = "failed"   -> [s EXCEPT !.failed = failed]

\* server.Run's two waits are over: accepts.Wait and workers.Wait.
DrainDone == stopping /\ stopSet = {} /\ forceSet = {} /\ loop = "ended" /\ Drained /\ closed = opened

Collect ==
    /\ step < Len(Order)
    /\ step' = step + 1
    /\ seen' = Load(Order[step + 1], seen)
    /\ settled' = IF step = 0 THEN DrainDone ELSE settled
    /\ UNCHANGED <<vars, counterVars>>

\* The answer is sent; another scrape may follow.
Answered ==
    /\ step = Len(Order)
    /\ step' = 0 /\ seen' = NothingSeen /\ settled' = FALSE
    /\ UNCHANGED <<vars, counterVars>>

-----------------------------------------------------------------------------
MetricsNext ==
    \/ CountVisitor \/ CountFailure \/ LoopEnds
    \/ \E w \in Worker : CountOpened(w) \/ CountClosed(w)
    \/ PoolStep
    \/ Collect \/ Answered

MetricsSpec == MetricsInit /\ [][MetricsNext]_metricsVars

-----------------------------------------------------------------------------
(* Properties.                                                              *)

\* A scrape taken while visitors come and go may miss one that moves on between two
\* loads, and counts none twice: the finished leases, the queue and those dropped
\* from it are read in that order (metrics.go:265), so together they are at most
\* the server_visitors_total that is loaded next.  The refusals of Dispatch are
\* loaded later still (metrics.go:278), and so may be those of visitors that came
\* after that load; with them the sum is at most the visitors there are by then.
\* Nothing is claimed of the connections: those closed are loaded after those
\* opened and may be more.
ScrapeCountsNoVisitorTwice ==
    step = Len(Order) =>
        /\ seen.leases + seen.pending + seen.waits <= seen.visitors
        /\ seen.leases + seen.pending + seen.waits + seen.failed <= visitors

\* The metrics server outlives the drain so that scrapes can watch it end
\* (server.go:93).  A scrape that begins after the drain is exact: unless the
\* pool was forced, every visitor is in one of the totals, and every connection
\* that was opened is closed and gone from the gauges.
FinalScrapeBalances ==
    settled /\ step = Len(Order) =>
        /\ seen.opened = seen.closed /\ seen.live = 0 /\ seen.pending = 0
        /\ ~forced => seen.visitors = seen.leases + seen.waits + seen.failed
=============================================================================
