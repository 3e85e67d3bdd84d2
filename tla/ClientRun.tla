----------------------------- MODULE ClientRun -----------------------------
(***************************************************************************)
(* client.Run (client/client.go) around the client's connections: it waits *)
(* for the caller's context or for a failure of the metrics server, then   *)
(* cancels, stops and drains the connections, and stops the metrics server *)
(* only after that.  The connections are those of ClientSlots, whose       *)
(* context is Run's runCtx: it is done when the caller's is, and when Run  *)
(* cancels it.                                                             *)
(***************************************************************************)
EXTENDS ClientSlots, Sequences

VARIABLES
    run,        \* where Run is: "select", "drain", "metrics" or "returned"
    asked,      \* the caller's context is done
    meter,      \* the metrics goroutine: "off", "serving", "failed" or "done"
    meterDone,  \* metricsCtx is cancelled
    errs,       \* the channel errs
    failure     \* Run's variable failure

runVars == <<run, asked, meter, meterDone, errs, failure>>
allVars == <<vars, runVars>>

\* The capacity of errs.
NoRoom == 0
Room == 1

RunInit ==
    /\ Init
    /\ run = "select" /\ asked = FALSE
    /\ meter \in {"off", "serving"} /\ meterDone = FALSE
    /\ errs = <<>> /\ failure = "nil"

\* runCtx is done, if it was not before.
CancelRunCtx == IF ctxDone THEN UNCHANGED vars ELSE CtxCancel

Interrupt ==
    /\ ~asked /\ asked' = TRUE
    /\ CancelRunCtx
    /\ UNCHANGED <<run, meter, meterDone, errs, failure>>

-----------------------------------------------------------------------------
(* The metrics goroutine.                                                   *)

\* Serve fails, and metricsCtx is not done: the error will be sent on errs.
MeterFails ==
    /\ meter = "serving" /\ ~meterDone
    /\ meter' = "failed"
    /\ UNCHANGED <<vars, run, asked, meterDone, errs, failure>>

\* The send needs room in the channel or Run in its select.
MeterReports ==
    /\ meter = "failed"
    /\ Len(errs) < Room \/ (run = "select" /\ errs = <<>>)
    /\ errs' = Append(errs, "error")
    /\ meter' = "done"
    /\ UNCHANGED <<vars, run, asked, meterDone, failure>>

MeterStops ==
    /\ meter = "serving" /\ meterDone
    /\ meter' = "done"
    /\ UNCHANGED <<vars, run, asked, meterDone, errs, failure>>

-----------------------------------------------------------------------------
(* Run.                                                                     *)

\* The select, then cancel.
SelectAsked ==
    /\ run = "select" /\ asked
    /\ run' = "drain"
    /\ UNCHANGED <<vars, asked, meter, meterDone, errs, failure>>
SelectFailure ==
    /\ run = "select" /\ errs # <<>>
    /\ failure' = Head(errs) /\ errs' = Tail(errs)
    /\ CancelRunCtx
    /\ run' = "drain"
    /\ UNCHANGED <<asked, meter, meterDone>>

\* A step of the connections; stop and force are Run's, and the context is
\* cancelled by Interrupt and SelectFailure.
Connections ==
    /\ Next
    /\ ctxDone' = ctxDone
    /\ stopping' # stopping => run = "drain"
    /\ UNCHANGED runVars

\* r.wg.Wait is over, stop and force too: stopMetrics.
DrainIsOver == stopping /\ stopSet = {} /\ forceSet = {} /\ Ended
StopMetrics ==
    /\ run = "drain" /\ DrainIsOver
    /\ meterDone' = TRUE
    /\ run' = "metrics"
    /\ UNCHANGED <<vars, asked, meter, errs, failure>>

\* metricsDone.Wait, and the return.
Returns ==
    /\ run = "metrics" /\ meter \in {"off", "done"}
    /\ run' = "returned"
    /\ UNCHANGED <<vars, asked, meter, meterDone, errs, failure>>

-----------------------------------------------------------------------------
RunNext ==
    \/ Interrupt \/ MeterFails \/ MeterReports \/ MeterStops
    \/ SelectAsked \/ SelectFailure \/ Connections \/ StopMetrics \/ Returns

\* The fairness of the connections; goroutines run; a cancelled Serve returns
\* (Exporter!ServeStops).  Nobody need ask the client to stop.
RunFairness ==
    /\ Fairness
    /\ WF_allVars(MeterReports) /\ WF_allVars(MeterStops)
    /\ WF_allVars(SelectAsked \/ SelectFailure)
    /\ WF_allVars(StopMetrics) /\ WF_allVars(Returns)

RunSpec == RunInit /\ [][RunNext]_allVars /\ RunFairness

-----------------------------------------------------------------------------
(* Properties.                                                              *)

\* Run returns once it is asked to or its metrics server has failed, in the middle
\* of dials and leases, and although nobody may be waiting any more for the report
\* of that failure.
RunReturns == asked \/ meter = "failed" ~> run = "returned"
=============================================================================
