------------------------------ MODULE Exporter ------------------------------
(***************************************************************************)
(* The metrics endpoint (metrics/metrics.go Handler and Serve): requests   *)
(* that net/http runs concurrently, the promhttp handler behind the        *)
(* authentication with its limit and its timeout, and the end of Serve,    *)
(* which a cancelled context or a failing listener brings about.  What a   *)
(* scrape reads is the subject of module Metrics.                          *)
(***************************************************************************)
EXTENDS Naturals, FiniteSets

CONSTANTS
    Request,      \* bound: the requests of a behaviour
    MaxInFlight   \* HandlerOpts.MaxRequestsInFlight

ASSUME LimitAssumption == MaxInFlight \in Nat \ {0}

VARIABLES
    kind,    \* what a request asks for
    place,   \* "none", "handler", "collect" or "over"
    answer,  \* what its client was told
    ctxDone, \* the context of Serve is cancelled
    closing, \* context.AfterFunc's goroutine has started
    closed,  \* srv.Close has been called
    serve,   \* where Serve is
    result   \* what it returned

requestVars == <<kind, place, answer>>
serverVars == <<ctxDone, closing, closed, serve, result>>
exporterVars == <<requestVars, serverVars>>

\* The credentials match; the path is /metrics; the method is GET or HEAD.
Kind == [auth : BOOLEAN, path : BOOLEAN, method : BOOLEAN]
SomeKind == [auth |-> FALSE, path |-> FALSE, method |-> FALSE]

ExporterInit ==
    /\ kind = [r \in Request |-> SomeKind]
    /\ place = [r \in Request |-> "none"]
    /\ answer = [r \in Request |-> "none"]
    /\ ctxDone = FALSE /\ closing = FALSE /\ closed = FALSE
    /\ serve = "starting" /\ result = "none"

-----------------------------------------------------------------------------
(* Requests.                                                                *)

\* net/http reads a request and starts its handler: on a connection it has
\* accepted, which only srv.Close closes.
RequestArrives(r) ==
    /\ serve # "starting" /\ ~closed /\ place[r] = "none"
    /\ \E k \in Kind : kind' = [kind EXCEPT ![r] = k]
    /\ place' = [place EXCEPT ![r] = "handler"]
    /\ UNCHANGED <<answer, serverVars>>

\* The client is told a, unless its connection has been closed or it has been
\* told already, when the timeout was up.
Tell(r, a) == answer' = [answer EXCEPT ![r] = IF @ = "none" THEN a ELSE @]

\* promhttp: a request holds one of the slots until its Collect is over.
InFlight == {r \in Request : place[r] = "collect"}
Busy == Cardinality(InFlight) >= MaxInFlight

\* The handler: authentication, then the route, the method and the limit.
VerdictLimitFirst(r) ==
    IF Busy THEN "overload"
    ELSE IF ~kind[r].auth THEN "unauthorized"
    ELSE IF ~kind[r].path THEN "not found"
    ELSE IF ~kind[r].method THEN "method not allowed" ELSE "none"
Verdict(r) ==
    IF ~kind[r].auth THEN "unauthorized"
    ELSE IF ~kind[r].path THEN "not found"
    ELSE IF ~kind[r].method THEN "method not allowed"
    ELSE IF Busy THEN "overload" ELSE "none"

Handle(r) ==
    /\ place[r] = "handler"
    /\ Tell(r, Verdict(r))
    /\ place' = [place EXCEPT ![r] = IF Verdict(r) = "none" THEN "collect" ELSE "over"]
    /\ UNCHANGED <<kind, serverVars>>

\* Collect is through and its slot is free.
Collected(r) ==
    /\ place[r] = "collect"
    /\ Tell(r, "metrics")
    /\ place' = [place EXCEPT ![r] = "over"]
    /\ UNCHANGED <<kind, serverVars>>

\* HandlerOpts.Timeout: the client is answered while Collect goes on.
TimesOut(r) ==
    /\ place[r] = "collect" /\ answer[r] = "none"
    /\ Tell(r, "timeout")
    /\ UNCHANGED <<kind, place, serverVars>>

-----------------------------------------------------------------------------
(* Serve.                                                                   *)

\* srv.Serve has the listener; it refuses to start on a closed server.
Starts ==
    /\ serve = "starting" /\ ~closed
    /\ serve' = "serving"
    /\ UNCHANGED <<requestVars, ctxDone, closing, closed, result>>

\* The context is cancelled; the deferred stop has unregistered AfterFunc once
\* Serve has returned.
CancelServe ==
    /\ ~ctxDone
    /\ ctxDone' = TRUE
    /\ closing' = (serve # "returned")
    /\ UNCHANGED <<requestVars, closed, serve, result>>

\* context.AfterFunc, in a goroutine of its own: srv.Close closes the listener
\* and every connection, and waits for nobody.
ShutsDownServer ==
    /\ closing /\ ~closed /\ InFlight = {}
    /\ closed' = TRUE
    /\ answer' = [r \in Request |->
           IF place[r] # "none" /\ answer[r] = "none" THEN "cut" ELSE answer[r]]
    /\ UNCHANGED <<kind, place, ctxDone, closing, serve, result>>
ClosesServer ==
    /\ closing /\ ~closed
    /\ closed' = TRUE
    /\ answer' = [r \in Request |->
           IF place[r] # "none" /\ answer[r] = "none" THEN "cut" ELSE answer[r]]
    /\ UNCHANGED <<kind, place, ctxDone, closing, serve, result>>

\* srv.Serve returns: the server was closed, before or after it started, or
\* Accept failed.
ServeEnds ==
    /\ serve \in {"starting", "serving"}
    /\ \/ closed /\ serve' = "server closed"
       \/ serve = "serving" /\ ~closed /\ serve' = "accept failed"
    /\ UNCHANGED <<requestVars, ctxDone, closing, closed, result>>

\* The verdict on srv.Serve's error: after a cancellation there is none.
Result == IF ctxDone \/ serve = "server closed" THEN "nil" ELSE "error"
Decides ==
    /\ serve \in {"server closed", "accept failed"}
    /\ result' = Result
    /\ serve' = "decided"
    /\ UNCHANGED <<requestVars, ctxDone, closing, closed>>
Returns ==
    /\ serve = "decided"
    /\ serve' = "returned"
    /\ UNCHANGED <<requestVars, ctxDone, closing, closed, result>>

Finished == serve = "returned" /\ UNCHANGED exporterVars

-----------------------------------------------------------------------------
ExporterNext ==
    \/ \E r \in Request : RequestArrives(r) \/ Handle(r) \/ Collected(r) \/ TimesOut(r)
    \/ Starts \/ CancelServe \/ ClosesServer \/ ServeEnds \/ Decides \/ Returns \/ Finished

ExporterSpec == ExporterInit /\ [][ExporterNext]_exporterVars

\* Goroutines run and the timeout fires.  A Collect need not end, and the
\* listener need not fail.
ExporterFairness ==
    /\ WF_exporterVars(ClosesServer) /\ WF_exporterVars(closed /\ ServeEnds)
    /\ WF_exporterVars(Decides) /\ WF_exporterVars(Returns)
    /\ \A r \in Request : WF_exporterVars(Handle(r)) /\ WF_exporterVars(TimesOut(r))

ExporterFairSpec == ExporterSpec /\ ExporterFairness

-----------------------------------------------------------------------------
(* Properties.                                                              *)

\* Every variable has its type, and no more scrapes run than promhttp admits,
\* those whose clients have been told "timeout" included.
ExporterTypeOK ==
    /\ kind \in [Request -> Kind]
    /\ place \in [Request -> {"none", "handler", "collect", "over"}]
    /\ answer \in [Request -> {"none", "unauthorized", "not found", "method not allowed",
                               "overload", "metrics", "timeout", "cut"}]
    /\ ctxDone \in BOOLEAN /\ closing \in BOOLEAN /\ closed \in BOOLEAN
    /\ result \in {"none", "nil", "error"}
    /\ serve \in {"starting", "serving", "server closed", "accept failed", "decided", "returned"}
    /\ Cardinality(InFlight) <= MaxInFlight

\* A client without credentials learns nothing: whatever it asks for, and however
\* many scrapes are running, it is told the same, and it never starts a scrape
\* (Handler's comment, metrics.go:306).
UnauthenticatedLearnsNothing ==
    \A r \in Request : place[r] # "none" /\ ~kind[r].auth =>
        /\ answer[r] \in {"none", "unauthorized", "cut"}
        /\ place[r] # "collect"

\* A cancelled Serve returns although scrapes are in flight and may never end,
\* and also when the cancellation comes before srv.Serve (metrics.go:337).
ServeStops == ctxDone ~> serve = "returned"
=============================================================================
