------------------------------- MODULE Tunnel -------------------------------
(***************************************************************************)
(* One tunnel connection: the frame protocol between the server's worker   *)
(* goroutine (server/worker.go register, work, heartbeat, lease) and the   *)
(* client's slot goroutine (client/worker.go serveSlot, lease), with the   *)
(* two pumps of a lease (relay/relay.go Run) at each end.                  *)
(*                                                                         *)
(* Each end reads frames in the order the other wrote them.  An end may be *)
(* closed under its goroutine (Stop, Force, stop, force), a read with a    *)
(* deadline may time out, and the network may fail any read or write.      *)
(***************************************************************************)
EXTENDS Integers, Sequences

CONSTANTS
    MaxID,    \* math.MaxUint64, the last lease ID of a connection
    MaxData   \* bound: DATA frames per direction of a lease

ASSUME IDAssumption   == MaxID \in Nat \ {0}
ASSUME DataAssumption == MaxData \in Nat

VARIABLES
    pc,      \* what each end's goroutine is doing
    last,    \* its lease counter
    inbox,   \* the frames on their way to it
    closed,  \* it closed its connection
    armed,   \* a read deadline is set on its connection
    data,    \* DATA frames it has written in this lease
    sentFin, gotFin,  \* its two pumps are through
    nonce,   \* of the server's latest PING
    why,     \* how its goroutine ended
    noDial,  \* lease's local dialFailed
    outcome  \* what LeaseDone recorded of each lease

leaseVars == <<noDial, outcome>>
vars == <<pc, last, inbox, closed, armed, data, sentFin, gotFin, nonce, why, leaseVars>>

S == "server"
C == "client"
End == {S, C}
Peer(x) == IF x = S THEN C ELSE S

Frame(t, i, n) == [type |-> t, id |-> i, nonce |-> n]
Plain(t, i) == Frame(t, i, 0)

(***************************************************************************)
(* The server waits for HELLO, then READY; it is idle, in a heartbeat, or  *)
(* in a lease: waiting for OPEN's answer, relaying, at the release         *)
(* barrier; past its deadline it is expiring, about to say CLOSE.  The     *)
(* client starts, waits for HELLO's answer, is idle, or in a lease:        *)
(* dialling its service, relaying, at the barrier.                         *)
(***************************************************************************)
Place == {"start", "hello", "ready", "idle", "ping", "expiring", "open", "dial", "relay", "barrier",
          "gone"}
InLease == {"open", "dial", "relay", "barrier"}

\* The reasons that work and serveSlot record, told apart further where a property
\* does: "network" and "timeout" are recorded as "error" too, and "cut" is an
\* "expired" whose CLOSE could not be written.
Reason == {"running", "error", "network", "timeout", "rejected", "shutdown", "expired", "cut",
           "exhausted", "server_close", "client_close", "surplus"}

Init ==
    /\ pc = [x \in End |-> IF x = S THEN "hello" ELSE "start"]
    /\ last = [x \in End |-> 0]
    /\ inbox = [x \in End |-> <<>>]
    /\ closed = [x \in End |-> FALSE]
    /\ armed = [x \in End |-> TRUE]
    /\ data = [x \in End |-> 0]
    /\ sentFin = [x \in End |-> FALSE] /\ gotFin = [x \in End |-> FALSE]
    /\ nonce = 0
    /\ why = [x \in End |-> "running"]
    /\ noDial = [x \in End |-> FALSE]
    /\ outcome = [x \in End |-> [i \in 1..MaxID |-> "none"]]

-----------------------------------------------------------------------------
(* Reading, writing and ending.                                             *)

At(x, p) == pc[x] = p /\ ~closed[x]

\* ReadFrame at place p returns the next frame: type t, lease i.
Reads(x, p, t, i) ==
    /\ At(x, p) /\ inbox[x] # <<>>
    /\ Head(inbox[x]).type = t /\ Head(inbox[x]).id = i

\* x consumes the frame it read and writes the frames out.
Answer(x, out) ==
    inbox' = [inbox EXCEPT ![x] = Tail(@), ![Peer(x)] = @ \o out]
Write(x, out) == inbox' = [inbox EXCEPT ![Peer(x)] = @ \o out]

Goto(x, p) == pc' = [pc EXCEPT ![x] = p]
Deadline(x, on) == armed' = [armed EXCEPT ![x] = on]

\* The deferred function of lease, at both ends: LeaseDone with the outcome.
Record(x, o) ==
    /\ outcome' = [outcome EXCEPT ![x][last[x]] = o]
    /\ UNCHANGED noDial
Finished(x) == IF noDial[x] THEN "dial_failed" ELSE "ok"

\* How a lease ends when its goroutine returns for reason r.
Abandoned(x, r) ==
    IF r = "client_close" THEN r ELSE IF r = "surplus" THEN Finished(x) ELSE "error"

\* lease starts: a fresh dialFailed.
StartLeaseKeepsServers(x) ==
    /\ noDial' = [noDial EXCEPT ![x] = @ /\ x = S]
    /\ UNCHANGED outcome
StartLease(x) == noDial' = [noDial EXCEPT ![x] = FALSE] /\ UNCHANGED outcome
DialFailed(x) == noDial' = [noDial EXCEPT ![x] = TRUE] /\ UNCHANGED outcome

\* The goroutine returns for reason r and the connection is closed.
ReturnKeepsOpen(x, r) ==
    /\ Goto(x, "gone")
    /\ why' = [why EXCEPT ![x] = r]
    /\ IF pc[x] \in InLease THEN Record(x, Abandoned(x, r)) ELSE UNCHANGED leaseVars
    /\ UNCHANGED <<last, closed, armed, data, sentFin, gotFin, nonce>>
Return(x, r) ==
    /\ Goto(x, "gone")
    /\ closed' = [closed EXCEPT ![x] = TRUE]
    /\ why' = [why EXCEPT ![x] = r]
    /\ IF pc[x] \in InLease THEN Record(x, Abandoned(x, r)) ELSE UNCHANGED leaseVars
    /\ UNCHANGED <<last, armed, data, sentFin, gotFin, nonce>>

\* Another goroutine closes the connection: Pool.Stop or Force, client stop or force.
CloseUnder(x) ==
    /\ pc[x] # "gone" /\ ~closed[x]
    /\ closed' = [closed EXCEPT ![x] = TRUE]
    /\ UNCHANGED <<pc, last, inbox, armed, data, sentFin, gotFin, nonce, why, leaseVars>>

\* The peer has closed, and x has read all it wrote, or the peer's kernel
\* answered unread frames with a reset, which discards the rest.
Broken(x) == closed[Peer(x)] /\ (inbox[x] = <<>> \/ inbox[Peer(x)] # <<>>)

\* An idle server worker waits in Pool.Next and touches its connection only
\* for the next heartbeat or lease.
DoesIO(x) == ~(x = S /\ pc[x] = "idle")

\* goodbye ignores that its write fails: the reason stays "expired".
Failure(x, r) == IF pc[x] = "expiring" THEN "cut" ELSE r

\* A read or write fails; or Next returns because the worker was closed.
Fails(x) ==
    /\ pc[x] # "gone"
    /\ closed[x] \/ (DoesIO(x) /\ Broken(x))
    /\ Return(x, Failure(x, IF closed[x] THEN "shutdown" ELSE "error"))
    /\ UNCHANGED inbox

\* The network fails a read or write, whatever the peer did.
NetworkFails(x) ==
    /\ pc[x] # "gone" /\ ~closed[x] /\ DoesIO(x)
    /\ Return(x, Failure(x, "network"))
    /\ UNCHANGED inbox

\* A deadline that was set passes.
TimesOut(x) ==
    /\ pc[x] # "gone" /\ armed[x]
    /\ Return(x, "timeout")
    /\ UNCHANGED inbox

-----------------------------------------------------------------------------
(* The server: register and work.                                           *)

\* register answers HELLO; which of its checks refuses is immaterial here.
ServerRejects ==
    /\ Reads(S, "hello", "HELLO", 0)
    /\ Answer(S, <<Plain("HELLO_ERR", 0)>>)
    /\ Return(S, "rejected")
ServerAdmits ==
    /\ Reads(S, "hello", "HELLO", 0)
    /\ Answer(S, <<Plain("HELLO_OK", 0)>>)
    /\ Goto(S, "ready")
    /\ UNCHANGED <<last, closed, armed, data, sentFin, gotFin, nonce, why, leaseVars>>

\* READY completes the registration and clears the handshake deadline.
ServerReady ==
    /\ Reads(S, "ready", "READY", 0)
    /\ Answer(S, <<>>)
    /\ Deadline(S, FALSE)
    /\ Goto(S, "idle")
    /\ UNCHANGED <<last, closed, data, sentFin, gotFin, nonce, why, leaseVars>>

\* heartbeat: a fresh nonce, and its echo.
Ping ==
    /\ At(S, "idle")
    /\ nonce' = 1 - nonce
    /\ Deadline(S, TRUE)
    /\ Write(S, <<Frame("PING", 0, nonce')>>)
    /\ Goto(S, "ping")
    /\ UNCHANGED <<last, closed, data, sentFin, gotFin, why, leaseVars>>
PongReceived ==
    /\ Reads(S, "ping", "PONG", 0) /\ Head(inbox[S]).nonce = nonce
    /\ Answer(S, <<>>)
    /\ Deadline(S, FALSE)
    /\ Goto(S, "idle")
    /\ UNCHANGED <<last, closed, data, sentFin, gotFin, nonce, why, leaseVars>>

\* Next or Idle finds the worker past its idle or lifetime deadline and lets go of
\* the pool's mutex: Stop and Force still reach the connection.
Expires ==
    /\ At(S, "idle")
    /\ Goto(S, "expiring")
    /\ UNCHANGED <<last, inbox, closed, armed, data, sentFin, gotFin, nonce, why, leaseVars>>

\* goodbye, when its write succeeds.
GoodbyeSilent == At(S, "expiring") /\ Return(S, "expired") /\ UNCHANGED inbox
Goodbye ==
    /\ At(S, "expiring")
    /\ Write(S, <<Plain("CLOSE", 0)>>)
    /\ Return(S, "expired")

\* A visitor arrives: lease IDs are used in order, and the last one ends the connection.
IDsLeft == last[S] < MaxID
Open ==
    /\ At(S, "idle") /\ IDsLeft
    /\ last' = [last EXCEPT ![S] = @ + 1]
    /\ Deadline(S, TRUE)
    /\ Write(S, <<Plain("OPEN", last[S] + 1)>>)
    /\ Goto(S, "open")
    /\ StartLease(S)
    /\ UNCHANGED <<closed, data, sentFin, gotFin, nonce, why>>
Exhausted ==
    /\ At(S, "idle") /\ last[S] = MaxID
    /\ Return(S, "exhausted")
    /\ UNCHANGED inbox

\* Relay.Run starts with fresh pumps.
StartRelay(x) ==
    /\ Goto(x, "relay")
    /\ data' = [data EXCEPT ![x] = 0]
    /\ sentFin' = [sentFin EXCEPT ![x] = FALSE]
    /\ gotFin' = [gotFin EXCEPT ![x] = FALSE]

OpenAccepted ==
    /\ Reads(S, "open", "OPEN_OK", last[S])
    /\ Answer(S, <<>>)
    /\ Deadline(S, FALSE)
    /\ StartRelay(S)
    /\ UNCHANGED <<last, closed, nonce, why, leaseVars>>

\* The client could not dial: straight to the release barrier.
OpenRefusedSilent ==
    /\ Reads(S, "open", "OPEN_ERR", last[S])
    /\ Answer(S, <<>>)
    /\ Deadline(S, TRUE)
    /\ Goto(S, "barrier")
    /\ DialFailed(S)
    /\ UNCHANGED <<last, closed, data, sentFin, gotFin, nonce, why>>
OpenRefused ==
    /\ Reads(S, "open", "OPEN_ERR", last[S])
    /\ Answer(S, <<Plain("RELEASE", last[S])>>)
    /\ Deadline(S, TRUE)
    /\ Goto(S, "barrier")
    /\ DialFailed(S)
    /\ UNCHANGED <<last, closed, data, sentFin, gotFin, nonce, why>>

\* Both pumps ended well: RELEASE, and the wait for READY.
Relayed(x) == sentFin[x] /\ gotFin[x]
ReleaseWithoutBarrier ==
    /\ At(S, "relay") /\ Relayed(S)
    /\ Write(S, <<Plain("RELEASE", last[S])>>)
    /\ Goto(S, "idle")
    /\ UNCHANGED <<last, closed, armed, data, sentFin, gotFin, nonce, why, leaseVars>>
Release ==
    /\ At(S, "relay") /\ Relayed(S)
    /\ Write(S, <<Plain("RELEASE", last[S])>>)
    /\ Deadline(S, TRUE)
    /\ Goto(S, "barrier")
    /\ UNCHANGED <<last, closed, data, sentFin, gotFin, nonce, why, leaseVars>>

\* The barrier's two answers.
Released ==
    /\ Reads(S, "barrier", "READY", last[S])
    /\ Answer(S, <<>>)
    /\ Deadline(S, FALSE)
    /\ Goto(S, "idle")
    /\ Record(S, Finished(S))
    /\ UNCHANGED <<last, closed, data, sentFin, gotFin, nonce, why>>
ClientClosed ==
    /\ Reads(S, "barrier", "CLOSE", 0)
    /\ Answer(S, <<>>)
    /\ Return(S, "client_close")

-----------------------------------------------------------------------------
(* The client: serveSlot and lease.                                         *)

Hello ==
    /\ At(C, "start")
    /\ Write(C, <<Plain("HELLO", 0)>>)
    /\ Goto(C, "hello")
    /\ UNCHANGED <<last, closed, armed, data, sentFin, gotFin, nonce, why, leaseVars>>
HelloRejected ==
    /\ Reads(C, "hello", "HELLO_ERR", 0)
    /\ Answer(C, <<>>)
    /\ Return(C, "rejected")

\* READY is written and the idle loop starts, each read with its own deadline.
HelloAccepted ==
    /\ Reads(C, "hello", "HELLO_OK", 0)
    /\ Answer(C, <<Plain("READY", 0)>>)
    /\ Goto(C, "idle")
    /\ UNCHANGED <<last, closed, armed, data, sentFin, gotFin, nonce, why, leaseVars>>

Pong ==
    /\ Reads(C, "idle", "PING", 0)
    /\ Answer(C, <<Frame("PONG", 0, Head(inbox[C]).nonce)>>)
    /\ UNCHANGED <<pc, last, closed, armed, data, sentFin, gotFin, nonce, why, leaseVars>>
ServerClosed ==
    /\ Reads(C, "idle", "CLOSE", 0)
    /\ Answer(C, <<>>)
    /\ Return(C, "server_close")

\* The idle loop sees the cancelled context.
ClientStops == At(C, "idle") /\ Return(C, "shutdown") /\ UNCHANGED inbox

\* OPEN clears the idle read deadline and the local dial starts.
OpenReceivedKeepsDeadline ==
    /\ last[C] < MaxID /\ Reads(C, "idle", "OPEN", last[C] + 1)
    /\ Answer(C, <<>>)
    /\ last' = [last EXCEPT ![C] = @ + 1]
    /\ Goto(C, "dial")
    /\ StartLease(C)
    /\ UNCHANGED <<closed, armed, data, sentFin, gotFin, nonce, why>>
OpenReceived ==
    /\ last[C] < MaxID /\ Reads(C, "idle", "OPEN", last[C] + 1)
    /\ Answer(C, <<>>)
    /\ last' = [last EXCEPT ![C] = @ + 1]
    /\ Deadline(C, FALSE)
    /\ Goto(C, "dial")
    /\ StartLease(C)
    /\ UNCHANGED <<closed, data, sentFin, gotFin, nonce, why>>

DialFails ==
    /\ At(C, "dial")
    /\ Write(C, <<Plain("OPEN_ERR", last[C])>>)
    /\ Deadline(C, TRUE)
    /\ Goto(C, "barrier")
    /\ DialFailed(C)
    /\ UNCHANGED <<last, closed, data, sentFin, gotFin, nonce, why>>
Dialled ==
    /\ At(C, "dial")
    /\ Write(C, <<Plain("OPEN_OK", last[C])>>)
    /\ StartRelay(C)
    /\ UNCHANGED <<last, closed, armed, nonce, why, leaseVars>>

ClientRelayed ==
    /\ At(C, "relay") /\ Relayed(C)
    /\ Deadline(C, TRUE)
    /\ Goto(C, "barrier")
    /\ UNCHANGED <<last, inbox, closed, data, sentFin, gotFin, nonce, why, leaseVars>>

\* RELEASE: the slot goes back to idle, or is surplus and says CLOSE.  The deferred
\* LeaseDone, which follows the write at once, is taken with it.
BackToIdleUnnumbered ==
    /\ Reads(C, "barrier", "RELEASE", last[C])
    /\ Answer(C, <<Plain("READY", 0)>>)
    /\ Goto(C, "idle")
    /\ Record(C, Finished(C))
    /\ UNCHANGED <<last, closed, armed, data, sentFin, gotFin, nonce, why>>
BackToIdle ==
    /\ Reads(C, "barrier", "RELEASE", last[C])
    /\ Answer(C, <<Plain("READY", last[C])>>)
    /\ Goto(C, "idle")
    /\ Record(C, Finished(C))
    /\ UNCHANGED <<last, closed, armed, data, sentFin, gotFin, nonce, why>>
Surplus ==
    /\ Reads(C, "barrier", "RELEASE", last[C])
    /\ Answer(C, <<Plain("CLOSE", 0)>>)
    /\ Return(C, "surplus")

-----------------------------------------------------------------------------
(* The two pumps of Relay.Run, the same at both ends.                       *)

PumpData(x) ==
    /\ At(x, "relay") /\ ~sentFin[x] /\ data[x] < MaxData
    /\ Write(x, <<Plain("DATA", last[x])>>)
    /\ data' = [data EXCEPT ![x] = @ + 1]
    /\ UNCHANGED <<pc, last, closed, armed, sentFin, gotFin, nonce, why, leaseVars>>

\* The local connection ended: the encoder is closed and FIN follows.
PumpFin(x) ==
    /\ At(x, "relay") /\ ~sentFin[x]
    /\ Write(x, <<Plain("FIN", last[x])>>)
    /\ sentFin' = [sentFin EXCEPT ![x] = TRUE]
    /\ UNCHANGED <<pc, last, closed, armed, data, gotFin, nonce, why, leaseVars>>

DeliverData(x) ==
    /\ ~gotFin[x] /\ Reads(x, "relay", "DATA", last[x])
    /\ Answer(x, <<>>)
    /\ UNCHANGED <<pc, last, closed, armed, data, sentFin, gotFin, nonce, why, leaseVars>>
DeliverFin(x) ==
    /\ ~gotFin[x] /\ Reads(x, "relay", "FIN", last[x])
    /\ Answer(x, <<>>)
    /\ gotFin' = [gotFin EXCEPT ![x] = TRUE]
    /\ UNCHANGED <<pc, last, closed, armed, data, sentFin, nonce, why, leaseVars>>

-----------------------------------------------------------------------------
(* What each read accepts.  Any other frame ends the goroutine with an      *)
(* error; NoUnexpectedFrame shows that no action is needed for that.        *)

Expected(x, f) ==
    \/ pc[x] = "relay" /\ ~gotFin[x] /\ f \in {Plain("DATA", last[x]), Plain("FIN", last[x])}
    \/ x = S /\ \/ pc[x] = "hello"   /\ f = Plain("HELLO", 0)
                \/ pc[x] = "ready"   /\ f = Plain("READY", 0)
                \/ pc[x] = "ping"    /\ f = Frame("PONG", 0, nonce)
                \/ pc[x] = "open"    /\ f \in {Plain("OPEN_OK", last[x]), Plain("OPEN_ERR", last[x])}
                \/ pc[x] = "barrier" /\ f \in {Plain("READY", last[x]), Plain("CLOSE", 0)}
    \/ x = C /\ \/ pc[x] = "hello"   /\ f \in {Plain("HELLO_OK", 0), Plain("HELLO_ERR", 0)}
                \/ pc[x] = "idle"    /\ f \in {Plain("CLOSE", 0), Frame("PING", 0, 0), Frame("PING", 0, 1)}
                \/ pc[x] = "idle"    /\ last[x] < MaxID /\ f = Plain("OPEN", last[x] + 1)
                \/ pc[x] = "barrier" /\ f = Plain("RELEASE", last[x])

Reading(x) ==
    \/ pc[x] \in {"hello", "ready", "ping", "open", "barrier"}
    \/ pc[x] = "relay" /\ ~gotFin[x]
    \/ x = C /\ pc[x] = "idle"

-----------------------------------------------------------------------------
ServerAnswers ==
    \/ ServerRejects \/ ServerAdmits \/ ServerReady \/ PongReceived \/ OpenAccepted
    \/ OpenRefused \/ Release \/ Released \/ ClientClosed
ServerStarts == Ping \/ Expires \/ Goodbye \/ Open \/ Exhausted
ClientStep ==
    \/ Hello \/ HelloRejected \/ HelloAccepted \/ Pong \/ ServerClosed \/ OpenReceived
    \/ DialFails \/ Dialled \/ ClientRelayed \/ BackToIdle \/ Surplus
Delivers(x) == DeliverData(x) \/ DeliverFin(x)

Terminated == (\A x \in End : pc[x] = "gone") /\ UNCHANGED vars

Next ==
    \/ ServerAnswers \/ ServerStarts \/ ClientStep \/ ClientStops
    \/ \E x \in End : \/ PumpData(x) \/ PumpFin(x) \/ Delivers(x)
                      \/ CloseUnder(x) \/ Fails(x) \/ NetworkFails(x) \/ TimesOut(x)
    \/ Terminated

Spec == Init /\ [][Next]_vars

(***************************************************************************)
(* Fairness.  Goroutines handle the frames they can read and notice a      *)
(* broken connection; the heartbeat timer keeps an idle worker from        *)
(* sleeping for ever, and an expired one says goodbye; visitors and local  *)
(* services end their streams.  No deadline of a read is assumed to pass:  *)
(* the protocol must not need one.                                         *)
(***************************************************************************)
Fairness ==
    /\ WF_vars(ServerAnswers) /\ WF_vars(ServerStarts) /\ WF_vars(ClientStep)
    /\ \A x \in End : WF_vars(PumpFin(x)) /\ WF_vars(Delivers(x)) /\ WF_vars(Fails(x))

FairSpec == Spec /\ Fairness

-----------------------------------------------------------------------------
(* Properties.                                                              *)

AnyFrame == [type : {"HELLO", "HELLO_OK", "HELLO_ERR", "READY", "OPEN", "OPEN_OK", "OPEN_ERR",
                     "DATA", "FIN", "RELEASE", "PING", "PONG", "CLOSE"},
             id : 0..MaxID, nonce : {0, 1}]

\* Every variable has its type; lease IDs stay in the range of a uint64.
TypeOK ==
    /\ pc \in [End -> Place] /\ why \in [End -> Reason]
    /\ last \in [End -> 0..MaxID] /\ data \in [End -> 0..MaxData] /\ nonce \in {0, 1}
    /\ closed \in [End -> BOOLEAN] /\ armed \in [End -> BOOLEAN]
    /\ sentFin \in [End -> BOOLEAN] /\ gotFin \in [End -> BOOLEAN]
    /\ noDial \in [End -> BOOLEAN]
    /\ outcome \in [End -> [1..MaxID -> {"none", "ok", "dial_failed", "client_close", "error"}]]
    /\ inbox \in [End -> Seq(AnyFrame)]

\* Two correct ends never see each other violate the protocol: whatever
\* heartbeats, leases, retirements, timeouts and closes are under way, the frame
\* a read returns is one the reader accepts at that point (server/worker.go lease
\* and heartbeat, client/worker.go serveSlot and lease, relay.go frameReader).
NoUnexpectedFrame ==
    \A x \in End : Reading(x) /\ ~closed[x] /\ inbox[x] # <<>> =>
        Expected(x, Head(inbox[x]))

\* While the client is in a lease, the server is in the same one: in particular
\* no OPEN is under way and the worker is not idle when the client decides at
\* the barrier whether to keep the connection (client/worker.go:350).
SameLease ==
    pc[C] \in InLease /\ pc[S] # "gone" => pc[S] \in InLease /\ last[S] = last[C]

\* A relay runs without a read deadline, and so does a worker in the idle pool:
\* none set for the handshake, a heartbeat, OPEN or an idle read is left behind
\* to cut off a long lease.
NoStaleDeadline ==
    \A x \in End : pc[x] = "relay" \/ (x = S /\ pc[x] = "idle") => ~armed[x]

\* A connection that either side retired, having written CLOSE, is no failure for
\* the other, which reads CLOSE before the end of the stream or ends for a reason of
\* its own (the purpose of goodbye and of CLOSE at the barrier).  Nothing is claimed
\* of an expired worker that Stop, Force or the network cut off before goodbye's
\* write: its client does record an error.
RetirementIsClean ==
    /\ why[S] = "expired" => why[C] # "error"
    /\ why[C] = "surplus" => why[S] # "error"

\* What the two ends record of a lease agrees, although the server's leases_total
\* and the client's are kept apart: one the server saw through is "ok" or
\* "dial_failed" at both ends, and one it lost to CLOSE at the barrier was
\* completed by the client (server/worker.go:221, client/worker.go:308).  The
\* client may complete a lease that the server, losing READY, records as "error".
\* The client's record counts as made with its last write, which it follows at once.
OutcomesAgree ==
    \A i \in 1..MaxID :
        /\ outcome[S][i] \in {"ok", "dial_failed"} => outcome[C][i] = outcome[S][i]
        /\ outcome[S][i] = "client_close" => outcome[C][i] \in {"ok", "dial_failed"}

\* Every lease ends, without the help of a timeout.
LeaseEnds == pc[S] \in InLease ~> pc[S] \notin InLease

\* No end survives the other: once one is gone, so is its peer in the end.
NoHalfOpen == \A x \in End : pc[x] = "gone" ~> pc[Peer(x)] = "gone"
=============================================================================
