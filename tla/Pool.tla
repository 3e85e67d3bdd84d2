-------------------------------- MODULE Pool --------------------------------
(***************************************************************************)
(* The server's connection pool (internal/pool/pool.go) together with the  *)
(* goroutines that share it: one worker goroutine per tunnel connection    *)
(* (server/worker.go register and work), the accept loop that dispatches   *)
(* visitors, the cancel callbacks of queued visitors, and the shutdown     *)
(* sequence of server.Run (cancel, Stop, wait, Force).                     *)
(*                                                                         *)
(* Every section under Pool.mu is one action.  A worker is named by its    *)
(* connection ID, a visitor (public TCP connection) by its arrival number. *)
(* Frames on the tunnel are the subject of module Tunnel: here a lease, a  *)
(* heartbeat and a handshake only succeed or fail.                         *)
(***************************************************************************)
EXTENDS Integers, Sequences, FiniteSets, SequencesExt

CONSTANTS
    Worker,       \* connection IDs handed out by runtime.ids
    MaxVisitors,  \* bound: visitors that arrive in a behaviour
    PendingMax,   \* Pool.pendingMax
    IdleTicks     \* IdleTimeout, in heartbeat intervals; zero disables it

ASSUME WorkerAssumption == Worker \subseteq Nat \ {0}
ASSUME BoundAssumption  == MaxVisitors \in Nat /\ PendingMax \in Nat
ASSUME TimerAssumption  == IdleTicks \in Nat

VARIABLES
    \* Pool
    stopping, idle, waiting, pending, waitTimeouts, waitCanceled,
    \* Worker
    state, mailbox, business, wake, idleLeft, aged,
    \* worker goroutine: where it is, the visitor it serves, its heartbeat timer
    at, serving, hbDue,
    \* visitors and the counters the server keeps of them
    arrived, late, closedTcp, refused, leases,
    \* server.Run: its context, the snapshots Stop and Force still have to close
    ctxDone, stopSet, forced, forceSet

poolVars     == <<stopping, idle, waiting, pending, waitTimeouts, waitCanceled>>
queueVars    == <<waiting, pending, waitTimeouts, waitCanceled>>
workerVars   == <<state, mailbox, business, wake, idleLeft, aged>>
routineVars  == <<at, serving, hbDue>>
visitorVars  == <<arrived, late, closedTcp, refused, leases>>
shutdownVars == <<ctxDone, stopSet, forced, forceSet>>
vars == <<poolVars, workerVars, routineVars, visitorVars, shutdownVars>>

Visitor   == 1..MaxVisitors
NoVisitor == 0

\* The states of pool.go, and "none" for a connection that never registered.
State == {"none", "registering", "idle", "leased", "releasing", "checking",
          "expiring", "closed"}

(***************************************************************************)
(* Where a worker goroutine is: before Register; in the handshake after    *)
(* it; about to call Idle after a lease; at the top of Next's loop;        *)
(* blocked in Next's select; in a heartbeat; in a lease before and after   *)
(* Releasing; on its way to the deferred Closed; returned.                 *)
(***************************************************************************)
Place == {"absent", "register", "return", "loop", "select", "check", "lease",
          "barrier", "exit", "done"}

Ended == {"absent", "done"}

Init ==
    /\ stopping = FALSE /\ idle = <<>> /\ waiting = <<>> /\ pending = 0
    /\ waitTimeouts = 0 /\ waitCanceled = 0
    /\ state    = [w \in Worker |-> "none"]
    /\ mailbox  = [w \in Worker |-> NoVisitor]
    /\ business = [w \in Worker |-> NoVisitor]
    /\ wake     = [w \in Worker |-> FALSE]
    /\ idleLeft = [w \in Worker |-> 0]
    /\ aged     = [w \in Worker |-> FALSE]
    /\ at       = [w \in Worker |-> "absent"]
    /\ serving  = [w \in Worker |-> NoVisitor]
    /\ hbDue    = [w \in Worker |-> FALSE]
    /\ arrived = 0 /\ late = {} /\ closedTcp = {} /\ refused = 0 /\ leases = 0
    /\ ctxDone = FALSE /\ stopSet = {} /\ forced = FALSE /\ forceSet = {}

-----------------------------------------------------------------------------
(* Helpers that run under Pool.mu.                                          *)

Goto(w, p) == at' = [at EXCEPT ![w] = p]

\* unlinkLocked: a worker that is not in the list (elem is nil) changes nothing.
Unlink(w) == RemoveFirst(idle, w)

\* notify: a non-blocking send on a channel of capacity one.
Notify(w) == wake' = [wake EXCEPT ![w] = TRUE]

\* The sockets Worker.Closed closes after it has dropped its references to them.
OwnedMailboxOnly(w) == {mailbox[w]} \ {NoVisitor}
Owned(w) == {mailbox[w], business[w]} \ {NoVisitor}

\* Worker.Closed: only the first call has an effect.
Closed(w) ==
    IF state[w] = "closed"
    THEN UNCHANGED <<state, idle, mailbox, business, wake, closedTcp>>
    ELSE /\ state'     = [state EXCEPT ![w] = "closed"]
         /\ idle'      = Unlink(w)
         /\ mailbox'   = [mailbox EXCEPT ![w] = NoVisitor]
         /\ business'  = [business EXCEPT ![w] = NoVisitor]
         /\ closedTcp' = closedTcp \cup Owned(w)
         /\ Notify(w)

\* Hand visitor v to worker w, as matchLocked and Dispatch both do.
LendQuietly(w, v) ==
    /\ state'    = [state EXCEPT ![w] = "leased"]
    /\ mailbox'  = [mailbox EXCEPT ![w] = v]
    /\ business' = [business EXCEPT ![w] = v]
    /\ UNCHANGED wake
Lend(w, v) ==
    /\ state'    = [state EXCEPT ![w] = "leased"]
    /\ mailbox'  = [mailbox EXCEPT ![w] = v]
    /\ business' = [business EXCEPT ![w] = v]
    /\ Notify(w)

\* pushIdleLocked inserts w after the last element whose ID does not exceed w's.
IsInsertPointAtBack(i, w) == i = Len(idle)
IsInsertPoint(i, w) ==
    /\ i > 0 => idle[i] <= w
    /\ \A j \in i+1..Len(idle) : idle[j] > w
PushIdle(w) ==
    /\ \E i \in 0..Len(idle) : /\ IsInsertPoint(i, w)
                               /\ idle' = InsertAt(idle, i + 1, w)
    /\ state' = [state EXCEPT ![w] = "idle"]

\* takeIdleLocked's condition.
CanTake(w) == state[w] = "idle" /\ ~stopping

\* A queued visitor that may no longer be served.
DeadByContext(v) == ctxDone
Dead(v) == ctxDone \/ v \in late

\* dropLocked, for n visitors dropped in the same section.
Drop(n) ==
    /\ waitCanceled' = waitCanceled + (IF ctxDone THEN n ELSE 0)
    /\ waitTimeouts' = waitTimeouts + (IF ctxDone THEN 0 ELSE n)

(***************************************************************************)
(* matchLocked's scan stops at the first visitor that is not dead: k dead  *)
(* ones are dropped, then either the next one is live or the queue ended.  *)
(***************************************************************************)
ScanStops(k) ==
    /\ \A j \in 1..k : Dead(waiting[j])
    /\ k < Len(waiting) => ~Dead(waiting[k + 1])

\* The visitors Idle closes after the unlock.
Dropped(k) == {waiting[j] : j \in 1..k}

MatchServes(w, k) ==
    /\ k < Len(waiting)
    /\ Lend(w, waiting[k + 1])
    /\ waiting' = SubSeq(waiting, k + 2, Len(waiting))
    /\ pending' = pending - (k + 1)
    /\ UNCHANGED idle
MatchParksEarly(w, k) ==
    /\ k > 0 \/ k = Len(waiting)
    /\ PushIdle(w)
    /\ waiting' = SubSeq(waiting, k + 1, Len(waiting))
    /\ pending' = pending - k
    /\ business' = [business EXCEPT ![w] = NoVisitor]
    /\ UNCHANGED <<mailbox, wake>>
MatchParks(w, k) ==
    /\ k = Len(waiting)
    /\ PushIdle(w)
    /\ waiting' = <<>>
    /\ pending' = pending - k
    /\ business' = [business EXCEPT ![w] = NoVisitor]
    /\ UNCHANGED <<mailbox, wake>>
Match(w) ==
    \E k \in 0..Len(waiting) :
        /\ ScanStops(k)
        /\ Drop(k)
        /\ closedTcp' = closedTcp \cup Dropped(k)
        /\ MatchServes(w, k) \/ MatchParks(w, k)

-----------------------------------------------------------------------------
(* The worker goroutine: register, then work.                               *)

\* Pool.Register, called from the handshake; a stopping pool refuses it.
Register(w) ==
    /\ at[w] = "absent"
    /\ \/ stopping /\ Goto(w, "done") /\ UNCHANGED state
       \/ ~stopping /\ Goto(w, "register")
                    /\ state' = [state EXCEPT ![w] = "registering"]
    /\ UNCHANGED <<poolVars, mailbox, business, wake, idleLeft, aged, serving, hbDue,
                   visitorVars, shutdownVars>>

\* HELLO_OK not written, READY not received or CompleteAuth refused.
HandshakeFails(w) ==
    /\ at[w] = "register"
    /\ Closed(w)
    /\ Goto(w, "done")
    /\ UNCHANGED <<stopping, queueVars, idleLeft, aged, serving, hbDue, arrived, late,
                   refused, leases, shutdownVars>>

\* Where work calls Idle: after the handshake, a lease or a heartbeat.
CallsIdle(w) == at[w] \in {"register", "return", "check"}

\* Idle on a stopping pool or a closed worker.
IdleStopped(w) ==
    /\ CallsIdle(w)
    /\ stopping \/ state[w] = "closed"
    /\ Closed(w)
    /\ Goto(w, "exit")
    /\ UNCHANGED <<stopping, queueVars, idleLeft, aged, serving, hbDue, arrived, late,
                   refused, leases, shutdownVars>>

\* Idle past MaxLifetime.
IdleExpired(w) ==
    /\ CallsIdle(w)
    /\ ~stopping /\ state[w] # "closed" /\ aged[w]
    /\ business' = [business EXCEPT ![w] = NoVisitor]
    /\ state' = [state EXCEPT ![w] = "expiring"]
    /\ Goto(w, "exit")
    /\ UNCHANGED <<poolVars, mailbox, wake, idleLeft, aged, serving, hbDue, visitorVars,
                   shutdownVars>>

\* Idle restarts the idle deadline, except after a heartbeat.
RestartsOnEveryReturn(w) == TRUE
RestartsIdleDeadline(w) == state[w] # "checking"

\* Idle puts the worker back into service; Next is entered with fresh timers.
IdleReady(w) ==
    /\ CallsIdle(w)
    /\ ~stopping /\ state[w] # "closed" /\ ~aged[w]
    /\ idleLeft' = [idleLeft EXCEPT ![w] = IF RestartsIdleDeadline(w) THEN IdleTicks ELSE @]
    /\ Match(w)
    /\ hbDue' = [hbDue EXCEPT ![w] = FALSE]
    /\ Goto(w, "loop")
    /\ UNCHANGED <<stopping, aged, serving, arrived, late, refused, leases, shutdownVars>>

Idle(w) == IdleStopped(w) \/ IdleExpired(w) \/ IdleReady(w)

\* The deferred Stop of Next's timers.
StopTimers(w) == hbDue' = [hbDue EXCEPT ![w] = FALSE]

\* The top of Next's loop.
NextStopped(w) ==
    /\ at[w] = "loop"
    /\ state[w] = "closed" \/ (stopping /\ state[w] = "idle")
    /\ Goto(w, "exit") /\ StopTimers(w)
    /\ UNCHANGED <<poolVars, workerVars, serving, visitorVars, shutdownVars>>
NextLeasedKeepsMailbox(w) ==
    /\ at[w] = "loop"
    /\ ~(state[w] = "closed" \/ (stopping /\ state[w] = "idle"))
    /\ mailbox[w] # NoVisitor
    /\ serving' = [serving EXCEPT ![w] = mailbox[w]]
    /\ Goto(w, "lease") /\ StopTimers(w)
    /\ UNCHANGED <<poolVars, state, mailbox, business, wake, idleLeft, aged,
                   visitorVars, shutdownVars>>
NextLeased(w) ==
    /\ at[w] = "loop"
    /\ ~(state[w] = "closed" \/ (stopping /\ state[w] = "idle"))
    /\ mailbox[w] # NoVisitor
    /\ serving' = [serving EXCEPT ![w] = mailbox[w]]
    /\ mailbox' = [mailbox EXCEPT ![w] = NoVisitor]
    /\ Goto(w, "lease") /\ StopTimers(w)
    /\ UNCHANGED <<poolVars, state, business, wake, idleLeft, aged, visitorVars,
                   shutdownVars>>
NextBlocks(w) ==
    /\ at[w] = "loop"
    /\ ~(state[w] = "closed" \/ (stopping /\ state[w] = "idle"))
    /\ mailbox[w] = NoVisitor
    /\ Goto(w, "select")
    /\ UNCHANGED <<poolVars, workerVars, serving, hbDue, visitorVars, shutdownVars>>
Next_Loop(w) == NextStopped(w) \/ NextLeased(w) \/ NextBlocks(w)

\* Next's select: the wake channel ...
SelectWake(w) ==
    /\ at[w] = "select" /\ wake[w]
    /\ wake' = [wake EXCEPT ![w] = FALSE]
    /\ Goto(w, "loop")
    /\ UNCHANGED <<poolVars, state, mailbox, business, idleLeft, aged, serving, hbDue,
                   visitorVars, shutdownVars>>

\* ... and the two timers: each takes an idle worker out of the list, or finds it
\* leased or closed meanwhile and goes round the loop.
TakeOrLoop(w, taken, then) ==
    /\ \/ /\ CanTake(w)
          /\ state' = [state EXCEPT ![w] = taken]
          /\ idle' = Unlink(w)
          /\ Goto(w, then)
       \/ /\ ~CanTake(w)
          /\ Goto(w, "loop")
          /\ UNCHANGED <<state, idle>>
    /\ UNCHANGED <<stopping, queueVars, mailbox, business, wake, idleLeft, aged, serving,
                   visitorVars, shutdownVars>>

SelectHeartbeat(w) ==
    /\ at[w] = "select" /\ hbDue[w]
    /\ hbDue' = [hbDue EXCEPT ![w] = FALSE]
    /\ TakeOrLoop(w, "checking", "check")

SelectExpire(w) ==
    /\ at[w] = "select"
    /\ (IdleTicks > 0 /\ idleLeft[w] = 0) \/ aged[w]
    /\ TakeOrLoop(w, "expiring", "exit")
    /\ hbDue' = [hbDue EXCEPT ![w] = @ /\ ~CanTake(w)]

\* The heartbeat got no PONG in time.
CheckFails(w) ==
    /\ at[w] = "check"
    /\ Goto(w, "exit")
    /\ UNCHANGED <<poolVars, workerVars, serving, hbDue, visitorVars, shutdownVars>>

\* The relay is over: Worker.Releasing, then RELEASE and the wait for READY.
Releasing(w) ==
    /\ at[w] = "lease"
    /\ state' = [state EXCEPT ![w] = IF @ = "leased" THEN "releasing" ELSE @]
    /\ Goto(w, "barrier")
    /\ UNCHANGED <<poolVars, mailbox, business, wake, idleLeft, aged, serving, hbDue,
                   visitorVars, shutdownVars>>

\* The end of a lease, whatever its outcome: LeaseDone is recorded and work
\* closes the visitor.
EndLease(w, p) ==
    /\ closedTcp' = closedTcp \cup {serving[w]}
    /\ serving' = [serving EXCEPT ![w] = NoVisitor]
    /\ leases' = leases + 1
    /\ Goto(w, p)
    /\ UNCHANGED <<poolVars, workerVars, hbDue, arrived, late, refused, shutdownVars>>

LeaseReturns(w) == at[w] = "barrier" /\ EndLease(w, "return")

\* An I/O or protocol error, or the client's CLOSE at the barrier.
LeaseFails(w) == at[w] \in {"lease", "barrier"} /\ EndLease(w, "exit")

\* The deferred Closed; an expired worker has written its goodbye by then.
Exit(w) ==
    /\ at[w] = "exit"
    /\ Closed(w)
    /\ Goto(w, "done")
    /\ UNCHANGED <<stopping, queueVars, idleLeft, aged, serving, hbDue, arrived, late,
                   refused, leases, shutdownVars>>

-----------------------------------------------------------------------------
(* Time.                                                                    *)

\* A heartbeat interval passes: the timers of Next run, deadlines come nearer.
InNext(w) == at[w] \in {"loop", "select"}
LeftAfterTick(w) == IF idleLeft[w] > 0 THEN idleLeft[w] - 1 ELSE 0
Tick ==
    /\ \E w \in Worker : InNext(w) /\ ~(hbDue[w] /\ idleLeft[w] = 0)
    /\ idleLeft' = [w \in Worker |-> LeftAfterTick(w)]
    /\ hbDue' = [w \in Worker |-> InNext(w)]
    /\ UNCHANGED <<poolVars, state, mailbox, business, wake, aged, at, serving, visitorVars,
                   shutdownVars>>

\* Worker.dies passes (MaxLifetime and its jitter).
Age(w) ==
    /\ at[w] \notin Ended /\ ~aged[w]
    /\ aged' = [aged EXCEPT ![w] = TRUE]
    /\ UNCHANGED <<poolVars, state, mailbox, business, wake, idleLeft, routineVars,
                   visitorVars, shutdownVars>>

\* The acquire deadline of a queued visitor passes.
DeadlinePasses(v) ==
    /\ \E i \in 1..Len(waiting) : waiting[i] = v
    /\ v \notin late
    /\ late' = late \cup {v}
    /\ UNCHANGED <<poolVars, workerVars, routineVars, arrived, closedTcp, refused, leases,
                   shutdownVars>>

-----------------------------------------------------------------------------
(* Visitors: Pool.Dispatch, called by the service's accept loop.            *)

\* The next visitor is turned away: its socket is closed and Dispatch errs.
TurnAway ==
    /\ arrived' = arrived + 1
    /\ closedTcp' = closedTcp \cup {arrived + 1}
    /\ refused' = refused + 1
    /\ UNCHANGED <<poolVars, workerVars, routineVars, late, leases, shutdownVars>>

\* ErrStopped, the context's error, or ErrExpired: the deadline may always have
\* passed while Dispatch waited for the lock.
DispatchRefused == arrived < MaxVisitors /\ TurnAway

Accepts == arrived < MaxVisitors /\ ~stopping /\ ~ctxDone

CanHandOff == waiting = <<>> /\ idle # <<>>

\* An idle worker takes the visitor: the one at the Back of the list.
DispatchHandsOff ==
    /\ Accepts /\ CanHandOff
    /\ LET w == Last(idle) IN Lend(w, arrived + 1) /\ idle' = Unlink(w)
    /\ arrived' = arrived + 1
    /\ UNCHANGED <<stopping, queueVars, idleLeft, aged, routineVars, late, closedTcp,
                   refused, leases, shutdownVars>>

QueueFull == pending >= PendingMax

DispatchFull == Accepts /\ ~CanHandOff /\ QueueFull /\ TurnAway

DispatchQueues ==
    /\ Accepts /\ ~CanHandOff /\ ~QueueFull
    /\ waiting' = Append(waiting, arrived + 1)
    /\ pending' = pending + 1
    /\ arrived' = arrived + 1
    /\ UNCHANGED <<stopping, idle, waitTimeouts, waitCanceled, workerVars, routineVars, late,
                   closedTcp, refused, leases, shutdownVars>>

\* The cancel callback of a queued visitor, run by its timer or its context.
\* Once the visitor has left the queue the callback does nothing.
CancelDueOnContext(v) == ctxDone
CancelDue(v) == ctxDone \/ v \in late
Cancel(v) ==
    /\ CancelDue(v)
    /\ \E i \in 1..Len(waiting) : waiting[i] = v /\ waiting' = RemoveAt(waiting, i)
    /\ Drop(1)
    /\ pending' = pending - 1
    /\ closedTcp' = closedTcp \cup {v}
    /\ UNCHANGED <<stopping, idle, workerVars, routineVars, arrived, late, refused, leases,
                   shutdownVars>>

-----------------------------------------------------------------------------
(* Shutdown: server.Run cancels its context, stops the pool, waits for the  *)
(* handshakes and the workers, and forces the pool after the drain timeout. *)

CtxCancel ==
    /\ ~ctxDone
    /\ ctxDone' = TRUE
    /\ UNCHANGED <<poolVars, workerVars, routineVars, visitorVars, stopSet, forced, forceSet>>

\* The workers Stop closes at once; the others drain.
StopClosesLeased(w) ==
    state[w] \in {"idle", "checking", "registering", "expiring", "leased"}
StopCloses(w) == state[w] \in {"idle", "checking", "registering", "expiring"}

\* Stop's critical section: it empties the queue and takes the snapshot.
Stop ==
    /\ ctxDone /\ ~stopping
    /\ stopping' = TRUE
    /\ waitCanceled' = waitCanceled + Len(waiting)
    /\ pending' = pending - Len(waiting)
    /\ closedTcp' = closedTcp \cup Range(waiting)
    /\ waiting' = <<>>
    /\ stopSet' = {w \in Worker : StopCloses(w)}
    /\ UNCHANGED <<idle, waitTimeouts, workerVars, routineVars, arrived, late, refused,
                   leases, ctxDone, forced, forceSet>>

\* Stop's loop after the unlock: one Closed at a time.
StopClose(w) ==
    /\ w \in stopSet
    /\ Closed(w)
    /\ stopSet' = stopSet \ {w}
    /\ UNCHANGED <<stopping, queueVars, idleLeft, aged, routineVars, arrived, late, refused,
                   leases, ctxDone, forced, forceSet>>

Drained == \A w \in Worker : at[w] \in Ended

\* The drain timer fires: Stop has returned and accepts.Wait saw every handshake end.
PoolForceSparesBusy ==
    /\ stopping /\ stopSet = {} /\ ~forced /\ ~Drained
    /\ \A w \in Worker : at[w] # "register"
    /\ forced' = TRUE
    /\ forceSet' = {w \in Worker : state[w] \notin {"none", "closed", "leased"}}
    /\ UNCHANGED <<poolVars, workerVars, routineVars, visitorVars, ctxDone, stopSet>>
PoolForce ==
    /\ stopping /\ stopSet = {} /\ ~forced /\ ~Drained
    /\ \A w \in Worker : at[w] # "register"
    /\ forced' = TRUE
    /\ forceSet' = {w \in Worker : state[w] \notin {"none", "closed"}}
    /\ UNCHANGED <<poolVars, workerVars, routineVars, visitorVars, ctxDone, stopSet>>

ForceClose(w) ==
    /\ w \in forceSet
    /\ Closed(w)
    /\ forceSet' = forceSet \ {w}
    /\ UNCHANGED <<stopping, queueVars, idleLeft, aged, routineVars, arrived, late, refused,
                   leases, ctxDone, stopSet, forced>>

\* Run has returned.
Terminated == stopping /\ stopSet = {} /\ forceSet = {} /\ Drained /\ UNCHANGED vars

-----------------------------------------------------------------------------
WorkerStep(w) ==
    \/ Register(w) \/ HandshakeFails(w) \/ Idle(w) \/ Next_Loop(w)
    \/ SelectWake(w) \/ SelectHeartbeat(w) \/ SelectExpire(w) \/ CheckFails(w)
    \/ Releasing(w) \/ LeaseReturns(w) \/ LeaseFails(w) \/ Exit(w) \/ Age(w)

Dispatch == DispatchRefused \/ DispatchHandsOff \/ DispatchFull \/ DispatchQueues

Next ==
    \/ \E w \in Worker : WorkerStep(w) \/ StopClose(w) \/ ForceClose(w)
    \/ \E v \in Visitor : DeadlinePasses(v) \/ Cancel(v)
    \/ Dispatch \/ Tick \/ CtxCancel \/ Stop \/ PoolForce \/ Terminated

(***************************************************************************)
(* Fairness.  Goroutines keep running, timers fire, and every read and     *)
(* write of a handshake, a heartbeat and a release barrier has a deadline. *)
(* A lease itself has none: it must only end once Closed has closed its    *)
(* sockets.  Go's select chooses at random among the ready cases, so the   *)
(* expiry that is ready again and again is chosen: strong fairness.        *)
(* Nothing is assumed of visitors arriving, connections registering, the   *)
(* lifetime or the operator's shutdown.                                    *)
(***************************************************************************)
Fairness ==
    /\ \A w \in Worker :
          /\ WF_vars(HandshakeFails(w) \/ CheckFails(w) \/ Idle(w))
          /\ WF_vars(Next_Loop(w))
          /\ WF_vars(SelectWake(w))
          /\ SF_vars(SelectExpire(w))
          /\ WF_vars(at[w] = "barrier" /\ (LeaseReturns(w) \/ LeaseFails(w)))
          /\ WF_vars(state[w] = "closed" /\ LeaseFails(w))
          /\ WF_vars(Exit(w))
          /\ WF_vars(StopClose(w))
          /\ WF_vars(ForceClose(w))
    /\ \A v \in Visitor : WF_vars(DeadlinePasses(v)) /\ WF_vars(Cancel(v))
    /\ WF_vars(Tick) /\ WF_vars(Stop) /\ WF_vars(PoolForce)

Spec == Init /\ [][Next]_vars

FairSpec == Spec /\ Fairness

-----------------------------------------------------------------------------
(* Safety.                                                                  *)

\* Every variable has its type; timers never go below zero.
TypeOK ==
    /\ stopping \in BOOLEAN /\ ctxDone \in BOOLEAN /\ forced \in BOOLEAN
    /\ idle \in Seq(Worker) /\ waiting \in Seq(Visitor)
    /\ pending \in Int /\ waitTimeouts \in Nat /\ waitCanceled \in Nat
    /\ state \in [Worker -> State] /\ at \in [Worker -> Place]
    /\ mailbox  \in [Worker -> Visitor \cup {NoVisitor}]
    /\ business \in [Worker -> Visitor \cup {NoVisitor}]
    /\ serving  \in [Worker -> Visitor \cup {NoVisitor}]
    /\ wake \in [Worker -> BOOLEAN] /\ aged \in [Worker -> BOOLEAN]
    /\ hbDue \in [Worker -> BOOLEAN] /\ idleLeft \in [Worker -> 0..IdleTicks]
    /\ arrived \in 0..MaxVisitors /\ refused \in Nat /\ leases \in Nat
    /\ late \subseteq Visitor /\ closedTcp \subseteq Visitor
    /\ stopSet \subseteq Worker /\ forceSet \subseteq Worker

\* The idle list is strictly ordered by connection ID and holds exactly the
\* workers in state idle, through every lease, heartbeat, expiry and close that
\* links and unlinks them (pool.go:78, unlinkLocked, pushIdleLocked).
IdleSorted  == \A i, j \in 1..Len(idle) : i < j => idle[i] < idle[j]
IdleIsState == \A w \in Worker : state[w] = "idle" <=> \E i \in 1..Len(idle) : idle[i] = w
IdleListExact == IdleSorted /\ IdleIsState

\* No visitor waits while a worker is idle: matchLocked drops dead visitors until
\* it finds a live one, and parks the worker only when the queue is empty.
IdleExcludesWaiting == idle # <<>> => waiting = <<>>

\* The pending count that admits visitors is the length of the queue, however
\* they leave it, and never passes the configured limit.
PendingExact == pending = Len(waiting) /\ pending <= PendingMax

\* The queue of visitors is what it should be: counted and within its limit, and
\* empty as soon as somebody is free.
QueueExact == PendingExact /\ IdleExcludesWaiting

\* Where a worker goroutine is, its state in the pool and the sockets it holds
\* agree, although Dispatch, Stop and Force change the state under it: a visitor
\* is in the mailbox only while its leased worker is in Next, and business is the
\* same socket; a visitor is served only between Next and the end of the lease.
Agree(p, s) ==
    \/ p = "absent" /\ s = "none"
    \/ p = "register" /\ s \in {"registering", "closed"}
    \/ p \in {"loop", "select"} /\ s \in {"idle", "leased", "closed"}
    \/ p = "check" /\ s \in {"checking", "closed"}
    \/ p = "lease" /\ s \in {"leased", "closed"}
    \/ p \in {"barrier", "return"} /\ s \in {"releasing", "closed"}
    \/ p = "exit" /\ s \notin {"none", "registering"}
    \/ p = "done" /\ s \in {"closed", "none"}
Consistent(w) ==
    /\ Agree(at[w], state[w])
    /\ mailbox[w] # NoVisitor <=> state[w] = "leased" /\ at[w] \in {"loop", "select"}
    /\ mailbox[w] # NoVisitor => business[w] = mailbox[w]
    /\ serving[w] # NoVisitor <=> at[w] \in {"lease", "barrier"}
WorkerConsistent == \A w \in Worker : Consistent(w)

\* A worker blocked in Next's select with something to do will be woken: if it
\* has a visitor or is closed, wake is pending (the claim at pool.go:405); if
\* the pool stopped while it was idle, Stop still has it to close.
WakeNotLost ==
    \A w \in Worker : at[w] = "select" =>
        /\ mailbox[w] # NoVisitor \/ state[w] = "closed" => wake[w]
        /\ stopping /\ state[w] = "idle" => w \in stopSet

\* Closing a worker closes the visitor it serves: until then business refers to
\* the same socket as the goroutine's local tcp, also in the window between
\* Next's return and OPEN.  Force relies on this to end a lease.
CloseEndsService ==
    \A w \in Worker : serving[w] # NoVisitor =>
        IF state[w] = "closed" THEN serving[w] \in closedTcp ELSE business[w] = serving[w]

\* Stop closes its snapshot after the unlock, yet no worker in it ever carries
\* a visitor by then: a stopping pool leases nothing.
StopSparesVisitors ==
    \A w \in stopSet : mailbox[w] = NoVisitor /\ serving[w] = NoVisitor

-----------------------------------------------------------------------------
(* Action properties.                                                       *)

\* A queued visitor that is handed to a worker is still entitled to it (neither
\* late nor cancelled), and every visitor queued before it leaves the queue as
\* dead: matchLocked is first come, first served among the live ones.
HandOffIsFairStep ==
    \A w \in Worker : \A i \in 1..Len(waiting) :
        mailbox'[w] = waiting[i] /\ mailbox[w] # waiting[i] =>
            /\ ~ctxDone /\ waiting[i] \notin late
            /\ \A j \in 1..i-1 : waiting[j] \in late /\ waiting[j] \in closedTcp'
HandOffIsFair == [][HandOffIsFairStep]_vars

\* A visitor that finds idle workers goes to the most recently established one.
YoungestFirstStep ==
    \A w \in Worker : state[w] = "idle" /\ state'[w] = "leased" =>
        \A u \in Worker : state[u] = "idle" => u <= w
YoungestFirst == [][YoungestFirstStep]_vars

\* Nothing is taken into service once the pool is stopping: no worker becomes
\* idle, leased or checking, so the drain only shrinks.
NoServiceAfterStopStep ==
    stopping => \A w \in Worker : state'[w] # state[w] => state'[w] \in {"releasing", "closed"}
NoServiceAfterStop == [][NoServiceAfterStopStep]_vars

-----------------------------------------------------------------------------
(* Liveness, under Fairness.                                                *)

\* Every visitor that arrives is eventually served or closed.
VisitorAnswered ==
    \A v \in Visitor :
        v <= arrived ~> v \in closedTcp \/ \E w \in Worker : serving[w] = v

\* Heartbeats do not keep an unused connection alive: a parked worker is in the
\* end leased, retired or closed (the promise of Idle's comment).
UnusedRetires ==
    \A w \in Worker :
        state[w] \in {"idle", "checking"} ~> state[w] \notin {"idle", "checking"}

\* A cancelled server drains: every worker goroutine returns, and none starts.
ShutdownCompletes == ctxDone ~> []Drained
=============================================================================
