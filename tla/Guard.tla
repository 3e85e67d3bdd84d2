-------------------------------- MODULE Guard --------------------------------
(***************************************************************************)
(* The server's tunnel listener until a connection is authenticated        *)
(* (internal/transport: the guard of each connection, the slots that limit *)
(* them, the goroutines of Serve and serveWS, and stop).                   *)
(*                                                                         *)
(* Several goroutines may end a guard: its timer, the connection's handler,*)
(* stop, Pool.Stop, and CompleteAuth.  Every section under guard.mu or     *)
(* guardedListener.mu is one action; what fail and complete do after the   *)
(* unlock (Close, onDone) are steps of their own.                          *)
(***************************************************************************)
EXTENDS Integers, FiniteSets

CONSTANTS
    Conn,      \* connections that reach the listener
    MaxSlots   \* capacity of guardedListener.slots

ASSUME ConnAssumption == IsFiniteSet(Conn)
ASSUME SlotAssumption == MaxSlots \in Nat \ {0}

VARIABLES
    kind,      \* the configured transport
    serve,     \* what Serve is doing
    \* guardedListener
    slots, active, stopping, wg, stopSet,
    \* per connection: where its goroutine is, guard.done, how far fail or
    \* complete has come, and whether CompleteAuth succeeded
    at, done, release, completed,
    \* per connection: the phase is over, the deadline on the socket, the socket
    expired, deadline, open

listenerVars == <<kind, serve, slots, active, stopping, wg, stopSet>>
guardVars    == <<done, release, completed, open>>
timeVars     == <<expired, deadline>>
vars == <<listenerVars, at, guardVars, timeVars>>

(***************************************************************************)
(* A connection: in the kernel's queue; refused; in net/http before its    *)
(* handler, and after a reply; in the handshake; in the accept callback    *)
(* (server register); on the handler's way out; gone or handed over.       *)
(***************************************************************************)
Place == {"queued", "refused", "http", "replied", "handshake", "register", "closing", "ended"}
Admitted(c) == at[c] \notin {"queued", "refused"}

Init ==
    /\ kind \in {"noise", "wss"} /\ serve = "accepting"
    /\ slots = 0 /\ active = {} /\ stopping = FALSE /\ wg = 0 /\ stopSet = {}
    /\ at = [c \in Conn |-> "queued"]
    /\ done = [c \in Conn |-> FALSE] /\ release = [c \in Conn |-> "none"]
    /\ completed = [c \in Conn |-> FALSE] /\ expired = [c \in Conn |-> FALSE]
    /\ deadline = [c \in Conn |-> "none"] /\ open = [c \in Conn |-> TRUE]

Goto(c, p) == at' = [at EXCEPT ![c] = p]

-----------------------------------------------------------------------------
(* The guard.                                                               *)

\* fail: the first to end the guard goes on to close the connection.
FailAgain(c) ==
    /\ done' = [done EXCEPT ![c] = TRUE]
    /\ release' = [release EXCEPT ![c] = "close"]
Fail(c) ==
    IF done[c] THEN UNCHANGED <<done, release>>
    ELSE /\ done' = [done EXCEPT ![c] = TRUE]
         /\ release' = [release EXCEPT ![c] = "close"]

\* guardedConn.Close: fail, and the socket is closed whoever ended the guard; when
\* this fail did, FailCloses comes first.
Closes(c) ==
    /\ Fail(c)
    /\ open' = [open EXCEPT ![c] = @ /\ ~done[c]]

\* After the unlock: Close, then onDone, which leaves active and then slots.
FailCloses(c) ==
    /\ release[c] = "close"
    /\ open' = [open EXCEPT ![c] = FALSE]
    /\ release' = [release EXCEPT ![c] = "delete"]
    /\ UNCHANGED <<listenerVars, at, done, completed, timeVars>>
OnDoneDeletes(c) ==
    /\ release[c] = "delete"
    /\ active' = active \ {c}
    /\ release' = [release EXCEPT ![c] = "slot"]
    /\ UNCHANGED <<kind, serve, slots, stopping, wg, stopSet, at, done, completed, open, timeVars>>
OnDoneReceives(c) ==
    /\ release[c] = "slot" /\ slots > 0
    /\ slots' = slots - 1
    /\ release' = [release EXCEPT ![c] = "given"]
    /\ UNCHANGED <<kind, serve, active, stopping, wg, stopSet, at, done, completed, open, timeVars>>

\* next and complete refuse a guard that has ended or whose phase is over.
StillInTimeOnly(c) == ~expired[c]
StillGuarded(c) == ~done[c] /\ ~expired[c]

\* The phase's end comes, and its timer runs fail.
PhasePasses(c) ==
    /\ Admitted(c) /\ ~done[c] /\ ~expired[c]
    /\ expired' = [expired EXCEPT ![c] = TRUE]
    /\ UNCHANGED <<listenerVars, at, guardVars, deadline>>
TimerFires(c) ==
    /\ expired[c] /\ ~done[c]
    /\ Fail(c)
    /\ UNCHANGED <<listenerVars, at, completed, open, timeVars>>

\* Whoever sets a deadline on a guarded connection, also to clear it, gets at
\* most the end of the phase: handshakeNoise, net/http and register do.
Clamped(c) == IF done[c] THEN "free" ELSE "phase"
SetDeadline(c) ==
    /\ at[c] \in {"http", "replied", "handshake", "register"}
    /\ deadline' = [deadline EXCEPT ![c] = Clamped(c)]
    /\ UNCHANGED <<listenerVars, at, guardVars, expired>>

-----------------------------------------------------------------------------
(* Accepting.                                                               *)

SlotFree == slots < MaxSlots

AcceptRefuses(c) ==
    /\ serve = "accepting" /\ at[c] = "queued" /\ ~SlotFree
    /\ Goto(c, "refused")
    /\ open' = [open EXCEPT ![c] = FALSE]
    /\ UNCHANGED <<listenerVars, done, release, completed, timeVars>>

\* A slot, a guard, and for noise a goroutine; net/http starts its own.
Accept(c) ==
    /\ serve = "accepting" /\ at[c] = "queued" /\ SlotFree
    /\ slots' = slots + 1
    /\ active' = active \cup {c}
    /\ deadline' = [deadline EXCEPT ![c] = "phase"]
    /\ \/ kind = "noise" /\ wg' = wg + 1 /\ Goto(c, "handshake")
       \/ kind = "wss" /\ wg' = wg /\ Goto(c, "http")
    /\ UNCHANGED <<kind, serve, stopping, stopSet, guardVars, expired>>

\* net/http calls the handler, which a stopping listener refuses at once.
BeginHandlerAlways(c) ==
    /\ at[c] = "http"
    /\ wg' = wg + 1
    /\ Goto(c, "handshake")
    /\ UNCHANGED <<kind, serve, slots, active, stopping, stopSet, guardVars, timeVars>>
BeginHandler(c) ==
    /\ at[c] = "http" /\ ~stopping
    /\ wg' = wg + 1
    /\ Goto(c, "handshake")
    /\ UNCHANGED <<kind, serve, slots, active, stopping, stopSet, guardVars, timeVars>>

\* Not a request for the tunnel: the handler replies and returns, and leaves the
\* connection to net/http, which closes it after this reply.
HandlerRefusesUncounted(c) ==
    /\ kind = "wss" /\ at[c] = "handshake"
    /\ Goto(c, "replied")
    /\ UNCHANGED <<listenerVars, guardVars, timeVars>>
HandlerRefuses(c) ==
    /\ kind = "wss" /\ at[c] = "handshake"
    /\ wg' = wg - 1
    /\ Goto(c, "replied")
    /\ UNCHANGED <<kind, serve, slots, active, stopping, stopSet, guardVars, timeVars>>

\* net/http closes a connection: an error, its response, or Server.Close.
HttpCloses(c) ==
    /\ at[c] \in {"http", "replied"}
    /\ Closes(c)
    /\ Goto(c, "ended")
    /\ UNCHANGED <<listenerVars, completed, timeVars>>

-----------------------------------------------------------------------------
(* A connection's handler: the handshake, next, the accept callback.        *)

\* The connection is closed; when websocket.Accept fails, fail alone runs.
HandshakeFails(c) ==
    /\ at[c] = "handshake"
    /\ Closes(c) \/ (kind = "wss" /\ Fail(c) /\ UNCHANGED open)
    /\ Goto(c, "closing")
    /\ UNCHANGED <<listenerVars, completed, timeVars>>

\* The handshake succeeded: guard.next starts the second phase, or fails.
NextPhase(c) ==
    /\ at[c] = "handshake" /\ StillGuarded(c)
    /\ deadline' = [deadline EXCEPT ![c] = "phase"]
    /\ Goto(c, "register")
    /\ UNCHANGED <<listenerVars, guardVars, expired>>
NextRefused(c) ==
    /\ at[c] = "handshake" /\ ~StillGuarded(c)
    /\ Closes(c)
    /\ Goto(c, "closing")
    /\ UNCHANGED <<listenerVars, completed, timeVars>>

\* CompleteAuth: the guard ends and lets the connection go, or fails.
CompleteKeepsSlot(c) ==
    /\ at[c] = "register" /\ StillGuarded(c)
    /\ done' = [done EXCEPT ![c] = TRUE]
    /\ completed' = [completed EXCEPT ![c] = TRUE]
    /\ deadline' = [deadline EXCEPT ![c] = "free"]
    /\ Goto(c, "closing")
    /\ UNCHANGED <<listenerVars, release, open, expired>>
Complete(c) ==
    /\ at[c] = "register" /\ StillGuarded(c)
    /\ done' = [done EXCEPT ![c] = TRUE]
    /\ completed' = [completed EXCEPT ![c] = TRUE]
    /\ deadline' = [deadline EXCEPT ![c] = "free"]
    /\ release' = [release EXCEPT ![c] = "delete"]
    /\ Goto(c, "closing")
    /\ UNCHANGED <<listenerVars, open, expired>>

\* register gives up and closes, before or because CompleteAuth refuses.
RegisterFails(c) ==
    /\ at[c] = "register"
    /\ Closes(c)
    /\ Goto(c, "closing")
    /\ UNCHANGED <<listenerVars, completed, timeVars>>

\* Pool.Stop closes a connection that is registering.
PoolCloses(c) ==
    /\ at[c] = "register"
    /\ Closes(c)
    /\ UNCHANGED <<listenerVars, at, completed, timeVars>>

\* The handler's deferred Done.
HandlerReturns(c) ==
    /\ at[c] = "closing"
    /\ wg' = wg - 1
    /\ Goto(c, "ended")
    /\ UNCHANGED <<kind, serve, slots, active, stopping, stopSet, guardVars, timeVars>>

-----------------------------------------------------------------------------
(* The end of Serve: the listener is closed or fails, and stop runs.        *)

Stop ==
    /\ serve = "accepting"
    /\ serve' = "stopping"
    /\ stopping' = TRUE
    /\ stopSet' = active
    /\ UNCHANGED <<kind, slots, active, wg, at, guardVars, timeVars>>
StopFails(c) ==
    /\ c \in stopSet
    /\ Fail(c)
    /\ stopSet' = stopSet \ {c}
    /\ UNCHANGED <<kind, serve, slots, active, stopping, wg, at, completed, open, timeVars>>

\* wg.Wait returns.
StopReturns ==
    /\ serve = "stopping" /\ stopSet = {} /\ wg = 0
    /\ serve' = "returned"
    /\ UNCHANGED <<kind, slots, active, stopping, wg, stopSet, at, guardVars, timeVars>>

Terminated ==
    /\ serve = "returned"
    /\ \A c \in Conn : at[c] \in {"queued", "refused", "ended"} /\ release[c] \in {"none", "given"}
    /\ UNCHANGED vars

-----------------------------------------------------------------------------
GuardStep(c) ==
    \/ FailCloses(c) \/ OnDoneDeletes(c) \/ OnDoneReceives(c) \/ PhasePasses(c)
    \/ TimerFires(c) \/ SetDeadline(c)
HandlerStep(c) ==
    \/ AcceptRefuses(c) \/ Accept(c) \/ BeginHandler(c) \/ HandlerRefuses(c) \/ HttpCloses(c)
    \/ HandshakeFails(c) \/ NextPhase(c) \/ NextRefused(c) \/ Complete(c) \/ RegisterFails(c)
    \/ PoolCloses(c) \/ HandlerReturns(c)

Next ==
    \/ \E c \in Conn : GuardStep(c) \/ HandlerStep(c) \/ StopFails(c)
    \/ Stop \/ StopReturns \/ Terminated

Spec == Init /\ [][Next]_vars

(***************************************************************************)
(* Fairness.  Time passes, timers fire and goroutines run.  A goroutine    *)
(* that reads from its peer is only sure to go on when its socket is       *)
(* closed or the deadline has passed; peers need not send anything.        *)
(***************************************************************************)
Unblocked(c) == ~open[c] \/ expired[c]
Fairness ==
    /\ \A c \in Conn :
          /\ WF_vars(FailCloses(c)) /\ WF_vars(OnDoneDeletes(c)) /\ WF_vars(OnDoneReceives(c))
          /\ WF_vars(PhasePasses(c)) /\ WF_vars(TimerFires(c))
          /\ WF_vars(Unblocked(c) /\ HandshakeFails(c))
          /\ WF_vars(Unblocked(c) /\ RegisterFails(c))
          /\ WF_vars(Unblocked(c) /\ HttpCloses(c))
          /\ WF_vars(HandlerReturns(c)) /\ WF_vars(StopFails(c))
    /\ WF_vars(StopReturns)

FairSpec == Spec /\ Fairness

-----------------------------------------------------------------------------
(* Properties.                                                              *)

\* Every variable has its type; the slots channel holds what its capacity allows.
TypeOK ==
    /\ kind \in {"noise", "wss"} /\ serve \in {"accepting", "stopping", "returned"}
    /\ slots \in 0..MaxSlots /\ wg \in Int /\ stopping \in BOOLEAN
    /\ active \subseteq Conn /\ stopSet \subseteq Conn
    /\ at \in [Conn -> Place] /\ release \in [Conn -> {"none", "close", "delete", "slot", "given"}]
    /\ done \in [Conn -> BOOLEAN] /\ completed \in [Conn -> BOOLEAN]
    /\ expired \in [Conn -> BOOLEAN] /\ open \in [Conn -> BOOLEAN]
    /\ deadline \in [Conn -> {"none", "phase", "free"}]

\* Each admitted connection takes one slot and gives it back once, whoever ends
\* its guard: the slots in use are the connections that have not given theirs back.
SlotsExact == slots = Cardinality({c \in Conn : Admitted(c) /\ release[c] # "given"})

\* Whatever the layers above set or clear, a connection that is not authenticated
\* has a deadline on its socket (guard.deadline), and the guard has no hold on one
\* that is: neither its timer nor stop nor an earlier close has closed it, and no
\* deadline of a phase is left.  From then on it belongs to the server's worker.
DeadlineFollowsGuard ==
    \A c \in Conn :
        /\ Admitted(c) /\ ~done[c] => deadline[c] = "phase"
        /\ completed[c] => open[c] /\ deadline[c] = "free"

\* When Serve has returned no handler runs or will run, so that no worker is
\* started behind accepts.Wait in server.Run, and no guard is unfinished.
NoHandlerAfterServe ==
    serve = "returned" =>
        \A c \in Conn : /\ at[c] \notin {"handshake", "register", "closing"}
                        /\ Admitted(c) => done[c]

\* No peer holds a slot for ever: each is given back, authenticated or not.
SlotReturned == \A c \in Conn : Admitted(c) ~> release[c] = "given"

\* A stopping listener returns.
ServeReturns == stopping ~> serve = "returned"
=============================================================================
