----------------------------- MODULE ClientSlots -----------------------------
(***************************************************************************)
(* The client's side of one service (internal/client/worker.go): the       *)
(* controller that keeps MinIdle tunnel connections idle or connecting,    *)
(* the goroutine of each connection (runConn, dialAndServe, serveSlot,     *)
(* lease) with the counters they share under runtime.mu, the reconnect     *)
(* backoff, and the shutdown of client.Run (cancel, stop, wait, force).    *)
(*                                                                         *)
(* Every section under runtime.mu is one action; a notification is sent    *)
(* after the unlock and is a step of its own.  What travels on a           *)
(* connection is the subject of module Tunnel.                             *)
(***************************************************************************)
EXTENDS Integers, FiniteSets

CONSTANTS
    Slot,        \* names for the connection goroutines alive at a time
    MinIdle, MaxIdle,
    MaxBusy,     \* bound: connections in a lease at a time
    MaxLevel     \* doublings from baseBackoff to maxBackoff

ASSUME SlotAssumption == IsFiniteSet(Slot)
ASSUME PoolAssumption == MinIdle \in Nat \ {0} /\ MaxIdle \in Nat /\ MinIdle <= MaxIdle
ASSUME BoundAssumption == MaxBusy \in Nat /\ MaxLevel \in Nat

VARIABLES
    \* service
    idle, connecting, wake, level, backingOff,
    \* controller: where it is, and whether its timer is set
    ctl, timerOn,
    \* slots: where each goroutine is, slot.state, slot.conn, dialAndServe's error
    pc, state, conn, err,
    \* shutdown
    ctxDone, stopping, stopSet, forced, forceSet

serviceVars  == <<idle, connecting, wake, level, backingOff>>
controlVars  == <<ctl, timerOn>>
slotVars     == <<pc, state, conn, err>>
shutdownVars == <<ctxDone, stopping, stopSet, forced, forceSet>>
vars == <<serviceVars, controlVars, slotVars, shutdownVars>>

(***************************************************************************)
(* A slot's goroutine: not there; counted but not in runtime.slots yet;    *)
(* in transport.Dial; in the HELLO exchange; in the idle loop; about to    *)
(* notify after OPEN; in a lease; after dialAndServe; after drop; about to *)
(* notify before it ends.                                                  *)
(***************************************************************************)
Place == {"unused", "spawned", "dial", "hello", "serve", "opened", "lease", "end",
          "dropped", "notify"}

Init ==
    /\ idle = 0 /\ connecting = 0 /\ wake = FALSE /\ level = 0 /\ backingOff = FALSE
    /\ ctl = "loop" /\ timerOn = FALSE
    /\ pc = [s \in Slot |-> "unused"] /\ state = [s \in Slot |-> "none"]
    /\ conn = [s \in Slot |-> "nil"] /\ err = [s \in Slot |-> FALSE]
    /\ ctxDone = FALSE /\ stopping = FALSE /\ stopSet = {} /\ forced = FALSE /\ forceSet = {}

Goto(s, p) == pc' = [pc EXCEPT ![s] = p]

-----------------------------------------------------------------------------
(* The controller.                                                          *)

Need == MinIdle - idle - connecting

Running == ~stopping /\ ~ctxDone

\* The controller starts as many connections as are missing.
CtlSpawn ==
    /\ ctl = "loop" /\ Running /\ Need > 0 /\ ~backingOff
    /\ connecting' = connecting + Need
    /\ \E new \in SUBSET {s \in Slot : pc[s] = "unused"} :
          /\ Cardinality(new) = Need
          /\ pc' = [s \in Slot |-> IF s \in new THEN "spawned" ELSE pc[s]]
          /\ state' = [s \in Slot |-> IF s \in new THEN "connecting" ELSE state[s]]
    /\ ctl' = "select"
    /\ UNCHANGED <<idle, wake, level, backingOff, timerOn, conn, err, shutdownVars>>

\* The backoff has not passed: the timer will bring the controller back.
CtlWaitsUntimed ==
    /\ ctl = "loop" /\ Running /\ Need > 0 /\ backingOff
    /\ ctl' = "select"
    /\ UNCHANGED <<serviceVars, timerOn, slotVars, shutdownVars>>
CtlWaits ==
    /\ ctl = "loop" /\ Running /\ Need > 0 /\ backingOff
    /\ timerOn' = TRUE
    /\ ctl' = "select"
    /\ UNCHANGED <<serviceVars, slotVars, shutdownVars>>

CtlEnough ==
    /\ ctl = "loop" /\ Running /\ Need <= 0
    /\ ctl' = "select"
    /\ UNCHANGED <<serviceVars, timerOn, slotVars, shutdownVars>>

CtlReturns ==
    /\ \/ ctl = "loop" /\ ~Running
       \/ ctl = "select" /\ ctxDone
    /\ ctl' = "done"
    /\ UNCHANGED <<serviceVars, timerOn, slotVars, shutdownVars>>

\* The select, then timer.Stop.
CtlWakes ==
    /\ ctl = "select" /\ wake
    /\ wake' = FALSE /\ timerOn' = FALSE
    /\ ctl' = "loop"
    /\ UNCHANGED <<idle, connecting, level, backingOff, slotVars, shutdownVars>>
CtlTimer ==
    /\ ctl = "select" /\ timerOn
    /\ timerOn' = FALSE
    /\ ctl' = "loop"
    /\ UNCHANGED <<serviceVars, slotVars, shutdownVars>>

\* Time reaches notBefore.
BackoffPasses ==
    /\ backingOff
    /\ backingOff' = FALSE
    /\ UNCHANGED <<idle, connecting, wake, level, controlVars, slotVars, shutdownVars>>

-----------------------------------------------------------------------------
(* A connection, from dial to close.                                        *)

\* runConn enters the slot into runtime.slots.
Start(s) ==
    /\ pc[s] = "spawned"
    /\ Goto(s, "dial")
    /\ UNCHANGED <<serviceVars, controlVars, state, conn, err, shutdownVars>>

\* serveSlot or dialAndServe returns with an error, or with none.
Ends(s, failed) ==
    /\ Goto(s, "end")
    /\ err' = [err EXCEPT ![s] = failed]

DialFails(s) ==
    /\ pc[s] = "dial"
    /\ Ends(s, TRUE)
    /\ UNCHANGED <<serviceVars, controlVars, state, conn, shutdownVars>>

\* dialAndServe publishes the connection, unless the client is stopping.
Dialled(s) ==
    /\ pc[s] = "dial"
    /\ \/ stopping /\ Ends(s, FALSE) /\ UNCHANGED conn
       \/ ~stopping /\ conn' = [conn EXCEPT ![s] = "open"] /\ Goto(s, "hello") /\ UNCHANGED err
    /\ UNCHANGED <<serviceVars, controlVars, state, shutdownVars>>

\* HELLO_OK: the slot counts as idle from now on.
Registered(s) ==
    /\ pc[s] = "hello"
    /\ state' = [state EXCEPT ![s] = "idle"]
    /\ connecting' = connecting - 1
    /\ idle' = idle + 1
    /\ Goto(s, "serve")
    /\ UNCHANGED <<wake, level, backingOff, controlVars, conn, err, shutdownVars>>

\* A read, a write or the protocol fails.
ConnFails(s) ==
    /\ pc[s] \in {"hello", "serve", "lease"}
    /\ Ends(s, TRUE)
    /\ UNCHANGED <<serviceVars, controlVars, state, conn, shutdownVars>>

\* The server said CLOSE, or the idle loop sees the cancelled context.
Retires(s) ==
    /\ pc[s] = "serve"
    /\ Ends(s, FALSE)
    /\ UNCHANGED <<serviceVars, controlVars, state, conn, shutdownVars>>

\* OPEN: the slot is busy; the controller is told after the unlock.
Opened(s) ==
    /\ pc[s] = "serve"
    /\ Cardinality({t \in Slot : state[t] = "busy"}) < MaxBusy
    /\ state' = [state EXCEPT ![s] = "busy"]
    /\ idle' = idle - 1
    /\ Goto(s, "opened")
    /\ UNCHANGED <<connecting, wake, level, backingOff, controlVars, conn, err, shutdownVars>>
OpenedNotifies(s) ==
    /\ pc[s] = "opened"
    /\ wake' = TRUE
    /\ Goto(s, "lease")
    /\ UNCHANGED <<idle, connecting, level, backingOff, controlVars, state, conn, err,
                   shutdownVars>>

\* RELEASE: keep the connection, or close it when there are enough.
IsSurplusByIdle == stopping \/ idle >= MaxIdle
IsSurplus == stopping \/ idle + connecting >= MaxIdle
KeepsConn(s) ==
    /\ pc[s] = "lease" /\ ~IsSurplus
    /\ state' = [state EXCEPT ![s] = "idle"]
    /\ idle' = idle + 1
    /\ Goto(s, "serve")
    /\ UNCHANGED <<connecting, wake, level, backingOff, controlVars, conn, err, shutdownVars>>
ClosesSurplus(s) ==
    /\ pc[s] = "lease" /\ IsSurplus
    /\ Ends(s, FALSE)
    /\ UNCHANGED <<serviceVars, controlVars, state, conn, shutdownVars>>

Drop(s) ==
    /\ pc[s] = "end"
    /\ conn' = [conn EXCEPT ![s] = "nil"]
    /\ Goto(s, "dropped")
    /\ UNCHANGED <<serviceVars, controlVars, state, err, shutdownVars>>

\* The backoff after a connection ended.  A failure sets notBefore at random up
\* to the backoff, which may be now, and doubles the backoff, counted from the
\* base if the connection had lasted; an orderly end resets it.
Backoff(s) ==
    \/ /\ err[s] /\ Running
       /\ backingOff' \in BOOLEAN
       /\ \E from \in {level, 0} : level' = IF from < MaxLevel THEN from + 1 ELSE MaxLevel
    \/ /\ err[s] /\ ~Running
       /\ UNCHANGED <<backingOff, level>>
    \/ /\ ~err[s]
       /\ level' = 0
       /\ UNCHANGED backingOff

\* runConn's last section: the slot leaves the counter it is in.
SettleIgnoresIdle(s) ==
    /\ connecting' = connecting - (IF state[s] = "connecting" THEN 1 ELSE 0)
    /\ UNCHANGED idle
Settle(s) ==
    /\ connecting' = connecting - (IF state[s] = "connecting" THEN 1 ELSE 0)
    /\ idle' = idle - (IF state[s] = "idle" THEN 1 ELSE 0)

Account(s) ==
    /\ pc[s] = "dropped"
    /\ Settle(s)
    /\ state' = [state EXCEPT ![s] = "none"]
    /\ Backoff(s)
    /\ Goto(s, "notify")
    /\ UNCHANGED <<wake, controlVars, conn, err, shutdownVars>>

EndNotifiesNobody(s) ==
    /\ pc[s] = "notify"
    /\ Goto(s, "unused")
    /\ err' = [err EXCEPT ![s] = FALSE]
    /\ UNCHANGED <<serviceVars, controlVars, state, conn, shutdownVars>>
EndNotifies(s) ==
    /\ pc[s] = "notify"
    /\ wake' = TRUE
    /\ Goto(s, "unused")
    /\ err' = [err EXCEPT ![s] = FALSE]
    /\ UNCHANGED <<idle, connecting, level, backingOff, controlVars, state, conn, shutdownVars>>

-----------------------------------------------------------------------------
(* Shutdown.                                                                *)

CtxCancel ==
    /\ ~ctxDone
    /\ ctxDone' = TRUE
    /\ UNCHANGED <<serviceVars, controlVars, slotVars, stopping, stopSet, forced, forceSet>>

\* stop: the connections that are not busy, closed after the unlock.
Stop ==
    /\ ctxDone /\ ~stopping
    /\ stopping' = TRUE
    /\ stopSet' = {s \in Slot : state[s] # "busy" /\ conn[s] # "nil"}
    /\ UNCHANGED <<serviceVars, controlVars, slotVars, ctxDone, forced, forceSet>>

\* A connection that is gone by then is closed already.
CloseConn(s) == conn' = [conn EXCEPT ![s] = IF @ = "open" THEN "closed" ELSE @]
StopClose(s) ==
    /\ s \in stopSet
    /\ CloseConn(s)
    /\ stopSet' = stopSet \ {s}
    /\ UNCHANGED <<serviceVars, controlVars, pc, state, err, ctxDone, stopping, forced, forceSet>>

Ended == ctl = "done" /\ \A s \in Slot : pc[s] = "unused"

\* force: the drain timer fires before every goroutine has ended.
RuntimeForce ==
    /\ stopping /\ stopSet = {} /\ ~forced /\ ~Ended
    /\ forced' = TRUE
    /\ forceSet' = {s \in Slot : conn[s] # "nil"}
    /\ UNCHANGED <<serviceVars, controlVars, slotVars, ctxDone, stopping, stopSet>>
ForceClose(s) ==
    /\ s \in forceSet
    /\ CloseConn(s)
    /\ forceSet' = forceSet \ {s}
    /\ UNCHANGED <<serviceVars, controlVars, pc, state, err, ctxDone, stopping, stopSet, forced>>

Terminated == stopping /\ stopSet = {} /\ forceSet = {} /\ Ended /\ UNCHANGED vars

-----------------------------------------------------------------------------
Control == CtlSpawn \/ CtlWaits \/ CtlEnough \/ CtlReturns \/ CtlWakes \/ CtlTimer
SlotStep(s) ==
    \/ Start(s) \/ DialFails(s) \/ Dialled(s) \/ Registered(s) \/ ConnFails(s) \/ Retires(s)
    \/ Opened(s) \/ OpenedNotifies(s) \/ KeepsConn(s) \/ ClosesSurplus(s) \/ Drop(s)
    \/ Account(s) \/ EndNotifies(s)
Shutdown == CtxCancel \/ Stop \/ RuntimeForce \/ \E s \in Slot : StopClose(s) \/ ForceClose(s)

Next ==
    \/ Control \/ BackoffPasses \/ Shutdown \/ Terminated
    \/ \E s \in Slot : SlotStep(s)

(***************************************************************************)
(* Fairness.  Goroutines run; dials and handshakes have deadlines; the     *)
(* backoff passes and the controller's timer fires after it; a goroutine   *)
(* whose connection was closed notices.  Nothing is assumed of OPEN, of    *)
(* the length of a lease or of failures.                                   *)
(***************************************************************************)
Fairness ==
    /\ WF_vars(CtlSpawn \/ CtlWaits \/ CtlEnough \/ CtlReturns)
    /\ WF_vars(CtlWakes) /\ WF_vars(~backingOff /\ CtlTimer) /\ WF_vars(BackoffPasses)
    /\ WF_vars(Stop) /\ WF_vars(RuntimeForce)
    /\ \A s \in Slot :
          /\ WF_vars(Start(s)) /\ WF_vars(DialFails(s) \/ Dialled(s))
          /\ WF_vars(pc[s] = "hello" /\ (Registered(s) \/ ConnFails(s)))
          /\ WF_vars(conn[s] = "closed" /\ ConnFails(s))
          /\ WF_vars(OpenedNotifies(s)) /\ WF_vars(EndNotifies(s))
          /\ WF_vars(Drop(s)) /\ WF_vars(Account(s))
          /\ WF_vars(StopClose(s)) /\ WF_vars(ForceClose(s))

Spec == Init /\ [][Next]_vars

-----------------------------------------------------------------------------
(* Properties.                                                              *)

\* Every variable has its type.
TypeOK ==
    /\ idle \in Int /\ connecting \in Int /\ level \in 0..MaxLevel
    /\ wake \in BOOLEAN /\ backingOff \in BOOLEAN /\ timerOn \in BOOLEAN
    /\ ctl \in {"loop", "select", "done"}
    /\ pc \in [Slot -> Place] /\ err \in [Slot -> BOOLEAN]
    /\ state \in [Slot -> {"none", "connecting", "idle", "busy"}]
    /\ conn \in [Slot -> {"nil", "open", "closed"}]
    /\ ctxDone \in BOOLEAN /\ stopping \in BOOLEAN /\ forced \in BOOLEAN
    /\ stopSet \subseteq Slot /\ forceSet \subseteq Slot

\* idle+connecting never exceeds MaxIdle (the claim at client/worker.go:39),
\* although spawns, registrations and barriers decide on it independently.
IdleBound == idle + connecting <= MaxIdle

\* The shared counters are what they stand for: the slots in each state, on
\* every path a connection can end by.
CountersExact ==
    /\ connecting = Cardinality({s \in Slot : state[s] = "connecting"})
    /\ idle = Cardinality({s \in Slot : state[s] = "idle"})

\* The controller is never left asleep with connections missing: a wake-up is
\* pending, its timer is set, or a goroutine is about to notify it.
NoLostWake ==
    ctl = "select" /\ Need > 0 =>
        wake \/ timerOn \/ \E s \in Slot : pc[s] \in {"opened", "notify"}

\* Once stop has closed its snapshot no connection is open that is not busy: a
\* dial that ends later is not published and a lease that ends is surplus.
StopLeavesNoneIdle ==
    stopping /\ stopSet = {} => \A s \in Slot : conn[s] = "open" => state[s] = "busy"

\* The pool is refilled: missing connections are dialled in the end, backoff or
\* not, unless the client shuts down.
Refilled == Need > 0 ~> Need <= 0 \/ ctxDone
=============================================================================
