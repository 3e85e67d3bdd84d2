------------------------------ MODULE Visitors ------------------------------
(***************************************************************************)
(* What the server promises its visitors, without queue, pool, locks or    *)
(* timers.  Visitors arrive one after the other.  One that has arrived     *)
(* waits until a connection that serves nobody else serves it, and in the  *)
(* end it is gone: it may be turned away on arrival, dropped while it      *)
(* waits, and it is served at most once.                                   *)
(***************************************************************************)
EXTENDS Naturals

CONSTANTS Server, Count   \* the connections, the number of visitors

VARIABLES
    phase,  \* of each visitor: "outside", "waiting", "served" or "gone"
    by      \* the connection that serves it, or None

None == 0
Guest == 1..Count
vars == <<phase, by>>

Init == phase = [v \in Guest |-> "outside"] /\ by = [v \in Guest |-> None]

\* The next visitor arrives, to wait or to be turned away.
Arrive(v) ==
    /\ phase[v] = "outside" /\ \A u \in 1..v-1 : phase[u] # "outside"
    /\ \E p \in {"waiting", "gone"} : phase' = [phase EXCEPT ![v] = p]
    /\ UNCHANGED by

Serve(v, w) ==
    /\ phase[v] = "waiting" /\ \A u \in Guest : by[u] # w
    /\ phase' = [phase EXCEPT ![v] = "served"]
    /\ by' = [by EXCEPT ![v] = w]

\* Waiting visitors are dropped, several at a time when the server stops.
Dismiss(G) ==
    /\ \A v \in G : phase[v] = "waiting"
    /\ phase' = [v \in Guest |-> IF v \in G THEN "gone" ELSE phase[v]]
    /\ UNCHANGED by

Finish(v) ==
    /\ phase[v] = "served"
    /\ phase' = [phase EXCEPT ![v] = "gone"]
    /\ by' = [by EXCEPT ![v] = None]

Next ==
    \/ \E G \in SUBSET Guest : Dismiss(G)
    \/ \E v \in Guest : Arrive(v) \/ Finish(v)
    \/ \E v \in Guest : \E w \in Server : Serve(v, w)

Spec == Init /\ [][Next]_vars
=============================================================================
