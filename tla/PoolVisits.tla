----------------------------- MODULE PoolVisits -----------------------------
(***************************************************************************)
(* The pool implements Visitors: a visitor waits while it is in the queue  *)
(* or in a mailbox, is served while a worker goroutine holds it, and is    *)
(* gone once its socket is closed and no goroutine holds it any more.      *)
(***************************************************************************)
EXTENDS Pool

Served(v) == \E w \in Worker : serving[w] = v

Phase(v) ==
    IF Served(v) THEN "served"
    ELSE IF v > arrived THEN "outside"
    ELSE IF v \in closedTcp THEN "gone" ELSE "waiting"

By(v) == IF Served(v) THEN CHOOSE w \in Worker : serving[w] = v ELSE 0

V == INSTANCE Visitors WITH Server <- Worker, Count <- MaxVisitors,
                            phase <- [v \in Visitor |-> Phase(v)],
                            by <- [v \in Visitor |-> By(v)]

\* Whatever races between Dispatch, the workers, timeouts, Stop and Force, each
\* visitor goes through the life Visitors describes: it is served at most once, by
\* one worker that serves nobody else, and once its socket is closed and let go
\* nothing brings it back (pool.go Dispatch, matchLocked, Next and Closed).
ImplementsVisitors == V!Spec
=============================================================================
