------------------------------- MODULE Duplex -------------------------------
(***************************************************************************)
(* What the tunnel promises of the leases it carries one after another on  *)
(* a connection: each is a pair of byte streams between a visitor and the  *)
(* local service.  Whatever is delivered was sent, in order and once; the  *)
(* end of a stream is delivered only after all of it; and nothing of a     *)
(* lease is carried before both streams of the one before it have ended.   *)
(* A lease may also stop at any point.  Module Relay implements this.      *)
(***************************************************************************)
EXTENDS Naturals, Sequences

CONSTANTS
    End,    \* the two ends of a connection
    Lease,  \* the leases of a connection, 1..n
    Chunk   \* pieces of a stream

VARIABLES
    sent,   \* sent[x][l]: what the local peer at x has sent in lease l
    got,    \* got[x][l]: what it has received
    eof,    \* eof[x]: the leases in which it has ended its stream
    over    \* over[x]: the leases in which it has received the other's end

vars == <<sent, got, eof, over>>

Init ==
    /\ sent = [x \in End |-> [l \in Lease |-> <<>>]]
    /\ got  = [x \in End |-> [l \in Lease |-> <<>>]]
    /\ eof  = [x \in End |-> {}]
    /\ over = [x \in End |-> {}]

\* Every earlier lease ended well in both directions.
Begun(l) == \A x \in End : \A k \in Lease : k < l => k \in over[x]

Send(x, l, c) ==
    /\ Begun(l) /\ l \notin eof[x]
    /\ sent' = [sent EXCEPT ![x][l] = Append(@, c)]
    /\ UNCHANGED <<got, eof, over>>

SendEnd(x, l) ==
    /\ Begun(l) /\ l \notin eof[x]
    /\ eof' = [eof EXCEPT ![x] = @ \cup {l}]
    /\ UNCHANGED <<sent, got, over>>

\* The end x receives the next piece of what the end y sent.
Receive(x, y, l) ==
    /\ x # y /\ l \notin over[x]
    /\ Len(got[x][l]) < Len(sent[y][l])
    /\ got' = [got EXCEPT ![x][l] = Append(@, sent[y][l][Len(@) + 1])]
    /\ UNCHANGED <<sent, eof, over>>

ReceiveEnd(x, y, l) ==
    /\ x # y /\ l \notin over[x]
    /\ l \in eof[y] /\ got[x][l] = sent[y][l]
    /\ over' = [over EXCEPT ![x] = @ \cup {l}]
    /\ UNCHANGED <<sent, got, eof>>

Next ==
    \E x \in End, l \in Lease :
        \/ \E c \in Chunk : Send(x, l, c)
        \/ SendEnd(x, l)
        \/ \E y \in End : Receive(x, y, l) \/ ReceiveEnd(x, y, l)

Spec == Init /\ [][Next]_vars
=============================================================================
