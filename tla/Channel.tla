------------------------------- MODULE Channel ------------------------------
(***************************************************************************)
(* What the protocol expects of one direction of a connection, and what    *)
(* Tunnel and Relay take for granted: frames arrive whole, in order and    *)
(* once, until the direction breaks; then nothing arrives any more.  It    *)
(* breaks only when it is disturbed.  Module Stream implements this.       *)
(***************************************************************************)
EXTENDS Naturals, Sequences

CONSTANT Frame

VARIABLES sent, received, disturbed, broken

vars == <<sent, received, disturbed, broken>>

Init == sent = <<>> /\ received = <<>> /\ disturbed = FALSE /\ broken = FALSE

Send(f) ==
    /\ sent' = Append(sent, f)
    /\ UNCHANGED <<received, disturbed, broken>>

Deliver ==
    /\ ~broken /\ Len(received) < Len(sent)
    /\ received' = Append(received, sent[Len(received) + 1])
    /\ UNCHANGED <<sent, disturbed, broken>>

\* The network, a deadline or a close gets in the way; the reader may notice later.
Disturb == ~disturbed /\ disturbed' = TRUE /\ UNCHANGED <<sent, received, broken>>
Break == ~broken /\ broken' = TRUE /\ disturbed' = TRUE /\ UNCHANGED <<sent, received>>

Next == (\E f \in Frame : Send(f)) \/ Deliver \/ Disturb \/ Break

Spec == Init /\ [][Next]_vars
=============================================================================
