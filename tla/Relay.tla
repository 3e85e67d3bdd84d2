------------------------------- MODULE Relay --------------------------------
(***************************************************************************)
(* The relay of a lease (relay/relay.go) at both ends of a connection: the *)
(* two pumps of Run at each end, the compressor and decompressor they use, *)
(* their sockets, abort, and the reuse of the Relay and its codec for the  *)
(* next lease on the same connection.                                      *)
(*                                                                         *)
(* A local stream is a sequence of chunks.  The compressor turns a chunk   *)
(* into BlockUnits units, and its Close into one that holds the checksum   *)
(* of all it was given; a DATA frame carries at most FrameMax units.  The  *)
(* release barrier between leases is the subject of module Tunnel: here a  *)
(* lease starts when both ends have finished the last one.                 *)
(***************************************************************************)
EXTENDS Integers, Sequences, SequencesExt

CONSTANTS
    MaxLease,    \* bound: leases on the connection
    MaxChunks,   \* bound: chunks of a local stream
    BlockUnits,  \* units of a compressed chunk
    FrameMax,    \* units of a DATA frame, standing for 32768 bytes
    WireMax,     \* frames the socket buffers between the ends hold
    MaxFaults    \* bound: resets, closes, cancellations and write deadlines that pass

ASSUME RelayAssumption ==
    /\ MaxLease \in Nat /\ MaxChunks \in Nat
    /\ BlockUnits \in Nat \ {0} /\ FrameMax \in Nat \ {0}
    /\ WireMax \in Nat \ {0} /\ MaxFaults \in Nat

S == "server"
C == "client"
End == {S, C}
Peer(x) == IF x = S THEN C ELSE S
Lease == 1..MaxLease
Chunk == 1..MaxLease * MaxChunks

VARIABLES
    lease,    \* the lease of Run's latest call
    run,      \* where Run is
    first,    \* its variable first
    results,  \* the channel errorsCh: results of pumps not yet taken
    up,       \* the pump from the local socket: where it is, units not yet written
    down,     \* the pump to the local socket
    reader,   \* frameReader: unread units of the last frame, and whether FIN came
    enc,      \* the encoder: chunks since its Reset
    dec,      \* the decoder: chunks since its Reset, units of the next, frame ended
    wire,     \* frames on their way to each end
    local,    \* the peer on the local socket
    tcp, tun, \* whether the two sockets are open
    faults,   \* how much has gone wrong
    sent, got, eof, over  \* the local streams, as in Duplex

runVars   == <<lease, run, first>>
still     == <<runVars, faults>>
codecVars == <<reader, enc, dec>>
sockVars  == <<local, tcp, tun>>
dataVars  == <<sent, got, eof, over>>
vars == <<runVars, results, up, down, codecVars, wire, sockVars, faults, dataVars>>

Result == {"ok", "io", "codec"}

Idle    == "idle"
NewUp   == [at |-> "read", out |-> <<>>]
NoUp    == [at |-> "ended", out |-> <<>>]
NewDec  == [chunks |-> <<>>, part |-> 0, whole |-> FALSE]
NewReader == [pending |-> <<>>, fin |-> FALSE]

Init ==
    /\ lease = [x \in End |-> 0]
    /\ run = [x \in End |-> Idle] /\ first = [x \in End |-> "ok"]
    /\ results = [x \in End |-> <<>>]
    /\ up = [x \in End |-> NoUp] /\ down = [x \in End |-> "ended"]
    /\ reader = [x \in End |-> NewReader]
    /\ enc = [x \in End |-> <<>>] /\ dec = [x \in End |-> NewDec]
    /\ wire = [x \in End |-> <<>>]
    /\ local = [x \in End |-> "open"]
    /\ tcp = [x \in End |-> FALSE] /\ tun = [x \in End |-> TRUE]
    /\ faults = 0
    /\ sent = [x \in End |-> [l \in Lease |-> <<>>]]
    /\ got = [x \in End |-> [l \in Lease |-> <<>>]]
    /\ eof = [x \in End |-> {}] /\ over = [x \in End |-> {}]

-----------------------------------------------------------------------------
(* Run starts.  The client's comes first (it answers OPEN and starts), after *)
(* both ends have left the release barrier of the lease before.              *)

Turn(x) ==
    /\ run[x] = Idle /\ lease[x] < MaxLease /\ tun[x]
    /\ IF x = C THEN run[S] = Idle /\ lease[S] = lease[C] ELSE lease[C] = lease[S] + 1

\* The reader and the codec of the last lease, as Run sets them for the next.
ResetKeepsEncoder(x) ==
    /\ reader' = [reader EXCEPT ![x] = NewReader]
    /\ dec' = [dec EXCEPT ![x] = NewDec]
    /\ UNCHANGED enc
ResetKeepsReader(x) ==
    /\ enc' = [enc EXCEPT ![x] = <<>>]
    /\ dec' = [dec EXCEPT ![x] = NewDec]
    /\ UNCHANGED reader
Reset(x) ==
    /\ reader' = [reader EXCEPT ![x] = NewReader]
    /\ enc' = [enc EXCEPT ![x] = <<>>]
    /\ dec' = [dec EXCEPT ![x] = NewDec]

Start(x) ==
    /\ Turn(x)
    /\ Reset(x)
    /\ lease' = [lease EXCEPT ![x] = @ + 1]
    /\ run' = [run EXCEPT ![x] = "first"]
    /\ results' = [results EXCEPT ![x] = <<>>]
    /\ up' = [up EXCEPT ![x] = NewUp] /\ down' = [down EXCEPT ![x] = "copy"]
    /\ local' = [local EXCEPT ![x] = "open"] /\ tcp' = [tcp EXCEPT ![x] = TRUE]
    /\ UNCHANGED <<first, wire, tun, faults, dataVars>>

-----------------------------------------------------------------------------
(* The sockets and the peers on them.                                        *)

Running(x) == run[x] \in {"first", "second"}

Fault == faults < MaxFaults /\ faults' = faults + 1

\* The peer on the local socket ends its stream, or resets the connection.
LocalEnds(x) ==
    /\ Running(x) /\ local[x] = "open"
    /\ local' = [local EXCEPT ![x] = "eof"]
    /\ eof' = [eof EXCEPT ![x] = @ \cup {lease[x]}]
    /\ UNCHANGED <<still, results, up, down, codecVars, wire, tcp, tun, sent, got, over>>
LocalResets(x) ==
    /\ Fault /\ Running(x) /\ local[x] # "reset"
    /\ local' = [local EXCEPT ![x] = "reset"]
    /\ UNCHANGED <<runVars, results, up, down, codecVars, wire, tcp, tun, dataVars>>

\* The tunnel connection is closed under Run by another goroutine.
Forced(x) ==
    /\ Fault /\ tun[x]
    /\ tun' = [tun EXCEPT ![x] = FALSE]
    /\ UNCHANGED <<runVars, results, up, down, codecVars, wire, local, tcp, dataVars>>

\* abort, which Run calls on a failure and context.AfterFunc on cancellation.
AbortTunnelOnly(x) ==
    /\ tun' = [tun EXCEPT ![x] = FALSE]
    /\ UNCHANGED tcp
Abort(x) ==
    /\ tcp' = [tcp EXCEPT ![x] = FALSE]
    /\ tun' = [tun EXCEPT ![x] = FALSE]
Cancelled(x) ==
    /\ Fault /\ Running(x) /\ tun[x]
    /\ Abort(x)
    /\ UNCHANGED <<runVars, results, up, down, codecVars, wire, local, dataVars>>

\* A read or write on the tunnel fails: closed here, or closed or reset by the
\* other end.
WriteBroken(x) == ~tun[x] \/ ~tun[Peer(x)]
ReadBroken(x) ==
    \/ ~tun[x]
    \/ ~tun[Peer(x)] /\ (wire[x] = <<>> \/ wire[Peer(x)] # <<>>)
Sends(x, f) ==
    /\ tun[x] /\ Len(wire[Peer(x)]) < WireMax
    /\ wire' = [wire EXCEPT ![Peer(x)] = Append(@, f)]

-----------------------------------------------------------------------------
(* The pump from the local socket to the tunnel.                             *)

Unit(c, p, s) == [chunk |-> c, part |-> p, sum |-> s]
Block(c) == [p \in 1..BlockUnits |-> Unit(c, p, <<>>)]
LastUnit(x) == Unit(0, 0, enc[x])
Frame(t, l, u) == [type |-> t, id |-> l, units |-> u]

UpEnds(x, r) ==
    /\ up' = [up EXCEPT ![x] = NoUp]
    /\ results' = [results EXCEPT ![x] = Append(@, r)]

\* Read returns data: the encoder takes it, and Flush has a block to write.
ReadLocal(x) ==
    /\ up[x].at = "read" /\ tcp[x] /\ local[x] = "open"
    /\ Len(sent[x][lease[x]]) < MaxChunks
    /\ LET c == (lease[x] - 1) * MaxChunks + Len(sent[x][lease[x]]) + 1
       IN  /\ sent' = [sent EXCEPT ![x][lease[x]] = Append(@, c)]
           /\ enc' = [enc EXCEPT ![x] = Append(@, c)]
           /\ up' = [up EXCEPT ![x] = [at |-> "flush", out |-> Block(c)]]
    /\ UNCHANGED <<still, results, down, reader, dec, wire, sockVars, got, eof, over>>

\* Read returns EOF: the encoder is closed, which ends the compressed frame.
ReadEnd(x) ==
    /\ up[x].at = "read" /\ tcp[x] /\ local[x] = "eof"
    /\ up' = [up EXCEPT ![x] = [at |-> "close", out |-> <<LastUnit(x)>>]]
    /\ UNCHANGED <<still, results, down, codecVars, wire, sockVars, dataVars>>

\* frameWriter.Write: one DATA frame after another until the output is written.
WriteFrame(x) ==
    /\ up[x].out # <<>>
    /\ LET n == IF Len(up[x].out) < FrameMax THEN Len(up[x].out) ELSE FrameMax
           rest == SubSeq(up[x].out, n + 1, Len(up[x].out))
       IN  /\ Sends(x, Frame("DATA", lease[x], SubSeq(up[x].out, 1, n)))
           /\ up' = [up EXCEPT ![x] =
                  [at |-> IF rest # <<>> THEN up[x].at
                          ELSE IF up[x].at = "flush" THEN "read" ELSE "fin",
                   out |-> rest]]
    /\ UNCHANGED <<still, results, down, codecVars, sockVars, dataVars>>

WriteFin(x) ==
    /\ up[x].at = "fin"
    /\ Sends(x, Frame("FIN", lease[x], <<>>))
    /\ UpEnds(x, "ok")
    /\ UNCHANGED <<still, down, codecVars, sockVars, dataVars>>

UpFails(x) ==
    /\ \/ up[x].at = "read" /\ (~tcp[x] \/ local[x] = "reset")
       \/ up[x].at \in {"flush", "close", "fin"} /\ WriteBroken(x)
    /\ UpEnds(x, "io")
    /\ UNCHANGED <<still, down, codecVars, wire, sockVars, dataVars>>

-----------------------------------------------------------------------------
(* The pump from the tunnel to the local socket.                             *)

DownEnds(x, r) ==
    /\ down' = [down EXCEPT ![x] = "ended"]
    /\ results' = [results EXCEPT ![x] = Append(@, r)]
DownGoes(x, p) ==
    /\ down' = [down EXCEPT ![x] = p]
    /\ UNCHANGED results

\* frameReader.Read with nothing pending: a frame of this lease, DATA or FIN.
Receives(x) ==
    /\ down[x] = "copy" /\ reader[x].pending = <<>> /\ ~reader[x].fin
    /\ tun[x] /\ wire[x] # <<>>
    /\ LET f == Head(wire[x])
       IN  /\ reader' = [reader EXCEPT ![x] = [pending |-> f.units, fin |-> f.type = "FIN"]]
           /\ IF f.id = lease[x] THEN DownGoes(x, "copy") ELSE DownEnds(x, "codec")
    /\ wire' = [wire EXCEPT ![x] = Tail(@)]
    /\ UNCHANGED <<still, up, enc, dec, sockVars, dataVars>>

\* The decoder takes a unit: the next of its block, which may complete a chunk,
\* or the end of the frame, whose checksum must match.
Good(d, u) ==
    /\ ~d.whole
    /\ IF u.chunk = 0 THEN d.part = 0 /\ u.sum = d.chunks ELSE u.part = d.part + 1
Decoded(d, u) ==
    IF u.chunk = 0 THEN [d EXCEPT !.whole = TRUE]
    ELSE IF u.part = BlockUnits THEN [d EXCEPT !.part = 0, !.chunks = Append(@, u.chunk)]
    ELSE [d EXCEPT !.part = u.part]
Decode(x) ==
    /\ down[x] = "copy" /\ reader[x].pending # <<>>
    /\ reader' = [reader EXCEPT ![x].pending = Tail(@)]
    /\ LET u == Head(reader[x].pending)
       IN  /\ dec' = [dec EXCEPT ![x] = Decoded(@, u)]
           /\ IF ~Good(dec[x], u) THEN DownEnds(x, "codec")
              ELSE DownGoes(x, IF u.part = BlockUnits THEN "write" ELSE "copy")
    /\ UNCHANGED <<still, up, enc, wire, sockVars, dataVars>>

\* deadlineWriter.Write: what was decoded reaches the local peer.
WriteLocal(x) ==
    /\ down[x] = "write" /\ tcp[x] /\ local[x] # "reset"
    /\ got' = [got EXCEPT ![x][lease[x]] = Append(@, Last(dec[x].chunks))]
    /\ DownGoes(x, "copy")
    /\ UNCHANGED <<still, up, codecVars, wire, sockVars, sent, eof, over>>

\* The copy ends at EOF or, as the decoder may, at the end of its frame; finish
\* then finds nothing left, and FIN read or still to be read.  To the decoder an
\* empty stream is a whole one.
AtBoundary(d) == d.whole \/ d = NewDec
CopyEnds(x) ==
    /\ down[x] = "copy"
    /\ dec[x].whole \/ (reader[x].fin /\ reader[x].pending = <<>>)
    /\ IF AtBoundary(dec[x]) /\ reader[x].pending = <<>>
       THEN DownGoes(x, IF reader[x].fin THEN "halfclose" ELSE "finish")
       ELSE DownEnds(x, "codec")
    /\ UNCHANGED <<still, up, codecVars, wire, sockVars, dataVars>>
Finish(x) ==
    /\ down[x] = "finish"
    /\ tun[x] /\ wire[x] # <<>>
    /\ LET f == Head(wire[x])
       IN  IF f.type = "FIN" /\ f.id = lease[x] THEN DownGoes(x, "halfclose") ELSE DownEnds(x, "codec")
    /\ reader' = [reader EXCEPT ![x].fin = TRUE]
    /\ wire' = [wire EXCEPT ![x] = Tail(@)]
    /\ UNCHANGED <<still, up, enc, dec, sockVars, dataVars>>

\* CloseWrite tells the local peer that the stream has ended; one that has
\* already reset the socket is no failure.
NoHalfClose(x) ==
    /\ down[x] = "halfclose" /\ tcp[x]
    /\ DownEnds(x, "ok")
    /\ UNCHANGED <<still, up, codecVars, wire, sockVars, dataVars>>
HalfClose(x) ==
    /\ down[x] = "halfclose" /\ tcp[x]
    /\ over' = [over EXCEPT ![x] = @ \cup {lease[x]}]
    /\ DownEnds(x, "ok")
    /\ UNCHANGED <<still, up, codecVars, wire, sockVars, sent, got, eof>>

DownFails(x) ==
    /\ \/ down[x] = "copy" /\ reader[x].pending = <<>> /\ ~reader[x].fin /\ ReadBroken(x)
       \/ down[x] = "finish" /\ ReadBroken(x)
       \/ down[x] = "write" /\ (~tcp[x] \/ local[x] = "reset")
       \/ down[x] = "halfclose" /\ ~tcp[x]
    /\ DownEnds(x, "io")
    /\ UNCHANGED <<still, up, codecVars, wire, sockVars, dataVars>>

\* A write deadline of 30 seconds passes: in frameWriter, deadlineWriter or at FIN.
WriteTimesOut(x) ==
    /\ Fault
    /\ \/ up[x].at \in {"flush", "close", "fin"} /\ UpEnds(x, "io") /\ UNCHANGED down
       \/ down[x] = "write" /\ DownEnds(x, "io") /\ UNCHANGED up
    /\ UNCHANGED <<runVars, codecVars, wire, sockVars, dataVars>>

-----------------------------------------------------------------------------
(* Run collects the two results.                                             *)

\* The first result; a failure aborts, so that the other pump ends too.
TakeFirst(x) ==
    /\ run[x] = "first" /\ results[x] # <<>>
    /\ first' = [first EXCEPT ![x] = Head(results[x])]
    /\ results' = [results EXCEPT ![x] = Tail(@)]
    /\ run' = [run EXCEPT ![x] = "second"]
    /\ IF first'[x] = "ok" THEN UNCHANGED <<tcp, tun>> ELSE Abort(x)
    /\ UNCHANGED <<faults, lease, up, down, codecVars, wire, local, dataVars>>

\* The second.  After two good ones the Relay is ready for the next lease and
\* the caller closes the local socket; else its codec is closed.
TakeSecond(x) ==
    /\ run[x] = "second" /\ results[x] # <<>>
    /\ LET good == first[x] = "ok" /\ Head(results[x]) = "ok"
       IN  /\ run' = [run EXCEPT ![x] = IF good THEN Idle ELSE "failed"]
           /\ dec' = [dec EXCEPT ![x] = NewDec]
           /\ IF good THEN UNCHANGED <<reader, enc>>
              ELSE /\ reader' = [reader EXCEPT ![x] = NewReader]
                   /\ enc' = [enc EXCEPT ![x] = <<>>]
           /\ tun' = [tun EXCEPT ![x] = @ /\ good]
    /\ tcp' = [tcp EXCEPT ![x] = FALSE]
    /\ results' = [results EXCEPT ![x] = Tail(@)]
    /\ first' = [first EXCEPT ![x] = "ok"] /\ local' = [local EXCEPT ![x] = "open"]
    /\ UNCHANGED <<faults, lease, up, down, wire, dataVars>>

-----------------------------------------------------------------------------
UpStep(x) == ReadEnd(x) \/ WriteFrame(x) \/ WriteFin(x) \/ UpFails(x)
DownStep(x) ==
    \/ Receives(x) \/ Decode(x) \/ WriteLocal(x) \/ CopyEnds(x)
    \/ Finish(x) \/ HalfClose(x) \/ DownFails(x)
RunStep(x) == Start(x) \/ TakeFirst(x) \/ TakeSecond(x)
LocalStep(x) == ReadLocal(x) \/ LocalEnds(x)
GoesWrong(x) == LocalResets(x) \/ Forced(x) \/ Cancelled(x) \/ WriteTimesOut(x)

\* No lease is running; the next may never come.
Quiet == (\A x \in End : ~Running(x)) /\ UNCHANGED vars

Next ==
    \/ \E x \in End : \/ UpStep(x) \/ DownStep(x) \/ RunStep(x) \/ LocalStep(x)
                      \/ GoesWrong(x)
    \/ Quiet

Spec == Init /\ [][Next]_vars

(***************************************************************************)
(* Fairness.  The goroutines run, and a local service that has received    *)
(* the end of its input ends its output.  That the receiving pumps go on   *)
(* assumes that both local peers read what is written to them.  Visitors   *)
(* need not send or end anything, and no deadline is assumed to pass.      *)
(***************************************************************************)
Replies == lease[C] \in over[C] /\ LocalEnds(C)
Fairness ==
    /\ \A x \in End : WF_vars(UpStep(x)) /\ WF_vars(DownStep(x)) /\ WF_vars(RunStep(x))
    /\ WF_vars(Replies)
FairSpec == Spec /\ Fairness

-----------------------------------------------------------------------------
(* Properties.                                                              *)

Frames == [type : {"DATA", "FIN"}, id : Lease,
           units : Seq([chunk : {0} \cup Chunk, part : 0..BlockUnits, sum : Seq(Chunk)])]

\* Every variable has its type; the frames under way fit the socket buffers, and
\* errorsCh never holds more than its two results.
TypeOK ==
    /\ lease \in [End -> 0..MaxLease] /\ run \in [End -> {Idle, "first", "second", "failed"}]
    /\ first \in [End -> Result]
    /\ \A x \in End : results[x] \in Seq(Result) /\ Len(results[x]) <= 2
    /\ \A x \in End : up[x].at \in {"read", "flush", "close", "fin", "ended"}
    /\ down \in [End -> {"copy", "write", "finish", "halfclose", "ended"}]
    /\ \A x \in End : wire[x] \in Seq(Frames) /\ Len(wire[x]) <= WireMax
    /\ \A x \in End : \A i \in DOMAIN wire[x] : Len(wire[x][i].units) <= FrameMax
    /\ local \in [End -> {"open", "eof", "reset"}]
    /\ tcp \in [End -> BOOLEAN] /\ tun \in [End -> BOOLEAN] /\ faults \in 0..MaxFaults

\* The reused codec never fails by itself: whatever happened to the leases before,
\* each stream decodes to its end, its checksum matches and no frame of another
\* lease is met.  Every failure is one of a socket.
NoCodecError ==
    \A x \in End : first[x] # "codec" /\ \A i \in DOMAIN results[x] : results[x][i] # "codec"

\* Compression, framing, sockets and reuse together are the pair of streams that
\* Duplex describes: what the local peers receive is a prefix of what was sent,
\* and an end of stream is seen only after all of it.
Abs == INSTANCE Duplex WITH sent <- sent, got <- got, eof <- eof, over <- over
ImplementsDuplex == Abs!Spec

\* A failed pump ends the other and with it Run, though that one is blocked on a
\* socket whose peer neither sends nor closes (relay.go abort).
FailureEndsRun ==
    \A x \in End : run[x] = "second" /\ first[x] # "ok" ~> run[x] = "failed"

\* A visitor that ends its stream ends its lease, through both relays and the
\* service's reply to the end of its input: no deadline is needed, if both the
\* visitor and the service read what they are sent.
HalfCloseEndsLease == Running(S) /\ local[S] = "eof" ~> ~Running(S)
=============================================================================
