------------------------------- MODULE Stream -------------------------------
(***************************************************************************)
(* One direction of a noise connection: WriteFrame and ReadFrame           *)
(* (protocol/frame.go) over the records of noiseConn.Write and Read        *)
(* (transport/noise.go) over TCP.  A frame is two Writes, header and       *)
(* payload, and a Write takes several records; a Read returns what is left *)
(* of one.  A byte is a record of its frame, its place in it and the       *)
(* length the frame's header announces.  The cipher detects every change   *)
(* to the records and to their order: a record carries its number.         *)
(***************************************************************************)
EXTENDS Integers, Sequences, SequencesExt

CONSTANTS
    Header,     \* bytes of a frame header, 13 in the code
    MaxPayload, \* 32768
    Chunk,      \* 32768, the most plaintext of a record
    Tag,        \* 16, what the cipher adds to it
    MaxFrames,  \* bound: frames written
    MaxFaults   \* bound: what goes wrong

ASSUME StreamAssumption ==
    /\ {Header, Chunk} \subseteq Nat \ {0} /\ {MaxPayload, Tag, MaxFrames, MaxFaults} \subseteq Nat

VARIABLES
    sent,      \* payload lengths of the frames given to WriteFrame
    calls,     \* what WriteFrame still has to give to Write, and Write to TCP
    sendN,     \* records encrypted
    wire,      \* records under way; the last may be cut short
    recvN,     \* records decrypted
    pending,   \* noiseConn.pending
    buf,       \* bytes of the frame that ReadFrame is reading
    received,  \* payload lengths of the frames ReadFrame returned
    open,      \* whether the two ends are open
    failed,    \* ReadFrame has returned an error
    faults

writeVars == <<sent, calls, sendN>>
readVars  == <<recvN, pending, buf, received, failed>>
vars == <<writeVars, wire, readVars, open, faults>>

W == "writer"
R == "reader"
Garbled == MaxPayload + 1   \* what ReadFrame would return of bytes that are no frame

Init ==
    /\ sent = <<>> /\ calls = <<>> /\ sendN = 0
    /\ wire = <<>>
    /\ recvN = 0 /\ pending = <<>> /\ buf = <<>> /\ received = <<>> /\ failed = FALSE
    /\ open = [e \in {W, R} |-> TRUE] /\ faults = 0

Byte(f, i, n) == [frame |-> f, at |-> i, size |-> n]
Bytes(f, n) == [i \in 1..(Header + n) |-> Byte(f, i, n)]

-----------------------------------------------------------------------------
(* Writing.                                                                 *)

\* WriteFrame writes the header and then, if there is any, the payload.
WriteFrame(n) ==
    /\ calls = <<>> /\ open[W] /\ Len(sent) < MaxFrames
    /\ sent' = Append(sent, n)
    /\ LET b == Bytes(Len(sent) + 1, n)
       IN  calls' = <<SubSeq(b, 1, Header)>>
                    \o (IF n = 0 THEN <<>> ELSE <<SubSeq(b, Header + 1, Header + n)>>)
    /\ UNCHANGED <<sendN, wire, readVars, open, faults>>

\* noiseConn.Write: one record after another.
RecordSize == IF Len(Head(calls)) < Chunk THEN Len(Head(calls)) ELSE Chunk
NextRecord == [n |-> sendN, bytes |-> SubSeq(Head(calls), 1, RecordSize), intact |-> TRUE]
WriteRecord ==
    /\ calls # <<>> /\ open[W]
    /\ wire' = Append(wire, NextRecord)
    /\ sendN' = sendN + 1
    /\ LET rest == SubSeq(Head(calls), RecordSize + 1, Len(Head(calls)))
       IN  calls' = IF rest = <<>> THEN Tail(calls) ELSE <<rest>> \o Tail(calls)
    /\ UNCHANGED <<sent, readVars, open, faults>>

\* fullWrite fails: part of the record may have gone out, and the end is closed.
WriteFailsQuietly ==
    /\ calls # <<>> /\ open[W] /\ (~open[R] \/ faults < MaxFaults)
    /\ faults' = IF open[R] THEN faults + 1 ELSE faults
    /\ calls' = <<>>
    /\ UNCHANGED <<sent, sendN, wire, open, readVars>>
WriteFails ==
    /\ calls # <<>> /\ open[W] /\ (~open[R] \/ faults < MaxFaults)
    /\ faults' = IF open[R] THEN faults + 1 ELSE faults
    /\ wire' \in {wire, Append(wire, [NextRecord EXCEPT !.intact = FALSE])}
    /\ open' = [open EXCEPT ![W] = FALSE]
    /\ UNCHANGED <<writeVars, readVars>>

-----------------------------------------------------------------------------
(* Reading.                                                                 *)

\* What ReadFull in ReadFrame still wants: the header, then the payload.
Missing == IF Len(buf) < Header THEN Header - Len(buf)
           ELSE Header + buf[Header].size - Len(buf)

\* noiseConn.Read with nothing pending reads a record.
NothingChecked == TRUE
Nothing == pending = <<>>
LengthOK(n) == n >= Tag + 1 /\ n <= Chunk + Tag
Good(r) == r.intact /\ LengthOK(Len(r.bytes) + Tag) /\ r.n = recvN
ReadRecord ==
    /\ open[R] /\ ~failed /\ Missing > 0 /\ Nothing
    /\ wire # <<>> /\ Good(Head(wire))
    /\ pending' = Head(wire).bytes
    /\ recvN' = recvN + 1
    /\ wire' = Tail(wire)
    /\ UNCHANGED <<writeVars, buf, received, failed, open, faults>>

\* A record that is cut short, too long, changed or out of turn, or the end of the
\* stream; or a deadline: noiseConn closes itself and ReadFrame fails.
Waiting == ~failed /\ Missing > 0 /\ pending = <<>>
Fails ==
    /\ failed' = TRUE
    /\ open' = [open EXCEPT ![R] = FALSE]
    /\ UNCHANGED <<writeVars, wire, recvN, pending, buf, received>>
ReadFails ==
    /\ Waiting
    /\ \/ ~open[R] \/ (wire = <<>> /\ ~open[W])
       \/ wire # <<>> /\ ~Good(Head(wire))
    /\ Fails /\ UNCHANGED faults
ReadTimesOut == Waiting /\ faults < MaxFaults /\ faults' = faults + 1 /\ Fails

\* Read copies what is pending and wanted.
Take ==
    /\ ~failed /\ pending # <<>> /\ Missing > 0
    /\ LET n == IF Len(pending) < Missing THEN Len(pending) ELSE Missing
       IN  buf' = buf \o SubSeq(pending, 1, n) /\ pending' = SubSeq(pending, n + 1, Len(pending))
    /\ UNCHANGED <<writeVars, wire, recvN, received, failed, open, faults>>

\* ReadFrame returns.
Result == IF buf = Bytes(buf[1].frame, buf[1].size) THEN buf[1].size ELSE Garbled
Deliver ==
    /\ ~failed /\ Missing = 0
    /\ received' = Append(received, Result)
    /\ buf' = <<>>
    /\ UNCHANGED <<writeVars, wire, recvN, pending, failed, open, faults>>

-----------------------------------------------------------------------------
(* What can go wrong between the ends, and an end that is closed.           *)

Fault == faults < MaxFaults /\ faults' = faults + 1
Close(e) ==
    /\ Fault /\ open[e]
    /\ open' = [open EXCEPT ![e] = FALSE]
    /\ UNCHANGED <<writeVars, wire, readVars>>
\* A record is changed or repeated, or one is lost before another.
Damage ==
    /\ Fault
    /\ \E i \in DOMAIN wire :
          \/ wire' \in {[wire EXCEPT ![i].intact = FALSE], InsertAt(wire, i, wire[i])}
          \/ i < Len(wire) /\ wire' = RemoveAt(wire, i)
    /\ UNCHANGED <<writeVars, readVars, open>>

Finished ==
    /\ failed \/ (calls = <<>> /\ Len(sent) = MaxFrames /\ Len(received) = MaxFrames)
    /\ UNCHANGED vars

Next ==
    \/ \E n \in 0..MaxPayload : WriteFrame(n)
    \/ WriteRecord \/ WriteFails \/ ReadRecord \/ ReadFails \/ ReadTimesOut \/ Take \/ Deliver
    \/ (\E e \in {W, R} : Close(e)) \/ Damage \/ Finished

Spec == Init /\ [][Next]_vars

\* The two goroutines run; nothing is assumed of deadlines.
Fairness ==
    /\ WF_vars(WriteRecord) /\ WF_vars(ReadRecord) /\ WF_vars(Take) /\ WF_vars(Deliver)
    /\ WF_vars(ReadFails)
FairSpec == Spec /\ Fairness

-----------------------------------------------------------------------------
(* Properties.                                                              *)

AByte == [frame : 1..MaxFrames, at : 1..(Header + MaxPayload), size : 0..MaxPayload]

\* Every variable has its type: what is read fits the arrays plain, cipher and
\* readBuf, and a record's length its two bytes.
TypeOK ==
    /\ sent \in Seq(0..MaxPayload) /\ received \in Seq(0..Garbled)
    /\ calls \in Seq(Seq(AByte)) /\ pending \in Seq(AByte) /\ Len(pending) <= Chunk
    /\ \A i \in DOMAIN wire : wire[i].bytes \in Seq(AByte) /\ Len(wire[i].bytes) \in 1..Chunk
    /\ buf \in Seq(AByte) /\ Len(buf) <= Header + MaxPayload
    /\ sendN \in Nat /\ recvN \in 0..sendN /\ faults \in 0..MaxFaults

\* Frames arrive whole, in order and once, and none after an error, whatever the
\* sizes, the record boundaries and the damage; and no stream is refused that
\* nothing has disturbed: the stream implements Channel.
Ch == INSTANCE Channel WITH Frame <- 0..MaxPayload, disturbed <- faults > 0, broken <- failed
ImplementsChannel == Ch!Spec

\* What is written arrives, unless something disturbs the stream, and then the
\* reader comes to see it: no frame is stuck between the layers, and an undisturbed
\* stream delivers all of them.
EveryFrameArrives ==
    \A n \in 1..MaxFrames : Len(sent) >= n ~> Len(received) >= n \/ (failed /\ faults > 0)
=============================================================================
