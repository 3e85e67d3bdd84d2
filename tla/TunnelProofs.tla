---------------------------- MODULE TunnelProofs ----------------------------
(***************************************************************************)
(* The safety of the frame protocol on one tunnel connection, for any      *)
(* number of leases and of DATA frames: no read meets a frame it does not  *)
(* accept, both ends are in the same lease, no deadline is left behind, a  *)
(* retirement is no failure, and what the two ends record of a lease       *)
(* agrees.                                                                 *)
(***************************************************************************)
EXTENDS Tunnel, TLAPS

-----------------------------------------------------------------------------
(* The frames on their way.                                                 *)

Empty(q) == Len(q) = 0
Only(q, f) == Len(q) = 1 /\ q[1] = f

(***************************************************************************)
(* What a pump has written and the other end has not read, in lease i: the *)
(* answer to OPEN if ok, DATA frames, then FIN if fin, then RELEASE if rel.*)
(***************************************************************************)
One(b) == IF b THEN 1 ELSE 0
Flow(q, i, ok, fin, rel) ==
    /\ Len(q) >= One(ok) + One(fin) + One(rel)
    /\ ok => q[1] = Plain("OPEN_OK", i)
    /\ \A j \in 1 + One(ok)..Len(q) - One(fin) - One(rel) : q[j] = Plain("DATA", i)
    /\ fin => q[Len(q) - One(rel)] = Plain("FIN", i)
    /\ rel => q[Len(q)] = Plain("RELEASE", i)

\* One direction of a relay: no frame of the pump is left once its FIN is read.
Pipe(q, i, sent, got, rel) ==
    \/ ~got /\ Flow(q, i, FALSE, sent, rel)
    \/ got /\ sent /\ (IF rel THEN Only(q, Plain("RELEASE", i)) ELSE Empty(q))

(***************************************************************************)
(* While both goroutines run: where they are and what is on its way.       *)
(***************************************************************************)
Are(c, s) == pc[C] = c /\ pc[S] = s
Quiet == Empty(inbox[S]) /\ Empty(inbox[C])
ToServer(f) == Only(inbox[S], f) /\ Empty(inbox[C])
ToClient(f) == Only(inbox[C], f) /\ Empty(inbox[S])
Level == last[S] = last[C]
Dials(c, s) == noDial[C] = c /\ noDial[S] = s

Registering ==
    /\ Level
    /\ \/ Are("start", "hello") /\ Quiet
       \/ Are("hello", "hello") /\ ToServer(Plain("HELLO", 0))
       \/ Are("hello", "ready") /\ ToClient(Plain("HELLO_OK", 0))
       \/ Are("idle", "ready")  /\ ToServer(Plain("READY", 0))
Idling ==
    /\ Level
    /\ \/ (Are("idle", "idle") \/ Are("idle", "expiring")) /\ Quiet
       \/ Are("idle", "ping") /\ ToClient(Frame("PING", 0, nonce))
       \/ Are("idle", "ping") /\ ToServer(Frame("PONG", 0, nonce))
Opening ==
    /\ ~noDial[S]
    /\ \/ /\ Are("idle", "open") /\ last[S] = last[C] + 1
          /\ ToClient(Plain("OPEN", last[S]))
       \/ Level /\ Are("dial", "open") /\ Quiet /\ ~noDial[C]
       \/ Level /\ Are("barrier", "open") /\ ToServer(Plain("OPEN_ERR", last[C])) /\ noDial[C]
       \/ /\ Level /\ Are("relay", "open") /\ Empty(inbox[C]) /\ ~noDial[C]
          /\ ~gotFin[C] /\ Flow(inbox[S], last[S], TRUE, sentFin[C], FALSE)
Relaying ==
    /\ Level /\ Dials(FALSE, FALSE)
    /\ pc[C] = "relay" \/ (pc[C] = "barrier" /\ Relayed(C))
    /\ Pipe(inbox[S], last[S], sentFin[C], gotFin[S], FALSE)
    /\ \/ pc[S] = "relay" /\ Pipe(inbox[C], last[C], sentFin[S], gotFin[C], FALSE)
       \/ pc[S] = "barrier" /\ Relayed(S) /\ Pipe(inbox[C], last[C], sentFin[S], gotFin[C], TRUE)
Releasing ==
    /\ Level
    /\ \/ Are("barrier", "barrier") /\ Dials(TRUE, TRUE) /\ ToClient(Plain("RELEASE", last[S]))
       \/ Are("idle", "barrier") /\ ToServer(Plain("READY", last[S]))

Joint == Registering \/ Idling \/ Opening \/ Relaying \/ Releasing

(***************************************************************************)
(* When only one goroutine is left: what it can still read.                *)
(***************************************************************************)
ServerReads ==
    LET q == inbox[S]
    IN  \/ Empty(q) /\ pc[S] \in {"hello", "ready", "idle", "ping", "expiring", "open", "relay", "barrier"}
        \/ pc[S] = "hello" /\ Only(q, Plain("HELLO", 0))
        \/ pc[S] = "ready" /\ Only(q, Plain("READY", 0))
        \/ pc[S] = "ping"  /\ Only(q, Frame("PONG", 0, nonce))
        \/ pc[S] = "open"  /\ Only(q, Plain("OPEN_ERR", last[S]))
        \/ pc[S] = "open"  /\ \E fin \in BOOLEAN : Flow(q, last[S], TRUE, fin, FALSE)
        \/ pc[S] = "relay" /\ ~gotFin[S] /\ \E fin \in BOOLEAN : Flow(q, last[S], FALSE, fin, FALSE)
        \/ pc[S] = "barrier" /\ (Only(q, Plain("READY", last[S])) \/ Only(q, Plain("CLOSE", 0)))
ClientReads ==
    LET q == inbox[C]
    IN  \/ Empty(q) /\ pc[C] \in {"start", "hello", "idle", "dial", "relay", "barrier"}
        \/ pc[C] = "hello" /\ (Only(q, Plain("HELLO_OK", 0)) \/ Only(q, Plain("HELLO_ERR", 0)))
        \/ pc[C] = "idle"  /\ \/ Only(q, Plain("CLOSE", 0))
                              \/ \E n \in {0, 1} : Only(q, Frame("PING", 0, n))
                              \/ last[C] < MaxID /\ Only(q, Plain("OPEN", last[C] + 1))
        \/ /\ pc[C] = "relay" /\ ~gotFin[C]
           /\ \E fin, rel \in BOOLEAN : (rel => fin) /\ Flow(q, last[C], FALSE, fin, rel)
        \/ /\ pc[C] = "barrier" \/ (pc[C] = "relay" /\ gotFin[C])
           /\ Only(q, Plain("RELEASE", last[C]))

Running(x) == pc[x] # "gone"
Wire ==
    /\ Running(S) /\ Running(C) => Joint
    /\ Running(S) /\ ~Running(C) => ServerReads
    /\ Running(C) /\ ~Running(S) => ClientReads

-----------------------------------------------------------------------------
(* Deadlines, ends and outcomes.                                            *)

Deadlines == NoStaleDeadline /\ (pc[C] = "dial" => ~armed[C])

\* A retired connection leaves nothing behind but CLOSE.
Ends ==
    /\ \A x \in End : /\ why[x] = "running" <=> Running(x)
                      /\ pc[x] = "gone" => closed[x]
                      /\ why[x] = "error" => closed[Peer(x)]
    /\ why[S] = "expired" /\ Running(C) => pc[C] = "idle" /\ ToClient(Plain("CLOSE", 0))
    /\ why[C] = "surplus" /\ Running(S) => pc[S] = "barrier" /\ ToServer(Plain("CLOSE", 0))
    /\ RetirementIsClean

\* A lease is recorded once, when it is over.
Unrecorded ==
    \A x \in End : \A i \in 1..MaxID :
        i > last[x] \/ (i = last[x] /\ pc[x] \in InLease) => outcome[x][i] = "none"
LeaseIDs == \A x \in End : pc[x] \in InLease => last[x] \in 1..MaxID

\* The answer the server waits for at the barrier says what the client has recorded.
BarrierAnswer ==
    pc[S] = "barrier" /\ ~Empty(inbox[S]) =>
        /\ inbox[S][1] = Plain("READY", last[S]) => outcome[C][last[S]] = Finished(S)
        /\ inbox[S][1] = Plain("CLOSE", 0) => outcome[C][last[S]] \in {"ok", "dial_failed"}

Outcomes == Unrecorded /\ LeaseIDs /\ BarrierAnswer /\ OutcomesAgree

IInv == TypeOK /\ Wire /\ Deadlines /\ Ends /\ Outcomes

-----------------------------------------------------------------------------
(* Writing and reading one frame.                                           *)

Pushed(q, f, r) == Len(r) = Len(q) + 1 /\ r[Len(r)] = f /\ \A j \in 1..Len(q) : r[j] = q[j]
Popped(q, r) == Len(q) > 0 /\ Len(r) = Len(q) - 1 /\ \A j \in 1..Len(r) : r[j] = q[j + 1]

\* There are two ends, each the other's peer.
LEMMA EndFacts == S # C /\ End = {S, C} /\ Peer(S) = C /\ Peer(C) = S
  BY DEF S, C, End, Peer

\* What the ends build are frames.
LEMMA FrameType ==
    ASSUME NEW t \in {"HELLO", "HELLO_OK", "HELLO_ERR", "READY", "OPEN", "OPEN_OK", "OPEN_ERR",
                      "DATA", "FIN", "RELEASE", "PING", "PONG", "CLOSE"},
           NEW i \in 0..MaxID, NEW n \in {0, 1}
    PROVE  /\ Frame(t, i, n) \in AnyFrame /\ Plain(t, i) \in AnyFrame
           /\ Frame(t, i, n).type = t /\ Frame(t, i, n).id = i /\ Frame(t, i, n).nonce = n
           /\ Plain(t, i).type = t /\ Plain(t, i).id = i /\ Plain(t, i).nonce = 0
  BY DEF Frame, Plain, AnyFrame

\* The frames of a lease are frames.
LEMMA PlainType ==
    ASSUME NEW i \in 0..MaxID,
           NEW t \in {"READY", "OPEN", "OPEN_OK", "OPEN_ERR", "DATA", "FIN", "RELEASE"}
    PROVE  Plain(t, i) \in AnyFrame
  BY DEF Plain, Frame, AnyFrame

\* A frame is determined by its three fields.
LEMMA FrameFields ==
    ASSUME NEW f \in AnyFrame
    PROVE  f = Frame(f.type, f.id, f.nonce)
  BY DEF Frame, AnyFrame

\* What appending a frame does, place by place.
LEMMA PushSeq ==
    ASSUME NEW q \in Seq(AnyFrame), NEW f \in AnyFrame
    PROVE  q \o <<f>> \in Seq(AnyFrame) /\ Pushed(q, f, q \o <<f>>)
  BY DEF Pushed

\* What reading a frame does, place by place.
LEMMA PopSeq ==
    ASSUME NEW q \in Seq(AnyFrame), q # <<>>
    PROVE  /\ Tail(q) \in Seq(AnyFrame) /\ Popped(q, Tail(q))
           /\ Head(q) = q[1] /\ Len(q) \in Nat \ {0} /\ q[1] \in AnyFrame
  BY DEF Popped

\* A write reaches the end of the peer's inbox and nothing else.
LEMMA WriteEffect ==
    ASSUME TypeOK, NEW x \in End, NEW f \in AnyFrame, Write(x, <<f>>)
    PROVE  /\ inbox' \in [End -> Seq(AnyFrame)]
           /\ inbox'[x] = inbox[x] /\ Pushed(inbox[Peer(x)], f, inbox'[Peer(x)])
<1>1. inbox[x] \in Seq(AnyFrame) /\ inbox[Peer(x)] \in Seq(AnyFrame) /\ Peer(x) \in End /\ Peer(x) # x
  BY EndFacts DEF TypeOK
<1>2. inbox' = [inbox EXCEPT ![Peer(x)] = inbox[Peer(x)] \o <<f>>]
  BY DEF Write
<1>3. /\ inbox[Peer(x)] \o <<f>> \in Seq(AnyFrame)
      /\ Pushed(inbox[Peer(x)], f, inbox[Peer(x)] \o <<f>>)
  BY <1>1, PushSeq
<1> QED
  BY <1>1, <1>2, <1>3 DEF TypeOK

\* A read takes the head of the reader's inbox and nothing else.
LEMMA ReadEffect ==
    ASSUME TypeOK, NEW x \in End, inbox[x] # <<>>, Answer(x, <<>>)
    PROVE  /\ inbox' \in [End -> Seq(AnyFrame)]
           /\ inbox'[Peer(x)] = inbox[Peer(x)] /\ Popped(inbox[x], inbox'[x])
<1>1. inbox[x] \in Seq(AnyFrame) /\ inbox[Peer(x)] \in Seq(AnyFrame) /\ Peer(x) \in End /\ Peer(x) # x
  BY EndFacts DEF TypeOK
<1>2. inbox[Peer(x)] \o <<>> = inbox[Peer(x)]
  BY <1>1
<1>3. inbox' = [inbox EXCEPT ![x] = Tail(inbox[x]), ![Peer(x)] = inbox[Peer(x)]]
  BY <1>1, <1>2 DEF Answer, TypeOK
<1>4. Tail(inbox[x]) \in Seq(AnyFrame) /\ Popped(inbox[x], Tail(inbox[x]))
  BY <1>1, PopSeq
<1> QED
  BY <1>1, <1>3, <1>4 DEF TypeOK

\* A read that is answered does both.
LEMMA AnswerEffect ==
    ASSUME TypeOK, NEW x \in End, inbox[x] # <<>>, NEW f \in AnyFrame, Answer(x, <<f>>)
    PROVE  /\ inbox' \in [End -> Seq(AnyFrame)]
           /\ Popped(inbox[x], inbox'[x]) /\ Pushed(inbox[Peer(x)], f, inbox'[Peer(x)])
<1>1. inbox[x] \in Seq(AnyFrame) /\ inbox[Peer(x)] \in Seq(AnyFrame) /\ Peer(x) \in End /\ Peer(x) # x
  BY EndFacts DEF TypeOK
<1>2. inbox' = [inbox EXCEPT ![x] = Tail(inbox[x]), ![Peer(x)] = inbox[Peer(x)] \o <<f>>]
  BY <1>1 DEF Answer, TypeOK
<1>3. Tail(inbox[x]) \in Seq(AnyFrame) /\ Popped(inbox[x], Tail(inbox[x]))
  BY <1>1, PopSeq
<1>4. /\ inbox[Peer(x)] \o <<f>> \in Seq(AnyFrame)
      /\ Pushed(inbox[Peer(x)], f, inbox[Peer(x)] \o <<f>>)
  BY <1>1, PushSeq
<1> QED
  BY <1>1, <1>2, <1>3, <1>4 DEF TypeOK

\* The frame that Reads has found.
LEMMA ReadsHead ==
    ASSUME TypeOK, NEW x \in End, NEW p, NEW t, NEW i, Reads(x, p, t, i)
    PROVE  /\ inbox[x] # <<>> /\ Len(inbox[x]) \in Nat \ {0} /\ pc[x] = p /\ ~closed[x]
           /\ inbox[x][1] \in AnyFrame /\ inbox[x][1].type = t /\ inbox[x][1].id = i
           /\ Head(inbox[x]) = inbox[x][1]
  BY PopSeq DEF Reads, At, TypeOK

-----------------------------------------------------------------------------
(* The frames of a pump.                                                    *)

\* A direction of a lease begins empty, or with OPEN_OK.
LEMMA FlowStarts ==
    ASSUME NEW q \in Seq(AnyFrame), NEW i
    PROVE  /\ Empty(q) => Flow(q, i, FALSE, FALSE, FALSE)
           /\ Only(q, Plain("OPEN_OK", i)) => Flow(q, i, TRUE, FALSE, FALSE)
  BY DEF Empty, Only, Flow, One

\* The pump appends DATA, then FIN.
LEMMA FlowGrows ==
    ASSUME NEW q \in Seq(AnyFrame), NEW r \in Seq(AnyFrame), NEW i, NEW ok \in BOOLEAN
    PROVE  /\ Flow(q, i, ok, FALSE, FALSE) /\ Pushed(q, Plain("DATA", i), r) => Flow(r, i, ok, FALSE, FALSE)
           /\ Flow(q, i, ok, FALSE, FALSE) /\ Pushed(q, Plain("FIN", i), r) => Flow(r, i, ok, TRUE, FALSE)
<1>1. Flow(q, i, ok, FALSE, FALSE) /\ Pushed(q, Plain("DATA", i), r) => Flow(r, i, ok, FALSE, FALSE)
  BY DEF Pushed, Flow, One
<1>2. Flow(q, i, ok, FALSE, FALSE) /\ Pushed(q, Plain("FIN", i), r) => Flow(r, i, ok, TRUE, FALSE)
  BY DEF Pushed, Flow, One
<1> QED
  BY <1>1, <1>2

\* The barrier's RELEASE comes after whatever is left of the pump's.
LEMMA FlowReleased ==
    ASSUME NEW q \in Seq(AnyFrame), NEW r \in Seq(AnyFrame), NEW i, NEW fin \in BOOLEAN,
           Flow(q, i, FALSE, fin, FALSE), Pushed(q, Plain("RELEASE", i), r)
    PROVE  Flow(r, i, FALSE, fin, TRUE)
  BY DEF Pushed, Flow, One

\* After OPEN_OK is read what is left is the pump's.
LEMMA FlowAnswered ==
    ASSUME NEW q \in Seq(AnyFrame), NEW r \in Seq(AnyFrame), NEW i \in 0..MaxID, NEW fin \in BOOLEAN,
           Popped(q, r), Flow(q, i, TRUE, fin, FALSE)
    PROVE  Flow(r, i, FALSE, fin, FALSE)
  BY DEF Popped, Flow, One

\* Reading DATA leaves a direction as it was.
LEMMA FlowShrinks ==
    ASSUME NEW q \in Seq(AnyFrame), NEW r \in Seq(AnyFrame), NEW i \in 0..MaxID,
           NEW fin \in BOOLEAN, NEW rel \in BOOLEAN,
           Popped(q, r), Flow(q, i, FALSE, fin, rel), q[1].type = "DATA"
    PROVE  Flow(r, i, FALSE, fin, rel)
<1>1. Plain("FIN", i).type = "FIN" /\ Plain("RELEASE", i).type = "RELEASE"
  BY FrameType
<1>2. CASE fin = TRUE /\ rel = TRUE
  <2>1. /\ Len(q) >= 2 /\ \A j \in 1..Len(q) - 2 : q[j] = Plain("DATA", i)
        /\ q[Len(q) - 1] = Plain("FIN", i) /\ q[Len(q)] = Plain("RELEASE", i)
    BY <1>2 DEF Flow, One
  <2>2. Len(q) >= 3
    <3>1. Len(q) \in Nat /\ (Len(q) = 2 => Len(q) - 1 = 1)
      OBVIOUS
    <3>3. Len(q) >= 2
      BY <2>1
    <3>2. ASSUME Len(q) = 2 PROVE FALSE
      <4>1. q[1] = Plain("FIN", i)
        BY <2>1, <3>1, <3>2
      <4> QED
        BY <1>1, <4>1
    <3> QED
      BY <3>1, <3>2, <3>3 DEF Popped
  <2>3. /\ Len(r) >= 2 /\ \A j \in 1..Len(r) - 2 : r[j] = Plain("DATA", i)
        /\ r[Len(r) - 1] = Plain("FIN", i) /\ r[Len(r)] = Plain("RELEASE", i)
    <3>1. /\ Len(q) \in Nat /\ Len(r) = Len(q) - 1
          /\ \A j \in 1..Len(r) : r[j] = q[j + 1]
      BY DEF Popped
    <3>2. /\ Len(r) >= 2 /\ Len(r) \in 1..Len(r) /\ Len(r) - 1 \in 1..Len(r)
          /\ Len(r) + 1 = Len(q) /\ Len(r) - 1 + 1 = Len(q) - 1
      BY <2>2, <3>1
    <3>3. \A j \in 1..Len(r) - 2 : j \in 1..Len(r) /\ j + 1 \in 1..Len(q) - 2
      BY <3>1, <3>2
    <3> QED
      BY <2>1, <3>1, <3>2, <3>3
  <2>4. Flow(r, i, FALSE, TRUE, TRUE)
    BY <2>3 DEF Flow, One
  <2> QED
    BY <1>2, <2>4
<1>3. CASE fin = TRUE /\ rel = FALSE
  <2>1. /\ Len(q) >= 1 /\ \A j \in 1..Len(q) - 1 : q[j] = Plain("DATA", i)
        /\ q[Len(q)] = Plain("FIN", i)
    BY <1>3 DEF Flow, One
  <2>3. Len(q) # 1
    BY <1>1, <2>1
  <2>4. /\ Len(r) >= 1 /\ \A j \in 1..Len(r) - 1 : r[j] = Plain("DATA", i)
        /\ r[Len(r)] = Plain("FIN", i)
    BY <2>1, <2>3 DEF Popped
  <2>2. Flow(r, i, FALSE, TRUE, FALSE)
    BY <2>4 DEF Flow, One
  <2> QED
    BY <1>3, <2>2
<1>4. CASE fin = FALSE /\ rel = TRUE
  <2>1. Flow(q, i, FALSE, FALSE, TRUE)
    BY <1>4
  <2>2. Flow(r, i, FALSE, FALSE, TRUE)
    BY <1>1, <2>1 DEF Popped, Flow, One
  <2> QED
    BY <1>4, <2>2
<1>5. CASE fin = FALSE /\ rel = FALSE
  <2>1. Flow(q, i, FALSE, FALSE, FALSE)
    BY <1>5
  <2>2. Flow(r, i, FALSE, FALSE, FALSE)
    BY <1>1, <2>1 DEF Popped, Flow, One
  <2> QED
    BY <1>5, <2>2
<1> QED
  BY <1>2, <1>3, <1>4, <1>5

\* Nothing but the barrier's RELEASE comes after FIN.
LEMMA FlowEnds ==
    ASSUME NEW q \in Seq(AnyFrame), NEW r \in Seq(AnyFrame), NEW i \in 0..MaxID,
           NEW fin \in BOOLEAN, NEW rel \in BOOLEAN,
           Popped(q, r), Flow(q, i, FALSE, fin, rel), q[1].type = "FIN"
    PROVE  fin /\ (IF rel THEN Only(r, Plain("RELEASE", i)) ELSE Empty(r))
<1>1. Plain("DATA", i).type = "DATA" /\ Plain("RELEASE", i).type = "RELEASE"
  BY FrameType
<1>2. fin /\ Len(q) = 1 + One(rel)
  BY <1>1 DEF Popped, Flow, One
<1> QED
  BY <1>2 DEF Popped, Flow, One, Only, Empty

\* Whatever comes first of it.
LEMMA FlowHead ==
    ASSUME NEW q \in Seq(AnyFrame), Len(q) > 0, NEW i \in 0..MaxID,
           NEW ok \in BOOLEAN, NEW fin \in BOOLEAN, NEW rel \in BOOLEAN, Flow(q, i, ok, fin, rel)
    PROVE  /\ ok => q[1] = Plain("OPEN_OK", i)
           /\ ~ok /\ (rel => fin) => q[1] \in {Plain("DATA", i), Plain("FIN", i)}
           /\ ~ok => q[1] \in {Plain("DATA", i), Plain("FIN", i), Plain("RELEASE", i)}
  BY DEF Flow, One

\* One direction of a relay, before and after its FIN is read.
LEMMA PipeOpen ==
    ASSUME NEW q \in Seq(AnyFrame), NEW i \in 0..MaxID, NEW sent \in BOOLEAN, NEW got \in BOOLEAN,
           NEW rel \in BOOLEAN, ~got
    PROVE  Pipe(q, i, sent, got, rel) <=> Flow(q, i, FALSE, sent, rel)
  BY DEF Pipe

\* A direction whose FIN has been read is empty up to the barrier.
LEMMA PipeDone ==
    ASSUME NEW q \in Seq(AnyFrame), NEW i \in 0..MaxID, NEW sent \in BOOLEAN, NEW got \in BOOLEAN, got
    PROVE  /\ Pipe(q, i, sent, got, FALSE) <=> sent /\ Empty(q)
           /\ Pipe(q, i, sent, got, TRUE) <=> sent /\ Only(q, Plain("RELEASE", i))
  BY DEF Pipe

\* Writing to it.
LEMMA PipeGrows ==
    ASSUME NEW q \in Seq(AnyFrame), NEW r \in Seq(AnyFrame), NEW i \in 0..MaxID,
           NEW sent \in BOOLEAN, NEW got \in BOOLEAN, Pipe(q, i, sent, got, FALSE)
    PROVE  /\ ~sent /\ Pushed(q, Plain("DATA", i), r) => Pipe(r, i, sent, got, FALSE)
           /\ ~sent /\ Pushed(q, Plain("FIN", i), r) => Pipe(r, i, TRUE, got, FALSE)
           /\ sent /\ Pushed(q, Plain("RELEASE", i), r) => Pipe(r, i, sent, got, TRUE)
<1>1. ASSUME ~sent PROVE ~got /\ Flow(q, i, FALSE, FALSE, FALSE)
  BY <1>1 DEF Pipe
<1>2. ~sent /\ Pushed(q, Plain("DATA", i), r) => Pipe(r, i, sent, got, FALSE)
  BY <1>1, FlowGrows, PipeOpen
<1>3. ~sent /\ Pushed(q, Plain("FIN", i), r) => Pipe(r, i, TRUE, got, FALSE)
  BY <1>1, FlowGrows, PipeOpen
<1>4. ASSUME sent, Pushed(q, Plain("RELEASE", i), r) PROVE Pipe(r, i, sent, got, TRUE)
  <2>1. CASE got
    <3>1. Empty(q)
      BY <2>1, PipeDone
    <3>2. Only(r, Plain("RELEASE", i))
      BY <1>4, <3>1 DEF Pushed, Empty, Only
    <3> QED
      BY <1>4, <2>1, <3>2, PipeDone
  <2>2. CASE ~got
    <3>1. Flow(q, i, FALSE, sent, FALSE)
      BY <2>2 DEF Pipe
    <3>2. Flow(r, i, FALSE, sent, TRUE)
      BY <1>4, <3>1, FlowReleased
    <3> QED
      BY <2>2, <3>2 DEF Pipe
  <2> QED
    BY <2>1, <2>2
<1> QED
  BY <1>2, <1>3, <1>4

\* Reading from it.
LEMMA PipeShrinks ==
    ASSUME NEW q \in Seq(AnyFrame), NEW r \in Seq(AnyFrame), NEW i \in 0..MaxID,
           NEW sent \in BOOLEAN, NEW got \in BOOLEAN, NEW rel \in BOOLEAN,
           Pipe(q, i, sent, got, rel), ~got, Popped(q, r)
    PROVE  /\ q[1].type = "DATA" => Pipe(r, i, sent, got, rel)
           /\ q[1].type = "FIN" => Pipe(r, i, sent, TRUE, rel)
<1>1. Flow(q, i, FALSE, sent, rel)
  BY PipeOpen
<1>2. ASSUME q[1].type = "DATA" PROVE Pipe(r, i, sent, got, rel)
  <2>1. Flow(r, i, FALSE, sent, rel)
    BY <1>1, <1>2, FlowShrinks
  <2> QED
    BY <2>1 DEF Pipe
<1>3. ASSUME q[1].type = "FIN" PROVE Pipe(r, i, sent, TRUE, rel)
  <2>1. sent /\ (IF rel THEN Only(r, Plain("RELEASE", i)) ELSE Empty(r))
    BY <1>1, <1>3, FlowEnds
  <2> QED
    BY <2>1 DEF Pipe
<1> QED
  BY <1>2, <1>3

-----------------------------------------------------------------------------
(* What the invariant says of one end by itself.                            *)

\* While both run, each can read what is on its way to it.
LEMMA JointReads == TypeOK /\ Joint => ServerReads /\ ClientReads
<1> SUFFICES ASSUME TypeOK, Joint PROVE ServerReads /\ ClientReads
  OBVIOUS
<1>1. /\ inbox[S] \in Seq(AnyFrame) /\ inbox[C] \in Seq(AnyFrame)
      /\ last[S] \in 0..MaxID /\ last[C] \in 0..MaxID /\ nonce \in {0, 1}
      /\ gotFin[S] \in BOOLEAN /\ gotFin[C] \in BOOLEAN /\ sentFin[S] \in BOOLEAN /\ sentFin[C] \in BOOLEAN
      /\ MaxID \in Nat
  BY EndFacts, IDAssumption DEF TypeOK
<1>2. CASE Registering
  BY <1>2 DEF Registering, Are, Quiet, ToServer, ToClient, Empty, ServerReads, ClientReads
<1>3. CASE Idling
  BY <1>1, <1>3 DEF Idling, Are, Quiet, ToServer, ToClient, Empty, ServerReads, ClientReads
<1>4. CASE Opening
  <2>1. ClientReads
    <3>1. CASE Are("idle", "open") /\ last[S] = last[C] + 1 /\ ToClient(Plain("OPEN", last[S]))
      BY <1>1, <3>1 DEF Are, ToClient, ClientReads
    <3>2. CASE Empty(inbox[C]) /\ pc[C] \in {"dial", "relay", "barrier"}
      BY <3>2 DEF ClientReads
    <3> QED
      BY <1>4, <3>1, <3>2 DEF Opening, Are, Quiet, ToServer
  <2>2. ServerReads
    <3>1. CASE Are("relay", "open") /\ Flow(inbox[S], last[S], TRUE, sentFin[C], FALSE)
      BY <1>1, <3>1 DEF Are, ServerReads
    <3> QED
      BY <1>1, <1>4, <3>1 DEF Opening, Are, Quiet, ToServer, ToClient, Empty, Level, ServerReads
  <2> QED
    BY <2>1, <2>2
<1>5. CASE Releasing
  BY <1>5 DEF Releasing, Are, ToServer, ToClient, Level, Empty, ServerReads, ClientReads
<1>6. CASE Relaying
  <2>1. ServerReads
    <3>1. Pipe(inbox[S], last[S], sentFin[C], gotFin[S], FALSE) /\ (pc[S] = "relay" \/ (pc[S] = "barrier" /\ gotFin[S]))
      BY <1>6 DEF Relaying, Relayed
    <3>2. CASE gotFin[S]
      <4>1. Empty(inbox[S])
        BY <1>1, <3>1, <3>2, PipeDone
      <4> QED
        BY <3>1, <4>1 DEF ServerReads
    <3>3. CASE ~gotFin[S]
      <4>1. Flow(inbox[S], last[S], FALSE, sentFin[C], FALSE)
        BY <1>1, <3>1, <3>3, PipeOpen
      <4> QED
        BY <1>1, <3>1, <3>3, <4>1 DEF ServerReads
    <3> QED
      BY <3>2, <3>3
  <2>2. ClientReads
    <3>1. pc[C] = "relay" \/ (pc[C] = "barrier" /\ gotFin[C])
      BY <1>6 DEF Relaying, Relayed
    <3>2. CASE Pipe(inbox[C], last[C], sentFin[S], gotFin[C], FALSE)
      <4>1. CASE gotFin[C]
        <5>1. Empty(inbox[C])
          BY <1>1, <3>2, <4>1, PipeDone
        <5> QED
          BY <3>1, <5>1 DEF ClientReads
      <4>2. CASE ~gotFin[C]
        <5>1. Flow(inbox[C], last[C], FALSE, sentFin[S], FALSE)
          BY <1>1, <3>2, <4>2, PipeOpen
        <5> QED
          BY <1>1, <3>1, <4>2, <5>1 DEF ClientReads
      <4> QED
        BY <4>1, <4>2
    <3>3. CASE sentFin[S] /\ Pipe(inbox[C], last[C], sentFin[S], gotFin[C], TRUE)
      <4>1. CASE gotFin[C]
        <5>1. Only(inbox[C], Plain("RELEASE", last[C]))
          BY <1>1, <3>3, <4>1, PipeDone
        <5> QED
          BY <3>1, <4>1, <5>1 DEF ClientReads
      <4>2. CASE ~gotFin[C]
        <5>1. Flow(inbox[C], last[C], FALSE, sentFin[S], TRUE)
          BY <1>1, <3>3, <4>2, PipeOpen
        <5> QED
          BY <1>1, <3>1, <3>3, <4>2, <5>1 DEF ClientReads
      <4> QED
        BY <4>1, <4>2
    <3> QED
      BY <1>6, <3>2, <3>3 DEF Relaying, Relayed
  <2> QED
    BY <2>1, <2>2
<1> QED
  BY <1>2, <1>3, <1>4, <1>5, <1>6 DEF Joint

\* What the wire invariant says of each end that still reads.
LEMMA WireReads ==
    ASSUME TypeOK, Wire
    PROVE  (Running(S) => ServerReads) /\ (Running(C) => ClientReads)
  BY JointReads DEF Wire

\* Every frame a running end meets is one it accepts.
LEMMA ReadsExpected == TypeOK /\ Wire => NoUnexpectedFrame
<1> SUFFICES ASSUME TypeOK, Wire, NEW x \in End, Reading(x), inbox[x] # <<>>
             PROVE  Expected(x, Head(inbox[x]))
  BY DEF NoUnexpectedFrame
<1>1. Running(x)
  BY DEF Reading, Running
<1>2. /\ inbox[x] \in Seq(AnyFrame) /\ Len(inbox[x]) > 0 /\ Head(inbox[x]) = inbox[x][1]
      /\ last[x] \in 0..MaxID /\ nonce \in {0, 1}
  BY PopSeq DEF TypeOK
<1>3. CASE x = S
  <2> DEFINE f == inbox[S][1]
  <2>1. ServerReads /\ ~Empty(inbox[S])
    BY <1>1, <1>2, <1>3, WireReads DEF Empty
  <2>2. \A fin \in BOOLEAN : Flow(inbox[S], last[S], TRUE, fin, FALSE) => f = Plain("OPEN_OK", last[S])
    BY <1>2, <1>3, FlowHead
  <2>3. \A fin \in BOOLEAN : Flow(inbox[S], last[S], FALSE, fin, FALSE)
                                 => f \in {Plain("DATA", last[S]), Plain("FIN", last[S])}
    BY <1>2, <1>3, FlowHead
  <2>4. \/ pc[S] = "hello"   /\ f = Plain("HELLO", 0)
        \/ pc[S] = "ready"   /\ f = Plain("READY", 0)
        \/ pc[S] = "ping"    /\ f = Frame("PONG", 0, nonce)
        \/ pc[S] = "open"    /\ f \in {Plain("OPEN_OK", last[S]), Plain("OPEN_ERR", last[S])}
        \/ pc[S] = "relay"   /\ ~gotFin[S] /\ f \in {Plain("DATA", last[S]), Plain("FIN", last[S])}
        \/ pc[S] = "barrier" /\ f \in {Plain("READY", last[S]), Plain("CLOSE", 0)}
    BY <2>1, <2>2, <2>3, Zenon DEF ServerReads, Only
  <2> QED
    BY <1>2, <1>3, <2>4 DEF Expected
<1>4. CASE x = C
  <2> DEFINE f == inbox[C][1]
  <2>1. ClientReads /\ ~Empty(inbox[C]) /\ ~(pc[C] = "relay" /\ gotFin[C])
    BY <1>1, <1>2, <1>4, WireReads, EndFacts DEF Reading, Empty
  <2>2. \A fin, rel \in BOOLEAN : (rel => fin) /\ Flow(inbox[C], last[C], FALSE, fin, rel)
                                      => f \in {Plain("DATA", last[C]), Plain("FIN", last[C])}
    BY <1>2, <1>4, FlowHead
  <2>3. \/ pc[C] = "hello"   /\ f \in {Plain("HELLO_OK", 0), Plain("HELLO_ERR", 0)}
        \/ pc[C] = "idle"    /\ f \in {Plain("CLOSE", 0), Frame("PING", 0, 0), Frame("PING", 0, 1)}
        \/ pc[C] = "idle"    /\ last[C] < MaxID /\ f = Plain("OPEN", last[C] + 1)
        \/ pc[C] = "relay"   /\ ~gotFin[C] /\ f \in {Plain("DATA", last[C]), Plain("FIN", last[C])}
        \/ pc[C] = "barrier" /\ f = Plain("RELEASE", last[C])
    BY <2>1, <2>2, Zenon DEF ClientReads, Only
  <2> QED
    BY <1>2, <1>4, <2>3 DEF Expected
<1> QED
  BY <1>3, <1>4, EndFacts

-----------------------------------------------------------------------------
(* Types.                                                                   *)

\* Recording an outcome changes that lease of that end only.
LEMMA RecordType ==
    ASSUME TypeOK, NEW x \in End, last[x] \in 1..MaxID,
           NEW o \in {"ok", "dial_failed", "client_close", "error"}, Record(x, o)
    PROVE  /\ outcome' \in [End -> [1..MaxID -> {"none", "ok", "dial_failed", "client_close", "error"}]]
           /\ \A y \in End : \A i \in 1..MaxID :
                  outcome'[y][i] = IF y = x /\ i = last[x] THEN o ELSE outcome[y][i]
           /\ noDial' = noDial
<1> DEFINE T == {"none", "ok", "dial_failed", "client_close", "error"}
           g == [outcome[x] EXCEPT ![last[x]] = o]
<1>1. outcome[x] \in [1..MaxID -> T] /\ outcome \in [End -> [1..MaxID -> T]]
  BY DEF TypeOK
<1>2. g \in [1..MaxID -> T] /\ \A i \in 1..MaxID : g[i] = IF i = last[x] THEN o ELSE outcome[x][i]
  BY <1>1
<1>3. outcome' = [outcome EXCEPT ![x] = g] /\ noDial' = noDial
  BY DEF Record
<1> HIDE DEF g
<1> QED
  BY <1>1, <1>2, <1>3

\* The goroutine of x returns: its lease, if it is in one, is recorded.
LEMMA ReturnType ==
    ASSUME TypeOK, Outcomes, NEW x \in End, NEW r \in Reason, Return(x, r), inbox' \in [End -> Seq(AnyFrame)]
    PROVE  TypeOK'
<1>1. Abandoned(x, r) \in {"ok", "dial_failed", "client_close", "error"}
  BY DEF Abandoned, Finished
<1>2. pc[x] \in InLease => last[x] \in 1..MaxID
  BY DEF Outcomes, LeaseIDs
<1>3. outcome' \in [End -> [1..MaxID -> {"none", "ok", "dial_failed", "client_close", "error"}]]
      /\ noDial' = noDial
  <2>1. CASE pc[x] \in InLease
    BY <1>1, <1>2, <2>1, RecordType DEF Return
  <2>2. CASE pc[x] \notin InLease
    BY <2>2 DEF Return, TypeOK, leaseVars
  <2> QED
    BY <2>1, <2>2
<1> QED
  BY <1>3 DEF Return, Goto, TypeOK, Place

\* A read of x with the answer it writes, if any.
LEMMA ReadType ==
    ASSUME TypeOK, NEW x \in End, NEW p, NEW t, NEW i, Reads(x, p, t, i),
           Answer(x, <<>>) \/ \E f \in AnyFrame : Answer(x, <<f>>)
    PROVE  inbox' \in [End -> Seq(AnyFrame)]
  BY ReadsHead, ReadEffect, AnswerEffect

\* A write leaves frames in both inboxes.
LEMMA WriteType ==
    ASSUME TypeOK, NEW x \in End, NEW f \in AnyFrame, Write(x, <<f>>)
    PROVE  inbox' \in [End -> Seq(AnyFrame)]
  BY WriteEffect

\* A goroutine stays at a place of its program.
LEMMA GotoType ==
    ASSUME TypeOK, NEW x \in End, NEW p \in Place, Goto(x, p)
    PROVE  pc' \in [End -> Place]
  BY DEF TypeOK, Goto

\* A deadline is on or off.
LEMMA DeadlineType ==
    ASSUME TypeOK, NEW x \in End, NEW on \in BOOLEAN, Deadline(x, on)
    PROVE  armed' \in [End -> BOOLEAN]
  BY DEF TypeOK, Deadline

\* A relay starts with nothing sent and nothing received.
LEMMA StartRelayType ==
    ASSUME TypeOK, NEW x \in End, StartRelay(x)
    PROVE  /\ pc' \in [End -> Place] /\ data' \in [End -> 0..MaxData]
           /\ sentFin' \in [End -> BOOLEAN] /\ gotFin' \in [End -> BOOLEAN]
<1>1. pc' \in [End -> Place]
  BY GotoType DEF StartRelay, Place
<1>2. data' \in [End -> 0..MaxData]
  BY DataAssumption DEF StartRelay, TypeOK
<1>3. sentFin' \in [End -> BOOLEAN] /\ gotFin' \in [End -> BOOLEAN]
  BY DEF StartRelay, TypeOK
<1> QED
  BY <1>1, <1>2, <1>3

\* A dial has failed or not.
LEMMA DialFailedType ==
    ASSUME TypeOK, NEW x \in End, DialFailed(x)
    PROVE  noDial' \in [End -> BOOLEAN]
  BY DEF TypeOK, DialFailed

\* What the server does on reading a frame keeps the types.
LEMMA ServerAnswersType == TypeOK /\ Outcomes /\ ServerAnswers => TypeOK'
<1> SUFFICES ASSUME TypeOK, Outcomes, ServerAnswers PROVE TypeOK'
  OBVIOUS
<1>0. /\ S \in End /\ MaxID \in Nat /\ 0 \in 0..MaxID /\ last[S] \in 0..MaxID
      /\ "rejected" \in Reason /\ "client_close" \in Reason
  BY EndFacts, IDAssumption DEF TypeOK, Reason
<1>1. CASE ServerRejects
  <2>1. inbox' \in [End -> Seq(AnyFrame)]
    <3>1. Plain("HELLO_ERR", 0) \in AnyFrame
      BY <1>0, FrameType
    <3> QED
      BY <1>0, <1>1, <3>1, ReadType DEF ServerRejects
  <2> QED
    BY <1>0, <1>1, <2>1, ReturnType DEF ServerRejects
<1>2. CASE ServerAdmits
  <2>1. inbox' \in [End -> Seq(AnyFrame)]
    <3>1. Plain("HELLO_OK", 0) \in AnyFrame
      BY <1>0, FrameType
    <3> QED
      BY <1>0, <1>2, <3>1, ReadType DEF ServerAdmits
  <2> QED
    BY <1>2, <2>1 DEF ServerAdmits, Goto, TypeOK, Place, leaseVars
<1>3. CASE ServerReady
  <2>1. inbox' \in [End -> Seq(AnyFrame)]
    BY <1>0, <1>3, ReadType DEF ServerReady
  <2> QED
    BY <1>3, <2>1 DEF ServerReady, Goto, Deadline, TypeOK, Place, leaseVars
<1>4. CASE PongReceived
  <2>1. inbox' \in [End -> Seq(AnyFrame)]
    BY <1>0, <1>4, ReadType DEF PongReceived
  <2> QED
    BY <1>4, <2>1 DEF PongReceived, Goto, Deadline, TypeOK, Place, leaseVars
<1>5. CASE OpenAccepted
  <2>1. inbox' \in [End -> Seq(AnyFrame)]
    BY <1>0, <1>5, ReadType DEF OpenAccepted
  <2> QED
    BY <1>0, <1>5, <2>1, StartRelayType, DeadlineType DEF OpenAccepted, TypeOK, leaseVars
<1>6. CASE OpenRefused
  <2>1. inbox' \in [End -> Seq(AnyFrame)]
    BY <1>0, <1>6, ReadType, PlainType DEF OpenRefused
  <2>2. pc' \in [End -> Place]
    BY <1>0, <1>6, GotoType DEF OpenRefused, Place
  <2>3. armed' \in [End -> BOOLEAN]
    BY <1>0, <1>6, DeadlineType DEF OpenRefused
  <2>4. noDial' \in [End -> BOOLEAN]
    BY <1>0, <1>6, DialFailedType DEF OpenRefused
  <2> QED
    BY <1>6, <2>1, <2>2, <2>3, <2>4 DEF OpenRefused, DialFailed, TypeOK
<1>7. CASE Release
  <2>1. inbox' \in [End -> Seq(AnyFrame)]
    BY <1>0, <1>7, WriteType, FrameType DEF Release
  <2> QED
    BY <1>7, <2>1 DEF Release, Goto, Deadline, TypeOK, Place, leaseVars
<1>8. CASE Released
  <2>1. inbox' \in [End -> Seq(AnyFrame)]
    BY <1>0, <1>8, ReadType DEF Released
  <2>2. last[S] \in 1..MaxID
    BY <1>0, <1>8 DEF Released, Reads, At, Outcomes, LeaseIDs, InLease
  <2>3. Finished(S) \in {"ok", "dial_failed"}
    BY DEF Finished
  <2> QED
    <3>1. /\ outcome' \in [End -> [1..MaxID -> {"none", "ok", "dial_failed", "client_close", "error"}]]
          /\ noDial' = noDial
      BY <1>0, <1>8, <2>2, <2>3, RecordType DEF Released
    <3>2. pc' \in [End -> Place] /\ armed' \in [End -> BOOLEAN]
      BY <1>0, <1>8, GotoType, DeadlineType DEF Released, Place
    <3> QED
      BY <1>8, <2>1, <3>1, <3>2 DEF Released, TypeOK
<1>9. CASE ClientClosed
  <2>1. inbox' \in [End -> Seq(AnyFrame)]
    BY <1>0, <1>9, ReadType DEF ClientClosed
  <2> QED
    BY <1>0, <1>9, <2>1, ReturnType DEF ClientClosed
<1> QED
  BY <1>1, <1>2, <1>3, <1>4, <1>5, <1>6, <1>7, <1>8, <1>9 DEF ServerAnswers

\* What the server does of its own keeps the types.
LEMMA ServerStartsType == TypeOK /\ Outcomes /\ ServerStarts => TypeOK'
<1> SUFFICES ASSUME TypeOK, Outcomes, ServerStarts PROVE TypeOK'
  OBVIOUS
<1>0. /\ S \in End /\ MaxID \in Nat /\ 0 \in 0..MaxID /\ last[S] \in 0..MaxID /\ nonce \in {0, 1}
      /\ "expired" \in Reason /\ "exhausted" \in Reason
  BY EndFacts, IDAssumption DEF TypeOK, Reason
<1>1. CASE Ping
  <2>1. nonce' \in {0, 1}
    BY <1>0, <1>1 DEF Ping
  <2>2. inbox' \in [End -> Seq(AnyFrame)]
    BY <1>0, <1>1, <2>1, WriteType, FrameType DEF Ping
  <2> QED
    BY <1>1, <2>1, <2>2 DEF Ping, Goto, Deadline, TypeOK, Place, leaseVars
<1>2. CASE Goodbye
  <2>1. inbox' \in [End -> Seq(AnyFrame)]
    BY <1>0, <1>2, WriteType, FrameType DEF Goodbye
  <2> QED
    BY <1>0, <1>2, <2>1, ReturnType DEF Goodbye
<1>5. CASE Expires
  <2>1. pc' \in [End -> Place]
    BY <1>0, <1>5, GotoType DEF Expires, Place
  <2> QED
    BY <1>5, <2>1 DEF Expires, TypeOK, leaseVars
<1>3. CASE Open
  <2>1. last[S] + 1 \in 0..MaxID
    BY <1>0, <1>3 DEF Open, IDsLeft
  <2>2. inbox' \in [End -> Seq(AnyFrame)]
    BY <1>0, <1>3, <2>1, WriteType, FrameType DEF Open
  <2> QED
    BY <1>3, <2>1, <2>2 DEF Open, StartLease, Goto, Deadline, TypeOK, Place
<1>4. CASE Exhausted
  <2>1. inbox' \in [End -> Seq(AnyFrame)]
    BY <1>4 DEF Exhausted, TypeOK
  <2> QED
    BY <1>0, <1>4, <2>1, ReturnType DEF Exhausted
<1> QED
  BY <1>1, <1>2, <1>3, <1>4, <1>5 DEF ServerStarts

\* The client's steps keep the types.
LEMMA ClientStepType == TypeOK /\ Outcomes /\ ClientStep => TypeOK'
<1> SUFFICES ASSUME TypeOK, Outcomes, ClientStep PROVE TypeOK'
  OBVIOUS
<1>0. /\ C \in End /\ MaxID \in Nat /\ 0 \in 0..MaxID /\ last[C] \in 0..MaxID
      /\ "rejected" \in Reason /\ "server_close" \in Reason /\ "surplus" \in Reason
  BY EndFacts, IDAssumption DEF TypeOK, Reason
<1>1. CASE Hello
  <2>1. inbox' \in [End -> Seq(AnyFrame)]
    BY <1>0, <1>1, WriteType, FrameType DEF Hello
  <2> QED
    BY <1>1, <2>1 DEF Hello, Goto, TypeOK, Place, leaseVars
<1>2. CASE HelloRejected
  <2>1. inbox' \in [End -> Seq(AnyFrame)]
    BY <1>0, <1>2, ReadType DEF HelloRejected
  <2> QED
    BY <1>0, <1>2, <2>1, ReturnType DEF HelloRejected
<1>3. CASE HelloAccepted
  <2>1. inbox' \in [End -> Seq(AnyFrame)]
    BY <1>0, <1>3, ReadType, PlainType DEF HelloAccepted
  <2> QED
    BY <1>3, <2>1 DEF HelloAccepted, Goto, TypeOK, Place, leaseVars
<1>4. CASE Pong
  <2>1. Head(inbox[C]) \in AnyFrame
    BY <1>0, <1>4, ReadsHead DEF Pong
  <2>2. Head(inbox[C]).nonce \in {0, 1}
    BY <2>1 DEF AnyFrame
  <2>3. Frame("PONG", 0, Head(inbox[C]).nonce) \in AnyFrame
    BY <1>0, <2>2, FrameType
  <2>4. inbox' \in [End -> Seq(AnyFrame)]
    BY <1>0, <1>4, <2>3, ReadType DEF Pong
  <2> QED
    BY <1>4, <2>4 DEF Pong, TypeOK, leaseVars
<1>5. CASE ServerClosed
  <2>1. inbox' \in [End -> Seq(AnyFrame)]
    BY <1>0, <1>5, ReadType DEF ServerClosed
  <2> QED
    BY <1>0, <1>5, <2>1, ReturnType DEF ServerClosed
<1>6. CASE OpenReceived
  <2>1. inbox' \in [End -> Seq(AnyFrame)]
    BY <1>0, <1>6, ReadType DEF OpenReceived
  <2>2. last' \in [End -> 0..MaxID]
    <3>1. last[C] + 1 \in 0..MaxID
      BY <1>0, <1>6 DEF OpenReceived
    <3> QED
      BY <1>6, <3>1 DEF OpenReceived, TypeOK
  <2>3. pc' \in [End -> Place]
    BY <1>0, <1>6, GotoType DEF OpenReceived, Place
  <2>4. armed' \in [End -> BOOLEAN]
    BY <1>0, <1>6, DeadlineType DEF OpenReceived
  <2>5. noDial' \in [End -> BOOLEAN] /\ outcome' = outcome
    BY <1>0, <1>6 DEF OpenReceived, StartLease, TypeOK
  <2> QED
    BY <1>6, <2>1, <2>2, <2>3, <2>4, <2>5 DEF OpenReceived, TypeOK
<1>7. CASE DialFails
  <2>1. inbox' \in [End -> Seq(AnyFrame)]
    BY <1>0, <1>7, WriteType, PlainType DEF DialFails
  <2>2. pc' \in [End -> Place]
    BY <1>0, <1>7, GotoType DEF DialFails, Place
  <2>3. armed' \in [End -> BOOLEAN]
    BY <1>0, <1>7, DeadlineType DEF DialFails
  <2>4. noDial' \in [End -> BOOLEAN]
    BY <1>0, <1>7, DialFailedType DEF DialFails
  <2> QED
    BY <1>7, <2>1, <2>2, <2>3, <2>4 DEF DialFails, DialFailed, TypeOK
<1>8. CASE Dialled
  <2>1. inbox' \in [End -> Seq(AnyFrame)]
    BY <1>0, <1>8, WriteType, PlainType DEF Dialled
  <2> QED
    BY <1>0, <1>8, <2>1, StartRelayType DEF Dialled, TypeOK, leaseVars
<1>9. CASE ClientRelayed
  BY <1>9 DEF ClientRelayed, Goto, Deadline, TypeOK, Place, leaseVars
<1>10. CASE BackToIdle
  <2>1. inbox' \in [End -> Seq(AnyFrame)]
    BY <1>0, <1>10, ReadType, PlainType DEF BackToIdle
  <2>2. last[C] \in 1..MaxID
    BY <1>0, <1>10 DEF BackToIdle, Reads, At, Outcomes, LeaseIDs, InLease
  <2>3. Finished(C) \in {"ok", "dial_failed"}
    BY DEF Finished
  <2> QED
    <3>1. /\ outcome' \in [End -> [1..MaxID -> {"none", "ok", "dial_failed", "client_close", "error"}]]
          /\ noDial' = noDial
      BY <1>0, <1>10, <2>2, <2>3, RecordType DEF BackToIdle
    <3>2. pc' \in [End -> Place]
      BY <1>0, <1>10, GotoType DEF BackToIdle, Place
    <3> QED
      BY <1>10, <2>1, <3>1, <3>2 DEF BackToIdle, TypeOK
<1>11. CASE Surplus
  <2>1. inbox' \in [End -> Seq(AnyFrame)]
    BY <1>0, <1>11, ReadType, FrameType DEF Surplus
  <2> QED
    BY <1>0, <1>11, <2>1, ReturnType DEF Surplus
<1> QED
  BY <1>1, <1>2, <1>3, <1>4, <1>5, <1>6, <1>7, <1>8, <1>9, <1>10, <1>11 DEF ClientStep

\* Every step keeps the types.
LEMMA TypeStep ==
    ASSUME TypeOK, Outcomes, [Next]_vars
    PROVE  TypeOK'
<1>0. /\ C \in End /\ \A x \in End : last[x] \in 0..MaxID
      /\ {"shutdown", "error", "network", "timeout", "cut"} \subseteq Reason
  BY EndFacts DEF TypeOK, Reason
<1>1. CASE UNCHANGED vars
  BY <1>1 DEF vars, leaseVars, TypeOK
<1>2. CASE ClientStops
  BY <1>0, <1>2, ReturnType DEF ClientStops, TypeOK
<1>3. ASSUME NEW x \in End, Fails(x) \/ NetworkFails(x) \/ TimesOut(x)
      PROVE  TypeOK'
  <2>1. inbox' \in [End -> Seq(AnyFrame)]
    BY <1>3 DEF Fails, NetworkFails, TimesOut, TypeOK
  <2>2. PICK r \in Reason : Return(x, r)
    BY <1>0, <1>3 DEF Fails, NetworkFails, TimesOut, Failure
  <2> QED
    BY <2>1, <2>2, ReturnType
<1>4. ASSUME NEW x \in End, PumpData(x)
      PROVE  TypeOK'
  <2>1. inbox' \in [End -> Seq(AnyFrame)]
    BY <1>0, <1>4, WriteType, PlainType DEF PumpData
  <2>2. data' \in [End -> 0..MaxData]
    BY <1>4, DataAssumption DEF PumpData, TypeOK
  <2> QED
    BY <1>4, <2>1, <2>2 DEF PumpData, TypeOK, leaseVars
<1>5. ASSUME NEW x \in End, PumpFin(x)
      PROVE  TypeOK'
  <2>1. inbox' \in [End -> Seq(AnyFrame)]
    BY <1>0, <1>5, WriteType, PlainType DEF PumpFin
  <2> QED
    BY <1>5, <2>1 DEF PumpFin, TypeOK, leaseVars
<1>6. ASSUME NEW x \in End, Delivers(x)
      PROVE  TypeOK'
  <2>1. inbox' \in [End -> Seq(AnyFrame)]
    BY <1>6, ReadType DEF Delivers, DeliverData, DeliverFin
  <2> QED
    BY <1>6, <2>1 DEF Delivers, DeliverData, DeliverFin, TypeOK, leaseVars
<1>7. ASSUME NEW x \in End, CloseUnder(x)
      PROVE  TypeOK'
  BY <1>7 DEF CloseUnder, TypeOK, leaseVars
<1> QED
  BY <1>1, <1>2, <1>3, <1>4, <1>5, <1>6, <1>7, ServerAnswersType, ServerStartsType, ClientStepType
  DEF Next, Terminated

-----------------------------------------------------------------------------
(* Deadlines.                                                               *)

\* Each step that starts a relay, or puts a worker into the idle pool, finds the
\* deadline cleared or clears it.
LEMMA DeadlinesStep ==
    ASSUME TypeOK, Deadlines, [Next]_vars
    PROVE  Deadlines'
<1>0. /\ S \in End /\ C \in End /\ S # C /\ pc \in [End -> Place] /\ armed \in [End -> BOOLEAN]
      /\ \A x \in End : x = S \/ x = C
  BY EndFacts DEF TypeOK
<1> USE DEF Deadlines, NoStaleDeadline
<1>1. ASSUME NEW x \in End, NEW r, Return(x, r)
      PROVE  Deadlines'
  BY <1>0, <1>1 DEF Return, Goto
<1>2. CASE UNCHANGED <<pc, armed>>
  BY <1>2
<1>3. CASE ServerAnswers
  BY <1>0, <1>1, <1>3 DEF ServerAnswers, ServerRejects, ServerAdmits, ServerReady, PongReceived, OpenAccepted,
     OpenRefused, Release, Released, ClientClosed, StartRelay, Goto, Deadline
<1>4. CASE ServerStarts
  BY <1>0, <1>1, <1>4 DEF ServerStarts, Ping, Expires, Goodbye, Open, Exhausted, Goto, Deadline
<1>5. CASE ClientStep
  <2>1. CASE HelloRejected \/ ServerClosed \/ Surplus
    BY <1>0, <1>1, <2>1 DEF HelloRejected, ServerClosed, Surplus
  <2>2. CASE Pong
    BY <1>2, <2>2 DEF Pong
  <2>3. CASE Hello \/ HelloAccepted \/ BackToIdle \/ DialFails \/ ClientRelayed
    BY <1>0, <2>3 DEF Hello, HelloAccepted, BackToIdle, DialFails, ClientRelayed, Goto, Deadline
  <2>4. CASE OpenReceived
    BY <1>0, <2>4 DEF OpenReceived, Goto, Deadline
  <2>5. CASE Dialled
    BY <1>0, <2>5 DEF Dialled, At, StartRelay, Goto
  <2> QED
    BY <1>5, <2>1, <2>2, <2>3, <2>4, <2>5 DEF ClientStep
<1>6. CASE ClientStops
  BY <1>0, <1>1, <1>6 DEF ClientStops
<1>7. ASSUME NEW x \in End, PumpData(x) \/ PumpFin(x) \/ Delivers(x) \/ CloseUnder(x)
      PROVE  Deadlines'
  BY <1>2, <1>7 DEF PumpData, PumpFin, Delivers, DeliverData, DeliverFin, CloseUnder
<1>8. ASSUME NEW x \in End, Fails(x) \/ NetworkFails(x) \/ TimesOut(x)
      PROVE  Deadlines'
  BY <1>1, <1>8 DEF Fails, NetworkFails, TimesOut
<1> QED
  BY <1>2, <1>3, <1>4, <1>5, <1>6, <1>7, <1>8 DEF Next, Terminated, vars

-----------------------------------------------------------------------------
(* The wire: what one step of an end does to what is on its way.            *)

\* The types that the steps below need.
Shape ==
    /\ pc \in [End -> Place] /\ last \in [End -> 0..MaxID] /\ nonce \in {0, 1}
    /\ inbox[S] \in Seq(AnyFrame) /\ inbox[C] \in Seq(AnyFrame)
    /\ Len(inbox[S]) \in Nat /\ Len(inbox[C]) \in Nat /\ MaxID \in Nat
    /\ sentFin \in [End -> BOOLEAN] /\ gotFin \in [End -> BOOLEAN] /\ noDial \in [End -> BOOLEAN]
    /\ S \in End /\ C \in End /\ S # C /\ Peer(S) = C /\ Peer(C) = S
    /\ \A x \in End : x = S \/ x = C

\* The parts of the type invariant that the wire proofs use.
LEMMA TypeShape == TypeOK => Shape
  BY EndFacts, IDAssumption DEF TypeOK, Shape

\* The same, after the step.
LEMMA TypeShapeNext == TypeOK' => Shape'
  BY EndFacts, IDAssumption DEF TypeOK, Shape

\* One end returns, and what is on its way to the other is as before.
LEMMA ReturnWire ==
    ASSUME TypeOK, Wire, NEW x \in End, NEW r, Running(x), Return(x, r),
           inbox'[Peer(x)] = inbox[Peer(x)]
    PROVE  Wire'
<1>1. /\ ~Running(x)' /\ Running(Peer(x))' = Running(Peer(x))
      /\ pc'[Peer(x)] = pc[Peer(x)] /\ UNCHANGED <<last, sentFin, gotFin, nonce>>
  BY EndFacts, TypeShape DEF Return, Goto, Running, Shape
<1>2. (Running(S) => ServerReads) /\ (Running(C) => ClientReads)
  BY WireReads
<1>3. CASE x = S
  BY <1>1, <1>2, <1>3, EndFacts DEF Wire, ClientReads
<1>4. CASE x = C
  BY <1>1, <1>2, <1>4, EndFacts DEF Wire, ServerReads
<1> QED
  BY <1>3, <1>4, EndFacts

\* HELLO, its answer and READY keep the wire invariant.
LEMMA HandshakeWire ==
    ASSUME TypeOK, Wire, Hello \/ ServerAdmits \/ HelloAccepted \/ ServerReady
    PROVE  Wire'
<1>0. Shape /\ (Running(S) => ServerReads) /\ (Running(C) => ClientReads) /\ 0 \in 0..MaxID
  BY TypeShape, WireReads, IDAssumption
<1> USE DEF Running
<1>1. CASE Hello
  <2>1. /\ inbox'[C] = inbox[C] /\ Pushed(inbox[S], Plain("HELLO", 0), inbox'[S])
        /\ pc[C] = "start" /\ pc' = [pc EXCEPT ![C] = "hello"] /\ last' = last
    BY <1>0, <1>1, WriteEffect, FrameType DEF Hello, At, Goto, Shape
  <2>2. Empty(inbox[C]) /\ (Running(S) => pc[S] = "hello" /\ Empty(inbox[S]) /\ Level)
    BY <1>0, <2>1 DEF Wire, Joint, Registering, Idling, Opening, Relaying, Releasing, Are, Quiet, ClientReads
  <2>3. Running(S) => Registering'
    BY <1>0, <2>1, <2>2 DEF Registering, Are, ToServer, Empty, Only, Level, Pushed, Shape
  <2>4. ClientReads'
    BY <1>0, <2>1, <2>2 DEF ClientReads, Empty, Shape
  <2> QED
    BY <1>0, <2>1, <2>3, <2>4 DEF Wire, Joint, Shape
<1>2. CASE ServerAdmits
  <2>1. /\ Popped(inbox[S], inbox'[S]) /\ Pushed(inbox[C], Plain("HELLO_OK", 0), inbox'[C])
        /\ pc[S] = "hello" /\ pc' = [pc EXCEPT ![S] = "ready"] /\ last' = last
    BY <1>0, <1>2, ReadsHead, AnswerEffect, FrameType DEF ServerAdmits, Goto, Shape
  <2>2. Len(inbox[S]) = 1 /\ (Running(C) => pc[C] = "hello" /\ Empty(inbox[C]) /\ Level)
    BY <1>0, <2>1 DEF Wire, Joint, Registering, Idling, Opening, Relaying, Releasing, Are, Quiet, ToServer,
       ServerReads, Popped, Empty, Only
  <2>3. Running(C) => Registering'
    BY <1>0, <2>1, <2>2 DEF Registering, Are, ToClient, Empty, Only, Level, Popped, Pushed, Shape
  <2>4. ServerReads'
    BY <1>0, <2>1, <2>2 DEF ServerReads, Empty, Popped, Shape
  <2> QED
    BY <1>0, <2>1, <2>3, <2>4 DEF Wire, Joint, Shape
<1>3. CASE HelloAccepted
  <2>1. /\ Popped(inbox[C], inbox'[C]) /\ Pushed(inbox[S], Plain("READY", 0), inbox'[S])
        /\ pc[C] = "hello" /\ pc' = [pc EXCEPT ![C] = "idle"] /\ last' = last
    BY <1>0, <1>3, ReadsHead, AnswerEffect, FrameType DEF HelloAccepted, Goto, Shape
  <2>2. Len(inbox[C]) = 1 /\ (Running(S) => pc[S] = "ready" /\ Empty(inbox[S]) /\ Level)
    BY <1>0, <2>1 DEF Wire, Joint, Registering, Idling, Opening, Relaying, Releasing, Are, Quiet, ToServer,
       ToClient, ClientReads, Popped, Empty, Only
  <2>3. Running(S) => Registering'
    BY <1>0, <2>1, <2>2 DEF Registering, Are, ToServer, Empty, Only, Level, Popped, Pushed, Shape
  <2>4. ClientReads'
    BY <1>0, <2>1, <2>2 DEF ClientReads, Empty, Popped, Shape
  <2> QED
    BY <1>0, <2>1, <2>3, <2>4 DEF Wire, Joint, Shape
<1>4. CASE ServerReady
  <2>1. /\ Popped(inbox[S], inbox'[S]) /\ inbox'[C] = inbox[C]
        /\ pc[S] = "ready" /\ pc' = [pc EXCEPT ![S] = "idle"] /\ last' = last
    BY <1>0, <1>4, ReadsHead, ReadEffect DEF ServerReady, Goto, Shape
  <2>2. Len(inbox[S]) = 1 /\ (Running(C) => pc[C] = "idle" /\ Empty(inbox[C]) /\ Level)
    BY <1>0, <2>1 DEF Wire, Joint, Registering, Idling, Opening, Relaying, Releasing, Are, Quiet, ToServer,
       ToClient, ServerReads, Popped, Empty, Only
  <2>3. Running(C) => Idling'
    BY <1>0, <2>1, <2>2 DEF Idling, Are, Quiet, Empty, Level, Popped, Shape
  <2>4. ServerReads'
    BY <1>0, <2>1, <2>2 DEF ServerReads, Empty, Popped, Shape
  <2> QED
    BY <1>0, <2>1, <2>3, <2>4 DEF Wire, Joint, Shape
<1> QED
  BY <1>1, <1>2, <1>3, <1>4

\* PING and PONG keep the wire invariant.
LEMMA HeartbeatWire ==
    ASSUME TypeOK, Wire, Ping \/ Pong \/ PongReceived
    PROVE  Wire'
<1>0. Shape /\ (Running(S) => ServerReads) /\ (Running(C) => ClientReads) /\ 0 \in 0..MaxID
  BY TypeShape, WireReads, IDAssumption
<1> USE DEF Running
<1>1. CASE Ping
  <2>1. nonce' \in {0, 1}
    BY <1>0, <1>1 DEF Ping, Shape
  <2>2. /\ inbox'[S] = inbox[S] /\ Pushed(inbox[C], Frame("PING", 0, nonce'), inbox'[C])
        /\ pc[S] = "idle" /\ pc' = [pc EXCEPT ![S] = "ping"] /\ last' = last
    BY <1>0, <1>1, <2>1, WriteEffect, FrameType DEF Ping, At, Goto, Shape
  <2>3. Empty(inbox[S]) /\ (Running(C) => pc[C] = "idle" /\ Empty(inbox[C]) /\ Level)
    BY <1>0, <2>2 DEF Wire, Joint, Registering, Idling, Opening, Relaying, Releasing, Are, Quiet, ToServer,
       ToClient, ServerReads
  <2>4. Running(C) => Idling'
    BY <1>0, <2>2, <2>3 DEF Idling, Are, ToClient, Empty, Only, Level, Pushed, Shape
  <2>5. ServerReads'
    BY <1>0, <2>2, <2>3 DEF ServerReads, Empty, Shape
  <2> QED
    BY <1>0, <2>2, <2>4, <2>5 DEF Wire, Joint, Shape
<1>2. CASE Pong
  <2>1. inbox[C] # <<>> /\ inbox[C][1] \in AnyFrame /\ inbox[C][1].type = "PING" /\ Head(inbox[C]) = inbox[C][1]
        /\ pc[C] = "idle" /\ pc' = pc /\ last' = last /\ nonce' = nonce
    BY <1>0, <1>2, ReadsHead DEF Pong, Shape
  <2>2. inbox[C][1].nonce \in {0, 1}
    BY <2>1 DEF AnyFrame
  <2>3. Popped(inbox[C], inbox'[C]) /\ Pushed(inbox[S], Frame("PONG", 0, inbox[C][1].nonce), inbox'[S])
    BY <1>0, <1>2, <2>1, <2>2, AnswerEffect, FrameType DEF Pong, Shape
  <2>4. /\ Plain("OPEN", last[S]).type = "OPEN"
        /\ Frame("PING", 0, nonce).type = "PING" /\ Frame("PING", 0, nonce).nonce = nonce
    BY <1>0, FrameType DEF Shape
  <2>5. Len(inbox[C]) = 1
    BY <1>0, <2>1, <2>3 DEF ClientReads, Empty, Only, Popped
  <2>6. Running(S) => /\ pc[S] = "ping" /\ Level /\ Empty(inbox[S]) /\ inbox[C][1].nonce = nonce
    BY <1>0, <2>1, <2>3, <2>4, <2>5 DEF Wire, Joint, Registering, Idling, Opening, Relaying, Releasing, Are, Quiet, ToServer,
       ToClient, Empty, Only
  <2>7. Running(S) => Idling'
    BY <1>0, <2>1, <2>3, <2>5, <2>6 DEF Idling, Are, ToServer, Empty, Only, Level, Popped, Pushed, Shape
  <2>8. ClientReads'
    BY <1>0, <2>1, <2>3, <2>5 DEF ClientReads, Empty, Popped, Shape
  <2> QED
    BY <1>0, <2>1, <2>7, <2>8 DEF Wire, Joint, Shape
<1>3. CASE PongReceived
  <2>1. /\ Popped(inbox[S], inbox'[S]) /\ inbox'[C] = inbox[C]
        /\ pc[S] = "ping" /\ pc' = [pc EXCEPT ![S] = "idle"] /\ last' = last
    BY <1>0, <1>3, ReadsHead, ReadEffect DEF PongReceived, Goto, Shape
  <2>2. Len(inbox[S]) = 1 /\ (Running(C) => pc[C] = "idle" /\ Empty(inbox[C]) /\ Level)
    BY <1>0, <2>1 DEF Wire, Joint, Registering, Idling, Opening, Relaying, Releasing, Are, Quiet, ToServer,
       ToClient, ServerReads, Popped, Empty, Only
  <2>3. Running(C) => Idling'
    BY <1>0, <2>1, <2>2 DEF Idling, Are, Quiet, Empty, Level, Popped, Shape
  <2>4. ServerReads'
    BY <1>0, <2>1, <2>2 DEF ServerReads, Empty, Popped, Shape
  <2> QED
    BY <1>0, <2>1, <2>3, <2>4 DEF Wire, Joint, Shape
<1> QED
  BY <1>1, <1>2, <1>3

\* OPEN_ERR: nothing follows it, and the client waits for RELEASE.
LEMMA DialRefused ==
    ASSUME TypeOK, Wire, Reads(S, "open", "OPEN_ERR", last[S])
    PROVE  /\ Len(inbox[S]) = 1
           /\ Running(C) => pc[C] = "barrier" /\ Level /\ Empty(inbox[C]) /\ noDial[C]
<1>0. Shape /\ (Running(S) => ServerReads)
  BY TypeShape, WireReads
<1>1. pc[S] = "open" /\ inbox[S][1].type = "OPEN_ERR" /\ ~Empty(inbox[S]) /\ Running(S)
  BY <1>0, ReadsHead DEF Running, Empty, Shape
<1>2. \A fin \in BOOLEAN : ~Flow(inbox[S], last[S], TRUE, fin, FALSE)
  <2>1. Plain("OPEN_OK", last[S]) # inbox[S][1]
    BY <1>0, <1>1, FrameType DEF Shape
  <2> QED
    BY <2>1, Zenon DEF Flow
<1>3. Len(inbox[S]) = 1
  <2>1. Only(inbox[S], Plain("OPEN_ERR", last[S]))
    BY <1>0, <1>1, <1>2, Zenon DEF ServerReads
  <2> QED
    BY <2>1 DEF Only
<1>4. ASSUME Running(C) PROVE pc[C] = "barrier" /\ Level /\ Empty(inbox[C]) /\ noDial[C]
  <2>1. Opening
    BY <1>1, <1>4 DEF Wire, Joint, Registering, Idling, Relaying, Releasing, Are
  <2>2. ~Flow(inbox[S], last[S], TRUE, sentFin[C], FALSE)
    BY <1>0, <1>2 DEF Shape
  <2> QED
    BY <1>1, <2>1, <2>2 DEF Opening, Quiet, ToClient, ToServer, Are
<1> QED
  BY <1>3, <1>4

\* OPEN and a refused dial keep the wire invariant.
LEMMA OpenWire ==
    ASSUME TypeOK, Wire, Open \/ OpenReceived \/ DialFails \/ OpenRefused
    PROVE  Wire'
<1>0. Shape /\ (Running(S) => ServerReads) /\ (Running(C) => ClientReads) /\ 0 \in 0..MaxID
  BY TypeShape, WireReads, IDAssumption
<1> USE DEF Running
<1>1. CASE Open
  <2>1. last[S] + 1 \in 0..MaxID
    BY <1>0, <1>1 DEF Open, IDsLeft, Shape
  <2>2. /\ inbox'[S] = inbox[S] /\ Pushed(inbox[C], Plain("OPEN", last[S] + 1), inbox'[C])
        /\ pc[S] = "idle" /\ pc' = [pc EXCEPT ![S] = "open"]
        /\ last'[S] = last[S] + 1 /\ last'[C] = last[C] /\ ~noDial'[S]
    BY <1>0, <1>1, <2>1, WriteEffect, PlainType DEF Open, At, Goto, StartLease, Shape
  <2>3. Empty(inbox[S]) /\ (Running(C) => pc[C] = "idle" /\ Empty(inbox[C]) /\ Level)
    BY <1>0, <2>2 DEF Wire, Joint, Registering, Idling, Opening, Relaying, Releasing, Are, Quiet, ToServer,
       ToClient, ServerReads
  <2>4. Running(C) => Opening'
    BY <1>0, <2>2, <2>3 DEF Opening, Are, ToClient, Empty, Only, Level, Pushed, Shape
  <2>5. ServerReads'
    BY <1>0, <2>2, <2>3 DEF ServerReads, Empty, Shape
  <2> QED
    BY <1>0, <2>2, <2>4, <2>5 DEF Wire, Joint, Shape
<1>2. CASE OpenReceived
  <2>1. /\ Popped(inbox[C], inbox'[C]) /\ inbox'[S] = inbox[S] /\ inbox[C][1].type = "OPEN"
        /\ pc[C] = "idle" /\ pc' = [pc EXCEPT ![C] = "dial"]
        /\ last'[C] = last[C] + 1 /\ last'[S] = last[S] /\ ~noDial'[C] /\ noDial'[S] = noDial[S]
    BY <1>0, <1>2, ReadsHead, ReadEffect DEF OpenReceived, Goto, StartLease, Shape
  <2>2. Frame("PING", 0, nonce).type = "PING"
    BY <1>0, FrameType DEF Shape
  <2>3. Len(inbox[C]) = 1
    BY <1>0, <2>1 DEF ClientReads, Empty, Only, Popped
  <2>4. Running(S) => pc[S] = "open" /\ last[S] = last[C] + 1 /\ Empty(inbox[S]) /\ ~noDial[S]
    BY <1>0, <2>1, <2>2, <2>3 DEF Wire, Joint, Registering, Idling, Opening, Relaying, Releasing, Are, Quiet, ToServer,
       ToClient, Empty, Only
  <2>5. Running(S) => Opening'
    BY <1>0, <2>1, <2>3, <2>4 DEF Opening, Are, Quiet, Empty, Level, Popped, Shape
  <2>6. ClientReads'
    BY <1>0, <2>1, <2>3 DEF ClientReads, Empty, Popped, Shape
  <2> QED
    BY <1>0, <2>1, <2>5, <2>6 DEF Wire, Joint, Shape
<1>3. CASE DialFails
  <2>1. /\ inbox'[C] = inbox[C] /\ Pushed(inbox[S], Plain("OPEN_ERR", last[C]), inbox'[S])
        /\ pc[C] = "dial" /\ pc' = [pc EXCEPT ![C] = "barrier"]
        /\ last' = last /\ noDial'[C] /\ noDial'[S] = noDial[S]
    BY <1>0, <1>3, WriteEffect, PlainType DEF DialFails, At, Goto, DialFailed, Shape
  <2>2. Empty(inbox[C]) /\ (Running(S) => pc[S] = "open" /\ Level /\ Empty(inbox[S]) /\ ~noDial[S])
    BY <1>0, <2>1 DEF Wire, Joint, Registering, Idling, Opening, Relaying, Releasing, Are, Quiet, ToServer,
       ToClient, ClientReads
  <2>3. Running(S) => Opening'
    BY <1>0, <2>1, <2>2 DEF Opening, Are, ToServer, Empty, Only, Level, Pushed, Shape
  <2>4. ClientReads'
    BY <1>0, <2>1, <2>2 DEF ClientReads, Empty, Shape
  <2> QED
    BY <1>0, <2>1, <2>3, <2>4 DEF Wire, Joint, Shape
<1>4. CASE OpenRefused
  <2>1. Reads(S, "open", "OPEN_ERR", last[S]) /\ pc[S] = "open"
    BY <1>4 DEF OpenRefused, Reads, At
  <2>2. Popped(inbox[S], inbox'[S]) /\ Pushed(inbox[C], Plain("RELEASE", last[S]), inbox'[C])
    BY <1>0, <1>4, <2>1, ReadsHead, AnswerEffect, PlainType DEF OpenRefused, Shape
  <2>3. pc' = [pc EXCEPT ![S] = "barrier"] /\ last' = last /\ noDial'[S] /\ noDial'[C] = noDial[C]
    BY <1>0, <1>4 DEF OpenRefused, Goto, DialFailed, Shape
  <2>4. Running(C) => Releasing'
    BY <1>0, <2>1, <2>2, <2>3, DialRefused
       DEF Releasing, Are, Dials, ToClient, Empty, Only, Level, Popped, Pushed, Shape
  <2>5. ServerReads'
    BY <1>0, <2>1, <2>2, <2>3, DialRefused DEF ServerReads, Empty, Popped, Shape
  <2> QED
    BY <1>0, <2>1, <2>3, <2>4, <2>5 DEF Wire, Joint, Shape
<1> QED
  BY <1>1, <1>2, <1>3, <1>4

\* A dial that succeeds and OPEN_OK keep the wire invariant.
LEMMA RelayStartsWire ==
    ASSUME TypeOK, TypeOK', Wire, Dialled \/ OpenAccepted
    PROVE  Wire'
<1>0. Shape /\ (Running(S) => ServerReads) /\ (Running(C) => ClientReads) /\ Shape'
  BY TypeShape, TypeShapeNext, WireReads
<1> USE DEF Running
<1>1. CASE Dialled
  <2>1. /\ inbox'[C] = inbox[C] /\ Pushed(inbox[S], Plain("OPEN_OK", last[C]), inbox'[S])
        /\ pc[C] = "dial" /\ pc' = [pc EXCEPT ![C] = "relay"]
        /\ last' = last /\ noDial' = noDial /\ ~sentFin'[C] /\ ~gotFin'[C]
    BY <1>0, <1>1, WriteEffect, PlainType DEF Dialled, At, Goto, StartRelay, leaseVars, Shape
  <2>2. Empty(inbox[C]) /\ (Running(S) => pc[S] = "open" /\ Level /\ Empty(inbox[S]) /\ ~noDial[S] /\ ~noDial[C])
    BY <1>0, <2>1 DEF Wire, Joint, Registering, Idling, Opening, Relaying, Releasing, Are, Quiet, ToServer,
       ToClient, ClientReads
  <2>3. ASSUME Running(S) PROVE Flow(inbox'[S], last'[S], TRUE, sentFin'[C], FALSE)
    <3>1. Only(inbox'[S], Plain("OPEN_OK", last'[S]))
      BY <1>0, <2>1, <2>2, <2>3 DEF Empty, Only, Pushed, Level, Shape
    <3>2. Flow(inbox'[S], last'[S], TRUE, FALSE, FALSE)
      BY <1>0, <3>1, FlowStarts DEF Shape
    <3> QED
      BY <1>0, <2>1, <3>2 DEF Shape
  <2>4. Running(S) => Opening'
    BY <1>0, <2>1, <2>2, <2>3 DEF Opening, Are, Empty, Level, Shape
  <2>5. ClientReads'
    BY <1>0, <2>1, <2>2 DEF ClientReads, Empty, Shape
  <2> QED
    BY <1>0, <2>1, <2>4, <2>5 DEF Wire, Joint, Shape
<1>2. CASE OpenAccepted
  <2>1. /\ Popped(inbox[S], inbox'[S]) /\ inbox'[C] = inbox[C] /\ inbox[S][1].type = "OPEN_OK"
        /\ pc[S] = "open" /\ pc' = [pc EXCEPT ![S] = "relay"]
        /\ last' = last /\ noDial' = noDial /\ ~sentFin'[S] /\ ~gotFin'[S]
        /\ sentFin'[C] = sentFin[C] /\ gotFin'[C] = gotFin[C]
    <3>1. inbox[S] # <<>> /\ inbox[S][1].type = "OPEN_OK" /\ pc[S] = "open"
      BY <1>0, <1>2, ReadsHead DEF OpenAccepted, Shape
    <3>2. Popped(inbox[S], inbox'[S]) /\ inbox'[C] = inbox[C]
      BY <1>0, <1>2, <3>1, ReadEffect DEF OpenAccepted, Shape
    <3> QED
      BY <1>0, <1>2, <3>1, <3>2 DEF OpenAccepted, Goto, StartRelay, leaseVars, Shape
  <2>2. Plain("OPEN_ERR", last[S]) # inbox[S][1] /\ Plain("OPEN_ERR", last[C]) # inbox[S][1] /\ ~Empty(inbox[S])
    BY <1>0, <2>1, FrameType DEF Shape, Empty, Popped
  <2> DEFINE q == inbox[S]
             r == inbox'[S]
  <2>3. ASSUME NEW fin \in BOOLEAN, Flow(q, last[S], TRUE, fin, FALSE)
        PROVE  Flow(r, last[S], FALSE, fin, FALSE)
    <3>1. q \in Seq(AnyFrame) /\ r \in Seq(AnyFrame) /\ last[S] \in 0..MaxID /\ Popped(q, r)
      BY <1>0, <2>1 DEF Shape
    <3> HIDE DEF q, r
    <3> QED
      BY <2>3, <3>1, FlowAnswered
  <2>4. ServerReads'
    <3>1. PICK fin \in BOOLEAN : Flow(inbox[S], last[S], TRUE, fin, FALSE)
      BY <1>0, <2>1, <2>2, Zenon DEF ServerReads, Only
    <3>2. Flow(inbox'[S], last'[S], FALSE, fin, FALSE)
      BY <2>1, <2>3, <3>1
    <3> QED
      BY <1>0, <2>1, <3>2 DEF ServerReads, Shape
  <2>5. ASSUME Running(C)
        PROVE  /\ pc[C] = "relay" /\ Level /\ Empty(inbox[C]) /\ ~noDial[S] /\ ~noDial[C] /\ ~gotFin[C]
               /\ Flow(inbox[S], last[S], TRUE, sentFin[C], FALSE)
    <3>1. Opening
      BY <2>1, <2>5 DEF Wire, Joint, Registering, Idling, Relaying, Releasing, Are
    <3> QED
      BY <2>2, <3>1 DEF Opening, Quiet, ToClient, ToServer, Are, Only
  <2>6. ASSUME Running(C) PROVE Relaying'
    <3>1. Flow(inbox'[S], last'[S], FALSE, sentFin'[C], FALSE)
      BY <1>0, <2>1, <2>3, <2>5, <2>6 DEF Shape
    <3>2. Pipe(inbox'[S], last'[S], sentFin'[C], gotFin'[S], FALSE)
      BY <2>1, <3>1 DEF Pipe
    <3>3. Flow(inbox'[C], last'[C], FALSE, FALSE, FALSE)
      BY <1>0, <2>1, <2>5, <2>6, FlowStarts DEF Shape
    <3>4. Pipe(inbox'[C], last'[C], sentFin'[S], gotFin'[C], FALSE)
      <4>1. sentFin'[S] = FALSE /\ ~gotFin'[C]
        BY <1>0, <2>1, <2>5, <2>6 DEF Shape
      <4> QED
        BY <3>3, <4>1, Zenon DEF Pipe
    <3> QED
      BY <1>0, <2>1, <2>5, <2>6, <3>2, <3>4 DEF Relaying, Dials, Level, Shape
  <2> QED
    BY <1>0, <2>1, <2>4, <2>6 DEF Wire, Joint, Shape
<1> QED
  BY <1>1, <1>2

\* A pump writes: its own end reads what it read before.
LEMMA PumpWire ==
    ASSUME TypeOK, TypeOK', Wire, NEW x \in End, PumpData(x) \/ PumpFin(x)
    PROVE  Wire'
<1>0. Shape /\ (Running(S) => ServerReads) /\ (Running(C) => ClientReads) /\ Shape'
  BY TypeShape, TypeShapeNext, WireReads
<1> DEFINE y == Peer(x)
           q == inbox[y]
           r == inbox'[y]
<1>1. /\ pc[x] = "relay" /\ y \in End /\ y # x /\ ~sentFin[x]
      /\ UNCHANGED <<pc, last, gotFin, nonce, noDial>>
  BY <1>0 DEF PumpData, PumpFin, At, leaseVars, Shape
<1>2. /\ PumpData(x) => Pushed(q, Plain("DATA", last[x]), r) /\ sentFin' = sentFin
      /\ PumpFin(x) => Pushed(q, Plain("FIN", last[x]), r) /\ sentFin' = [sentFin EXCEPT ![x] = TRUE]
      /\ inbox'[x] = inbox[x]
  BY <1>0, WriteEffect, PlainType DEF PumpData, PumpFin, Shape
<1>3. ~Running(y) => Wire'
  BY <1>0, <1>1, <1>2, Zenon DEF Wire, Running, ServerReads, ClientReads, Shape
<1>4. ASSUME Level
      PROVE  /\ Pipe(q, last[y], sentFin[x], gotFin[y], FALSE) => Pipe(r, last[y], sentFin'[x], gotFin[y], FALSE)
             /\ Flow(q, last[y], TRUE, sentFin[x], FALSE) => Flow(r, last[y], TRUE, sentFin'[x], FALSE)
  <2>1. /\ q \in Seq(AnyFrame) /\ r \in Seq(AnyFrame) /\ last[y] \in 0..MaxID /\ last[x] = last[y]
        /\ sentFin[x] = FALSE /\ gotFin[y] \in BOOLEAN /\ TRUE \in BOOLEAN /\ FALSE \in BOOLEAN
    BY <1>0, <1>1, <1>4 DEF Shape, Level
  <2>2. CASE PumpData(x)
    <3>1. Pushed(q, Plain("DATA", last[y]), r) /\ sentFin'[x] = FALSE
      BY <1>2, <2>1, <2>2
    <3> HIDE DEF q, r, y
    <3>2. Pipe(q, last[y], FALSE, gotFin[y], FALSE) => Pipe(r, last[y], FALSE, gotFin[y], FALSE)
      BY <2>1, <3>1, PipeGrows
    <3>3. Flow(q, last[y], TRUE, FALSE, FALSE) => Flow(r, last[y], TRUE, FALSE, FALSE)
      BY <2>1, <3>1, FlowGrows
    <3> QED
      BY <2>1, <3>1, <3>2, <3>3
  <2>3. CASE PumpFin(x)
    <3>1. Pushed(q, Plain("FIN", last[y]), r) /\ sentFin'[x] = TRUE
      BY <1>0, <1>2, <2>1, <2>3 DEF Shape
    <3> HIDE DEF q, r, y
    <3>2. Pipe(q, last[y], FALSE, gotFin[y], FALSE) => Pipe(r, last[y], TRUE, gotFin[y], FALSE)
      BY <2>1, <3>1, PipeGrows
    <3>3. Flow(q, last[y], TRUE, FALSE, FALSE) => Flow(r, last[y], TRUE, TRUE, FALSE)
      BY <2>1, <3>1, FlowGrows
    <3> QED
      BY <2>1, <3>1, <3>2, <3>3
  <2> QED
    BY <2>2, <2>3
<1>5. sentFin'[y] = sentFin[y]
  BY <1>0, <1>1, <1>2 DEF Shape
<1>6. CASE x = S /\ Running(C)
  <2>1. Relaying
    BY <1>1, <1>6 DEF Wire, Joint, Registering, Idling, Opening, Releasing, Are, Running
  <2>2. Relaying'
    BY <1>0, <1>1, <1>2, <1>4, <1>5, <1>6, <2>1 DEF Relaying, Relayed, Level, Dials, Shape
  <2> QED
    BY <1>1, <1>6, <2>2 DEF Wire, Joint, Running
<1>7. CASE x = C /\ Running(S)
  <2>1. Relaying \/ (Opening /\ pc[S] = "open")
    BY <1>1, <1>7 DEF Wire, Joint, Registering, Idling, Opening, Releasing, Are, Running
  <2>2. CASE Relaying
    <3>1. Relaying'
      BY <1>0, <1>1, <1>2, <1>4, <1>5, <1>7, <2>2 DEF Relaying, Relayed, Level, Dials, Shape
    <3> QED
      BY <1>1, <1>7, <3>1 DEF Wire, Joint, Running
  <2>3. CASE Opening /\ pc[S] = "open"
    <3>1. Opening'
      BY <1>0, <1>1, <1>2, <1>4, <1>5, <1>7, <2>3 DEF Opening, Are, Level, Empty, Shape
    <3> QED
      BY <1>1, <1>7, <3>1 DEF Wire, Joint, Running
  <2> QED
    BY <2>1, <2>2, <2>3
<1> QED
  BY <1>0, <1>3, <1>6, <1>7 DEF Shape

\* A pump reads: what its peer reads is as before.
LEMMA DeliverWire ==
    ASSUME TypeOK, TypeOK', Wire, NEW x \in End, Delivers(x)
    PROVE  Wire'
<1>0. Shape /\ (Running(S) => ServerReads) /\ (Running(C) => ClientReads) /\ Shape'
  BY TypeShape, TypeShapeNext, WireReads
<1> DEFINE y == Peer(x)
           q == inbox[x]
           r == inbox'[x]
<1>1. /\ pc[x] = "relay" /\ ~gotFin[x] /\ q # <<>> /\ y \in End /\ y # x
      /\ \/ q[1].type = "DATA" /\ gotFin' = gotFin
         \/ q[1].type = "FIN" /\ gotFin' = [gotFin EXCEPT ![x] = TRUE]
      /\ UNCHANGED <<pc, last, sentFin, nonce, noDial>>
  <2>1. y \in End /\ y # x
    BY <1>0 DEF Shape
  <2>2. CASE DeliverData(x)
    <3>1. Reads(x, "relay", "DATA", last[x]) /\ ~gotFin[x] /\ gotFin' = gotFin
          /\ UNCHANGED <<pc, last, sentFin, nonce, noDial>>
      BY <2>2 DEF DeliverData, leaseVars
    <3> QED
      BY <2>1, <3>1, ReadsHead
  <2>3. CASE DeliverFin(x)
    <3>1. Reads(x, "relay", "FIN", last[x]) /\ ~gotFin[x] /\ gotFin' = [gotFin EXCEPT ![x] = TRUE]
          /\ UNCHANGED <<pc, last, sentFin, nonce, noDial>>
      BY <2>3 DEF DeliverFin, leaseVars
    <3> QED
      BY <2>1, <3>1, ReadsHead
  <2> QED
    BY <2>2, <2>3 DEF Delivers
<1>2. Popped(q, r) /\ inbox'[y] = inbox[y]
  BY <1>1, ReadEffect DEF Delivers, DeliverData, DeliverFin
<1>3. /\ q \in Seq(AnyFrame) /\ r \in Seq(AnyFrame) /\ last[x] \in 0..MaxID
      /\ sentFin[y] \in BOOLEAN /\ gotFin[x] \in BOOLEAN /\ gotFin'[x] \in BOOLEAN /\ gotFin'[y] = gotFin[y]
      /\ FALSE \in BOOLEAN /\ TRUE \in BOOLEAN /\ ~Empty(q)
      /\ \/ q[1].type = "DATA" /\ gotFin'[x] = FALSE
         \/ q[1].type = "FIN" /\ gotFin'[x] = TRUE
  <2>1. q \in Seq(AnyFrame) /\ r \in Seq(AnyFrame) /\ last[x] \in 0..MaxID
    BY <1>0 DEF Shape
  <2>2. ~Empty(q)
    BY <1>2, <2>1 DEF Popped, Empty
  <2>3. /\ sentFin[y] \in BOOLEAN /\ gotFin[x] \in BOOLEAN /\ gotFin'[x] \in BOOLEAN
        /\ gotFin'[y] = gotFin[y]
    BY <1>0, <1>1 DEF Shape
  <2>4. \/ q[1].type = "DATA" /\ gotFin'[x] = FALSE
        \/ q[1].type = "FIN" /\ gotFin'[x] = TRUE
    BY <1>0, <1>1 DEF Shape
  <2> QED
    BY <2>1, <2>2, <2>3, <2>4
<1>4. ASSUME NEW rel \in BOOLEAN, Pipe(q, last[x], sentFin[y], gotFin[x], rel)
      PROVE  Pipe(r, last[x], sentFin[y], gotFin'[x], rel)
  <2>1. Pipe(q, last[x], sentFin[y], FALSE, rel)
    BY <1>1, <1>3, <1>4
  <2> HIDE DEF q, r, y
  <2>2. CASE q[1].type = "DATA" /\ gotFin'[x] = FALSE
    <3>1. Pipe(r, last[x], sentFin[y], FALSE, rel)
      BY <1>2, <1>3, <2>1, <2>2, PipeShrinks
    <3> QED
      BY <2>2, <3>1
  <2>3. CASE q[1].type = "FIN" /\ gotFin'[x] = TRUE
    <3>1. Pipe(r, last[x], sentFin[y], TRUE, rel)
      BY <1>2, <1>3, <2>1, <2>3, PipeShrinks
    <3> QED
      BY <2>3, <3>1
  <2> QED
    BY <1>3, <2>2, <2>3
<1>5. ASSUME NEW fin \in BOOLEAN, NEW rel \in BOOLEAN, Flow(q, last[x], FALSE, fin, rel)
      PROVE  \/ ~gotFin'[x] /\ Flow(r, last[x], FALSE, fin, rel)
             \/ gotFin'[x] /\ (IF rel THEN Only(r, Plain("RELEASE", last[x])) ELSE Empty(r))
  <2> HIDE DEF q, r, y
  <2>1. CASE q[1].type = "DATA" /\ gotFin'[x] = FALSE
    BY <1>2, <1>3, <1>5, <2>1, FlowShrinks
  <2>2. CASE q[1].type = "FIN" /\ gotFin'[x] = TRUE
    BY <1>2, <1>3, <1>5, <2>2, FlowEnds
  <2> QED
    BY <1>3, <2>1, <2>2
<1>6. CASE ~Running(y) /\ x = S
  <2>1. PICK fin \in BOOLEAN : Flow(q, last[S], FALSE, fin, FALSE)
    BY <1>0, <1>1, <1>3, <1>6, Zenon DEF ServerReads, Running
  <2>2. ServerReads'
    BY <1>1, <1>3, <1>5, <1>6, <2>1 DEF ServerReads
  <2> QED
    BY <1>0, <1>1, <1>6, <2>2 DEF Wire, Running, Shape
<1>7. CASE ~Running(y) /\ x = C
  <2>1. PICK fin \in BOOLEAN, rel \in BOOLEAN : (rel => fin) /\ Flow(q, last[C], FALSE, fin, rel)
    BY <1>0, <1>1, <1>3, <1>7, Zenon DEF ClientReads, Running
  <2>2. ClientReads'
    <3>1. CASE gotFin'[C]
      BY <1>1, <1>5, <1>7, <2>1, <3>1 DEF ClientReads
    <3>2. CASE ~gotFin'[C]
      BY <1>1, <1>5, <1>7, <2>1, <3>2 DEF ClientReads
    <3> QED
      BY <3>1, <3>2
  <2> QED
    BY <1>0, <1>1, <1>7, <2>2 DEF Wire, Running, Shape
<1>8. CASE Running(y)
  <2>1. Relaying
    BY <1>0, <1>1, <1>3, <1>8
       DEF Wire, Joint, Registering, Idling, Opening, Releasing, Are, Running, Shape
  <2>2. Relaying'
    BY <1>0, <1>1, <1>2, <1>3, <1>4, <2>1 DEF Relaying, Relayed, Level, Dials, Shape
  <2> QED
    BY <1>0, <1>1, <1>8, <2>2 DEF Wire, Joint, Running, Shape
<1> QED
  BY <1>0, <1>6, <1>7, <1>8 DEF Shape

\* RELEASE at the client's barrier: nothing follows it, and the server waits for
\* the answer to it in the same lease.
LEMMA AtBarrier ==
    ASSUME TypeOK, Wire, Reads(C, "barrier", "RELEASE", last[C])
    PROVE  /\ Len(inbox[C]) = 1
           /\ Running(S) => pc[S] = "barrier" /\ Level /\ Empty(inbox[S]) /\ noDial[S] = noDial[C]
<1>0. Shape /\ (Running(C) => ClientReads)
  BY TypeShape, WireReads
<1>1. pc[C] = "barrier" /\ Running(C) /\ ~Empty(inbox[C])
  BY <1>0, ReadsHead DEF Running, Empty, Shape
<1>2. Len(inbox[C]) = 1
  BY <1>0, <1>1 DEF ClientReads, Only
<1>3. ASSUME Running(S), ~(Are("barrier", "barrier") /\ Dials(TRUE, TRUE) /\ Level /\ Empty(inbox[S]))
      PROVE  pc[S] = "barrier" /\ Level /\ Empty(inbox[S]) /\ noDial[S] = noDial[C]
  <2>1. Relaying
    BY <1>1, <1>3 DEF Wire, Joint, Registering, Idling, Opening, Releasing, Are, Quiet, ToServer, ToClient
  <2>2. gotFin[C] /\ pc[S] = "barrier" /\ gotFin[S]
    <3>1. gotFin[C]
      BY <1>1, <2>1 DEF Relaying, Relayed
    <3>2. CASE pc[S] = "relay" /\ Pipe(inbox[C], last[C], sentFin[S], gotFin[C], FALSE)
      <4>1. Empty(inbox[C])
        BY <1>0, <3>1, <3>2 DEF Pipe
      <4> QED
        BY <1>2, <4>1 DEF Empty
    <3> QED
      BY <2>1, <3>1, <3>2 DEF Relaying, Relayed
  <2>3. Empty(inbox[S])
    BY <2>1, <2>2 DEF Relaying, Pipe
  <2> QED
    BY <2>1, <2>2, <2>3 DEF Relaying, Dials
<1> QED
  BY <1>1, <1>2, <1>3 DEF Are, Dials

\* A worker in the idle pool, or expiring: its client is idle too, and nothing is on its way.
LEMMA InPool ==
    ASSUME TypeOK, Wire, pc[S] \in {"idle", "expiring"}, Running(C)
    PROVE  pc[C] = "idle" /\ Level /\ Quiet
  BY DEF Wire, Joint, Registering, Idling, Opening, Relaying, Releasing, Are, Running

\* The barrier of RELEASE and READY keeps the wire invariant.
LEMMA ReleaseWire ==
    ASSUME TypeOK, TypeOK', Wire, ClientRelayed \/ Release \/ BackToIdle \/ Released
    PROVE  Wire'
<1>0. Shape /\ (Running(S) => ServerReads) /\ (Running(C) => ClientReads) /\ Shape'
  BY TypeShape, TypeShapeNext, WireReads
<1> USE DEF Running
<1>1. CASE ClientRelayed
  <2>1. /\ pc[C] = "relay" /\ Relayed(C) /\ pc' = [pc EXCEPT ![C] = "barrier"]
        /\ UNCHANGED <<inbox, last, sentFin, gotFin, nonce, noDial>>
    BY <1>1 DEF ClientRelayed, At, Goto, leaseVars
  <2>2. Running(S) => Relaying
    BY <2>1 DEF Wire, Joint, Registering, Idling, Opening, Releasing, Are, Relayed
  <2>3. Running(S) => Relaying'
    BY <1>0, <2>1, <2>2 DEF Relaying, Relayed, Level, Dials, Shape
  <2>4. ClientReads'
    BY <1>0, <2>1 DEF ClientReads, Relayed, Shape
  <2> QED
    BY <1>0, <2>1, <2>3, <2>4 DEF Wire, Joint, Shape
<1>2. CASE Release
  <2>1. /\ pc[S] = "relay" /\ Relayed(S) /\ pc' = [pc EXCEPT ![S] = "barrier"]
        /\ inbox'[S] = inbox[S] /\ Pushed(inbox[C], Plain("RELEASE", last[S]), inbox'[C])
        /\ UNCHANGED <<last, sentFin, gotFin, nonce, noDial>>
    BY <1>0, <1>2, WriteEffect, PlainType DEF Release, At, Goto, leaseVars, Shape
  <2>2. Running(C) => Relaying
    BY <2>1 DEF Wire, Joint, Registering, Idling, Opening, Releasing, Are
  <2>3. ASSUME Running(C) PROVE Relaying'
    <3>1. Level /\ Pipe(inbox[C], last[C], sentFin[S], gotFin[C], FALSE) /\ sentFin[S]
      BY <2>1, <2>2, <2>3 DEF Relaying, Relayed
    <3>2. Pipe(inbox'[C], last[C], sentFin[S], gotFin[C], TRUE)
      <4>1. /\ inbox[C] \in Seq(AnyFrame) /\ inbox'[C] \in Seq(AnyFrame) /\ last[C] \in 0..MaxID
            /\ sentFin[S] \in BOOLEAN /\ gotFin[C] \in BOOLEAN /\ Pushed(inbox[C], Plain("RELEASE", last[C]), inbox'[C])
        BY <1>0, <2>1, <3>1 DEF Shape, Level
      <4> QED
        BY <3>1, <4>1, PipeGrows
    <3> QED
      BY <1>0, <2>1, <2>2, <2>3, <3>2 DEF Relaying, Relayed, Level, Dials, Shape
  <2>4. ServerReads'
    <3>1. Empty(inbox[S])
      BY <1>0, <2>1, Zenon DEF ServerReads, Relayed
    <3> QED
      BY <1>0, <2>1, <3>1 DEF ServerReads, Shape
  <2> QED
    BY <1>0, <2>1, <2>3, <2>4 DEF Wire, Joint, Shape
<1>3. CASE BackToIdle
  <2>1. Reads(C, "barrier", "RELEASE", last[C]) /\ pc[C] = "barrier"
    BY <1>3 DEF BackToIdle, Reads, At
  <2>2. /\ Popped(inbox[C], inbox'[C]) /\ Pushed(inbox[S], Plain("READY", last[C]), inbox'[S])
        /\ pc' = [pc EXCEPT ![C] = "idle"] /\ last' = last
    BY <1>0, <1>3, <2>1, ReadsHead, AnswerEffect, PlainType DEF BackToIdle, Goto, Shape
  <2>3. Empty(inbox'[C])
    BY <1>0, <2>1, <2>2, AtBarrier DEF Popped, Empty, Shape
  <2>4. ASSUME Running(S) PROVE Releasing'
    <3>1. pc[S] = "barrier" /\ Level /\ Empty(inbox[S])
      BY <2>1, <2>4, AtBarrier
    <3> QED
      BY <1>0, <2>2, <2>3, <3>1 DEF Releasing, Are, Level, ToServer, Empty, Only, Pushed, Shape
  <2>5. ClientReads'
    BY <1>0, <2>2, <2>3 DEF ClientReads, Shape
  <2> QED
    BY <1>0, <2>1, <2>2, <2>4, <2>5 DEF Wire, Joint, Shape
<1>4. CASE Released
  <2>1. /\ Popped(inbox[S], inbox'[S]) /\ inbox'[C] = inbox[C] /\ ~Empty(inbox[S])
        /\ pc[S] = "barrier" /\ pc' = [pc EXCEPT ![S] = "idle"] /\ last' = last
    <3>1. inbox[S] # <<>> /\ pc[S] = "barrier"
      BY <1>0, <1>4, ReadsHead DEF Released, Shape
    <3>2. Popped(inbox[S], inbox'[S]) /\ inbox'[C] = inbox[C]
      BY <1>0, <1>4, <3>1, ReadEffect DEF Released, Shape
    <3> QED
      BY <1>0, <1>4, <3>1, <3>2 DEF Released, Goto, Empty, Popped, Shape
  <2>2. Empty(inbox'[S])
    <3>1. Len(inbox[S]) = 1
      BY <1>0, <2>1 DEF ServerReads, Only
    <3> QED
      BY <1>0, <2>1, <3>1 DEF Popped, Empty
  <2>3. ASSUME Running(C) PROVE pc[C] = "idle" /\ Level /\ Empty(inbox[C])
    <3>1. ~Relaying
      <4>1. ASSUME Relaying PROVE gotFin[S] /\ Pipe(inbox[S], last[S], sentFin[C], gotFin[S], FALSE)
        BY <2>1, <4>1 DEF Relaying, Relayed
      <4> QED
        BY <2>1, <4>1 DEF Pipe
    <3> QED
      BY <2>1, <2>3, <3>1 DEF Wire, Joint, Registering, Idling, Opening, Releasing, Are, ToServer, ToClient
  <2>4. Running(C) => Idling'
    BY <1>0, <2>1, <2>2, <2>3 DEF Idling, Are, Quiet, Level, Shape
  <2>5. ServerReads'
    BY <1>0, <2>1, <2>2 DEF ServerReads, Shape
  <2> QED
    BY <1>0, <2>1, <2>4, <2>5 DEF Wire, Joint, Shape
<1> QED
  BY <1>1, <1>2, <1>3, <1>4

\* A worker that leaves the pool for good has nothing on its way.
LEMMA ExpiresWire ==
    ASSUME TypeOK, TypeOK', Wire, Expires
    PROVE  Wire'
<1>0. Shape /\ ServerReads
  BY TypeShape, WireReads DEF Expires, At, Running
<1>1. /\ pc[S] = "idle" /\ pc' = [pc EXCEPT ![S] = "expiring"]
      /\ UNCHANGED <<inbox, last, sentFin, gotFin, nonce, noDial>>
  BY DEF Expires, At, Goto, leaseVars
<1>2. pc'[S] = "expiring" /\ pc'[C] = pc[C]
  BY <1>0, <1>1 DEF Shape
<1>3. Running(C) => Idling'
  <2>1. Running(C) => pc[C] = "idle" /\ Level /\ Quiet
    BY <1>1, InPool
  <2> QED
    BY <1>1, <1>2, <2>1 DEF Idling, Are, Quiet, Level
<1>4. ServerReads'
  BY <1>0, <1>1, <1>2 DEF ServerReads
<1> QED
  BY <1>1, <1>2, <1>3, <1>4 DEF Wire, Joint, Running

\* The last frame of an end that returns is one the other can read.
LEMMA LastWordWire ==
    ASSUME TypeOK, TypeOK', Wire, ServerRejects \/ Goodbye \/ Surplus
    PROVE  Wire'
<1>0. Shape /\ (Running(S) => ServerReads) /\ Shape' /\ 0 \in 0..MaxID
  BY TypeShape, TypeShapeNext, WireReads, IDAssumption
<1> USE DEF Running
<1>1. CASE ServerRejects
  <2>1. /\ Popped(inbox[S], inbox'[S]) /\ Pushed(inbox[C], Plain("HELLO_ERR", 0), inbox'[C])
        /\ pc[S] = "hello" /\ pc' = [pc EXCEPT ![S] = "gone"]
    BY <1>0, <1>1, ReadsHead, AnswerEffect, FrameType DEF ServerRejects, Return, Goto, Shape
  <2>2. Running(C) => pc[C] = "hello" /\ Empty(inbox[C])
    BY <1>0, <2>1 DEF Wire, Joint, Registering, Idling, Opening, Relaying, Releasing, Are, Quiet, ToServer,
       Popped, Empty
  <2>3. Running(C) => ClientReads'
    BY <1>0, <2>1, <2>2 DEF ClientReads, Empty, Only, Pushed, Shape
  <2> QED
    BY <1>0, <2>1, <2>3 DEF Wire, Shape
<1>2. CASE Goodbye
  <2>1. /\ Pushed(inbox[C], Plain("CLOSE", 0), inbox'[C])
        /\ pc[S] = "expiring" /\ pc' = [pc EXCEPT ![S] = "gone"]
    BY <1>0, <1>2, WriteEffect, FrameType DEF Goodbye, At, Return, Goto, Shape
  <2>2. Running(C) => ClientReads'
    BY <1>0, <2>1, InPool DEF ClientReads, Quiet, Empty, Only, Pushed, Shape
  <2> QED
    BY <1>0, <2>1, <2>2 DEF Wire, Shape
<1>3. CASE Surplus
  <2>1. Reads(C, "barrier", "RELEASE", last[C]) /\ pc[C] = "barrier"
    BY <1>3 DEF Surplus, Reads, At
  <2>2. /\ Pushed(inbox[S], Plain("CLOSE", 0), inbox'[S]) /\ pc' = [pc EXCEPT ![C] = "gone"]
    BY <1>0, <1>3, <2>1, ReadsHead, AnswerEffect, FrameType DEF Surplus, Return, Goto, Shape
  <2>3. Running(S) => ServerReads'
    BY <1>0, <2>1, <2>2, AtBarrier DEF ServerReads, Empty, Only, Pushed, Shape
  <2> QED
    BY <1>0, <2>1, <2>2, <2>3 DEF Wire, Shape
<1> QED
  BY <1>1, <1>2, <1>3

\* Every step keeps the wire invariant.
LEMMA WireStep ==
    ASSUME TypeOK, TypeOK', Wire, [Next]_vars
    PROVE  Wire'
<1>0. Shape
  BY TypeShape
<1>1. CASE UNCHANGED <<pc, inbox, last, sentFin, gotFin, nonce, noDial>>
  BY <1>1 DEF Wire, Running, Joint, Registering, Idling, Opening, Relaying, Releasing, Relayed, Are, Quiet,
     ToServer, ToClient, Level, Dials, ServerReads, ClientReads
<1>2. CASE ServerAnswers
  <2>1. CASE ClientClosed
    <3>1. inbox[S] # <<>> /\ Running(S)
      BY <1>0, <2>1, ReadsHead DEF ClientClosed, Running, Shape
    <3>2. inbox'[Peer(S)] = inbox[Peer(S)] /\ Return(S, "client_close")
      BY <1>0, <2>1, <3>1, ReadEffect DEF ClientClosed, Shape
    <3> QED
      BY <1>0, <3>1, <3>2, ReturnWire DEF Shape
  <2> QED
    BY <1>2, <2>1, HandshakeWire, HeartbeatWire, OpenWire, RelayStartsWire, ReleaseWire, LastWordWire
       DEF ServerAnswers
<1>3. CASE ServerStarts
  <2>1. CASE Exhausted
    BY <1>0, <2>1, ReturnWire DEF Exhausted, At, Running, Shape
  <2> QED
    BY <1>3, <2>1, HeartbeatWire, OpenWire, ExpiresWire, LastWordWire DEF ServerStarts
<1>4. CASE ClientStep
  <2>1. CASE HelloRejected \/ ServerClosed
    <3>1. inbox[C] # <<>> /\ Running(C)
      BY <1>0, <2>1, ReadsHead DEF HelloRejected, ServerClosed, Running, Shape
    <3>2. inbox'[Peer(C)] = inbox[Peer(C)]
      BY <1>0, <2>1, <3>1, ReadEffect DEF HelloRejected, ServerClosed, Shape
    <3> QED
      BY <1>0, <2>1, <3>1, <3>2, ReturnWire DEF HelloRejected, ServerClosed, Shape
  <2> QED
    BY <1>4, <2>1, HandshakeWire, HeartbeatWire, OpenWire, RelayStartsWire, ReleaseWire, LastWordWire
       DEF ClientStep
<1>5. CASE ClientStops
  BY <1>0, <1>5, ReturnWire DEF ClientStops, At, Running, Shape
<1>6. ASSUME NEW x \in End, PumpData(x) \/ PumpFin(x) \/ Delivers(x) \/ CloseUnder(x)
      PROVE  Wire'
  BY <1>1, <1>6, PumpWire, DeliverWire DEF CloseUnder, leaseVars
<1>7. ASSUME NEW x \in End, Fails(x) \/ NetworkFails(x) \/ TimesOut(x)
      PROVE  Wire'
  <2>1. Running(x) /\ inbox' = inbox /\ \E r : Return(x, r)
    BY <1>7 DEF Fails, NetworkFails, TimesOut, Running
  <2> QED
    BY <1>0, <2>1, ReturnWire DEF Shape
<1> QED
  BY <1>1, <1>2, <1>3, <1>4, <1>5, <1>6, <1>7 DEF Next, Terminated, vars, leaseVars

-----------------------------------------------------------------------------
(* How connections end.                                                     *)

\* The peer has retired the connection with CLOSE.
Retired(x) == (x = C /\ why[S] = "expired") \/ (x = S /\ why[C] = "surplus")

\* It is all that x can still read.
LEMMA RetiredReads ==
    ASSUME TypeOK, Ends, NEW x \in End, Running(x), Retired(x)
    PROVE  /\ pc[x] = IF x = C THEN "idle" ELSE "barrier"
           /\ Len(inbox[x]) = 1 /\ inbox[x][1].type = "CLOSE" /\ inbox[Peer(x)] = <<>>
<1>1. Plain("CLOSE", 0).type = "CLOSE"
  BY FrameType, IDAssumption
<1>2. Shape
  BY TypeShape
<1>3. CASE x = C
  <2>1. pc[C] = "idle" /\ ToClient(Plain("CLOSE", 0))
    BY <1>2, <1>3 DEF Ends, Retired, Shape
  <2> QED
    BY <1>1, <1>2, <1>3, <2>1 DEF ToClient, Only, Empty, Shape
<1>4. CASE x = S
  <2>1. pc[S] = "barrier" /\ ToServer(Plain("CLOSE", 0))
    BY <1>2, <1>4 DEF Ends, Retired, Shape
  <2> QED
    BY <1>1, <1>2, <1>4, <2>1 DEF ToServer, Only, Empty, Shape
<1> QED
  BY <1>2, <1>3, <1>4 DEF Shape

\* A step after which its end still runs keeps what is known of the ends.
LEMMA StepEnds ==
    ASSUME TypeOK, Ends, NEW x \in End, ~Retired(x), Running(x), Running(x)',
           pc'[Peer(x)] = pc[Peer(x)], UNCHANGED <<why, closed>>
    PROVE  Ends'
<1>0. Shape
  BY TypeShape
<1>1. \A y \in End : pc'[y] = "gone" <=> pc[y] = "gone"
  BY <1>0 DEF Running, Shape
<1>2. ~(why[S] = "expired" /\ Running(C)) /\ ~(why[C] = "surplus" /\ Running(S))
  <2>1. (why[S] = "running" <=> Running(S)) /\ (why[C] = "running" <=> Running(C))
    BY <1>0 DEF Ends, Shape
  <2> QED
    BY <1>0, <2>1 DEF Retired, Shape
<1> QED
  BY <1>0, <1>1, <1>2 DEF Ends, Running, RetirementIsClean, Shape

\* An end that returns keeps what is known of the ends, if its reason is the one its place gives.
LEMMA ReturnEnds ==
    ASSUME TypeOK, Ends, NEW x \in End, NEW r \in Reason \ {"running"}, Running(x), Return(x, r),
           r = "error" => closed[Peer(x)] /\ ~Retired(x),
           r = "expired" => /\ x = S /\ why[C] # "error"
                            /\ Running(C) => pc[C] = "idle" /\ ToClient(Plain("CLOSE", 0))',
           r = "surplus" => /\ x = C /\ why[S] # "error"
                            /\ Running(S) => pc[S] = "barrier" /\ ToServer(Plain("CLOSE", 0))'
    PROVE  Ends'
<1>0. Shape /\ closed \in [End -> BOOLEAN] /\ why \in [End -> Reason]
  BY TypeShape DEF TypeOK
<1>1. /\ pc' = [pc EXCEPT ![x] = "gone"] /\ why' = [why EXCEPT ![x] = r]
      /\ closed' = [closed EXCEPT ![x] = TRUE]
  BY DEF Return, Goto
<1>2. \A y \in End : /\ why'[y] = "running" <=> Running(y)'
                     /\ pc'[y] = "gone" => closed'[y]
                     /\ why'[y] = "error" => closed'[Peer(y)]
  BY <1>0, <1>1 DEF Ends, Running, Shape
<1>3. CASE x = S
  <2>1. pc'[S] = "gone" /\ pc'[C] = pc[C] /\ why'[C] = why[C] /\ why'[S] = r
    BY <1>0, <1>1, <1>3 DEF Shape
  <2>2. why[C] = "surplus" => r # "error"
    BY <1>3 DEF Retired
  <2> QED
    BY <1>2, <2>1, <2>2 DEF Ends, Running, RetirementIsClean
<1>4. CASE x = C
  <2>1. pc'[C] = "gone" /\ pc'[S] = pc[S] /\ why'[S] = why[S] /\ why'[C] = r
    BY <1>0, <1>1, <1>4 DEF Shape
  <2>2. why[S] = "expired" => r # "error"
    BY <1>4 DEF Retired
  <2> QED
    BY <1>2, <2>1, <2>2 DEF Ends, Running, RetirementIsClean
<1> QED
  BY <1>0, <1>3, <1>4 DEF Shape

\* Every step keeps what is known of how the ends return.
LEMMA EndsStep ==
    ASSUME TypeOK, Wire, Ends, [Next]_vars
    PROVE  Ends'
<1>0. Shape /\ 0 \in 0..MaxID /\ closed \in [End -> BOOLEAN]
  BY TypeShape, IDAssumption DEF TypeOK
<1>1. CASE UNCHANGED <<pc, inbox, why>> /\ \A y \in End : closed[y] => closed'[y]
  BY <1>0, <1>1 DEF Ends, Running, RetirementIsClean, ToClient, ToServer, Shape
<1>2. ASSUME NEW x \in End, UNCHANGED <<why, closed>>, ~Retired(x), pc[x] # "gone",
             NEW p \in Place \ {"gone"}, pc' = [pc EXCEPT ![x] = p]
      PROVE  Ends'
  <2>1. Running(x) /\ Running(x)' /\ pc'[Peer(x)] = pc[Peer(x)]
    BY <1>0, <1>2 DEF Running, Shape
  <2> QED
    BY <1>2, <2>1, StepEnds
<1>3. ASSUME NEW x \in End, NEW p, NEW t, NEW i, p # "gone", t # "CLOSE", Reads(x, p, t, i)
      PROVE  pc[x] # "gone" /\ ~Retired(x)
  BY <1>3, RetiredReads, ReadsHead DEF Running
<1>4. ASSUME NEW x \in End, pc[x] \notin {"gone", "barrier"}, x = S \/ pc[x] # "idle"
      PROVE  ~Retired(x)
  BY <1>0, <1>4, RetiredReads DEF Running, Shape
<1>5. ASSUME NEW x \in End, Running(x), NEW r \in Reason \ {"running", "error", "expired", "surplus"},
             Return(x, r)
      PROVE  Ends'
  BY <1>5, ReturnEnds
<1>6. CASE ServerAnswers
  <2>1. CASE ServerRejects \/ ClientClosed
    BY <1>0, <1>5, <2>1 DEF ServerRejects, ClientClosed, Reads, At, Running, Reason, Shape
  <2>2. CASE ServerAdmits \/ ServerReady \/ PongReceived
    BY <1>0, <1>2, <1>4, <2>2 DEF ServerAdmits, ServerReady, PongReceived, Reads, At, Goto, Place, Shape
  <2>3. CASE OpenAccepted \/ OpenRefused \/ Release
    BY <1>0, <1>2, <1>4, <2>3 DEF OpenAccepted, OpenRefused, Release, Reads, At, StartRelay, Goto, Place, Shape
  <2>4. CASE Released
    <3>1. Reads(S, "barrier", "READY", last[S])
      BY <2>4 DEF Released
    <3>2. pc[S] # "gone" /\ ~Retired(S)
      BY <1>0, <1>3, <3>1 DEF Shape
    <3> QED
      BY <1>0, <1>2, <2>4, <3>2 DEF Released, Goto, Place, Shape
  <2> QED
    BY <1>6, <2>1, <2>2, <2>3, <2>4 DEF ServerAnswers
<1>7. CASE ServerStarts
  <2>1. CASE Ping \/ Expires \/ Open
    BY <1>0, <1>2, <1>4, <2>1 DEF Ping, Expires, Open, At, Goto, Place, Shape
  <2>2. CASE Goodbye
    <3>1. /\ Pushed(inbox[C], Plain("CLOSE", 0), inbox'[C]) /\ inbox'[S] = inbox[S]
          /\ pc[S] = "expiring" /\ ~closed[S] /\ Return(S, "expired")
      BY <1>0, <2>2, WriteEffect, FrameType DEF Goodbye, At, Shape
    <3>2. Running(C) => pc[C] = "idle" /\ ToClient(Plain("CLOSE", 0))'
      BY <1>0, <3>1, InPool DEF Quiet, Empty, ToClient, Only, Pushed, Shape
    <3>3. why[C] # "error"
      BY <1>0, <3>1 DEF Ends, Shape
    <3> QED
      BY <1>0, <3>1, <3>2, <3>3, ReturnEnds DEF Running, Reason, Shape
  <2>3. CASE Exhausted
    BY <1>0, <1>5, <2>3 DEF Exhausted, At, Running, Reason, Shape
  <2> QED
    BY <1>7, <2>1, <2>2, <2>3 DEF ServerStarts
<1>8. CASE ClientStep
  <2>1. CASE HelloRejected \/ ServerClosed
    BY <1>0, <1>5, <2>1 DEF HelloRejected, ServerClosed, Reads, At, Running, Reason, Shape
  <2>2. CASE Hello \/ HelloAccepted \/ DialFails
    BY <1>0, <1>2, <1>4, <2>2 DEF Hello, HelloAccepted, DialFails, Reads, At, Goto, Place, Shape
  <2>3. CASE Dialled \/ ClientRelayed
    BY <1>0, <1>2, <1>4, <2>3 DEF Dialled, ClientRelayed, At, StartRelay, Goto, Place, Shape
  <2>4. CASE OpenReceived \/ BackToIdle \/ Pong
    <3>1. \/ Reads(C, "idle", "OPEN", last[C] + 1)
          \/ Reads(C, "barrier", "RELEASE", last[C])
          \/ Reads(C, "idle", "PING", 0)
      BY <2>4 DEF OpenReceived, BackToIdle, Pong
    <3>2. pc[C] # "gone" /\ ~Retired(C)
      BY <1>0, <1>3, <3>1 DEF Shape
    <3>3. (pc' = [pc EXCEPT ![C] = "dial"] \/ pc' = [pc EXCEPT ![C] = "idle"]) /\ UNCHANGED <<why, closed>>
      BY <1>0, <2>4 DEF OpenReceived, BackToIdle, Pong, Reads, At, Goto, Shape
    <3> QED
      BY <1>0, <1>2, <3>2, <3>3 DEF Place, Shape
  <2>5. CASE Surplus
    <3>1. Reads(C, "barrier", "RELEASE", last[C]) /\ pc[C] = "barrier" /\ ~closed[C] /\ Return(C, "surplus")
      BY <2>5 DEF Surplus, Reads, At
    <3>2. Popped(inbox[C], inbox'[C]) /\ Pushed(inbox[S], Plain("CLOSE", 0), inbox'[S])
      BY <1>0, <2>5, <3>1, ReadsHead, AnswerEffect, FrameType DEF Surplus, Shape
    <3>3. Running(S) => pc[S] = "barrier" /\ ToServer(Plain("CLOSE", 0))'
      BY <1>0, <3>1, <3>2, AtBarrier DEF ToServer, Empty, Only, Popped, Pushed, Shape
    <3>4. why[S] # "error"
      BY <1>0, <3>1 DEF Ends, Shape
    <3> QED
      BY <1>0, <3>1, <3>3, <3>4, ReturnEnds DEF Running, Reason, Shape
  <2> QED
    BY <1>8, <2>1, <2>2, <2>3, <2>4, <2>5 DEF ClientStep
<1>9. CASE ClientStops
  BY <1>0, <1>5, <1>9 DEF ClientStops, At, Running, Reason, Shape
<1>10. ASSUME NEW x \in End, PumpData(x) \/ PumpFin(x) \/ Delivers(x)
      PROVE  Ends'
  <2>1. At(x, "relay") /\ UNCHANGED <<pc, why, closed>> /\ pc' = [pc EXCEPT ![x] = "relay"]
    BY <1>0, <1>10 DEF PumpData, PumpFin, Delivers, DeliverData, DeliverFin, Reads, At, Shape
  <2> QED
    BY <1>0, <1>2, <1>4, <2>1 DEF At, Place, Shape
<1>11. ASSUME NEW x \in End, CloseUnder(x)
      PROVE  Ends'
  BY <1>0, <1>1, <1>11 DEF CloseUnder
<1>12. ASSUME NEW x \in End, NetworkFails(x) \/ TimesOut(x)
       PROVE  Ends'
  BY <1>5, <1>12 DEF NetworkFails, TimesOut, Failure, Running, Reason
<1>13. ASSUME NEW x \in End, Fails(x)
       PROVE  Ends'
  <2>1. CASE closed[x]
    BY <1>5, <1>13, <2>1 DEF Fails, Failure, Running, Reason
  <2>3. CASE pc[x] = "expiring"
    BY <1>5, <1>13, <2>3 DEF Fails, Failure, Running, Reason
  <2>2. CASE ~closed[x] /\ pc[x] # "expiring"
    <3>1. Running(x) /\ Broken(x) /\ Return(x, "error")
      BY <1>13, <2>2 DEF Fails, Failure, Running
    <3>2. closed[Peer(x)] /\ ~Retired(x)
      BY <1>0, <3>1, RetiredReads DEF Broken, Shape
    <3> QED
      BY <3>1, <3>2, ReturnEnds DEF Reason
  <2> QED
    BY <2>1, <2>2, <2>3
<1> QED
  BY <1>1, <1>6, <1>7, <1>8, <1>9, <1>10, <1>11, <1>12, <1>13 DEF Next, Terminated, vars, leaseVars

-----------------------------------------------------------------------------
(* What is recorded of a lease.                                             *)

\* While the server is at the barrier, only an idle client has answered.
LEMMA BarrierQuiet ==
    TypeOK /\ Wire /\ pc[S] = "barrier" /\ Running(C) /\ ~Empty(inbox[S]) => pc[C] = "idle" /\ Empty(inbox[C])
<1> SUFFICES ASSUME TypeOK, Wire, pc[S] = "barrier", Running(C), ~Empty(inbox[S])
             PROVE  pc[C] = "idle" /\ Empty(inbox[C])
  OBVIOUS
<1>1. ~Relaying
  BY DEF Relaying, Relayed, Pipe
<1> QED
  BY <1>1 DEF Wire, Joint, Registering, Idling, Opening, Releasing, Are, ToServer, ToClient, Running

\* The same, after the step.
LEMMA BarrierQuietNext ==
    (TypeOK /\ Wire /\ pc[S] = "barrier" /\ Running(C) /\ ~Empty(inbox[S]) => pc[C] = "idle" /\ Empty(inbox[C]))'
  BY BarrierQuiet, PTL

\* A step that records nothing and starts no lease.
LEMMA SilentOutcomes ==
    ASSUME TypeOK, Outcomes, NEW x \in End, NEW p, pc' = [pc EXCEPT ![x] = p],
           p \in InLease => pc[x] \in InLease, UNCHANGED <<last, outcome>>, BarrierAnswer'
    PROVE  Outcomes'
  BY DEF Outcomes, Unrecorded, LeaseIDs, OutcomesAgree, TypeOK

\* A step that records how x's lease ended.
LEMMA RecordOutcomes ==
    ASSUME TypeOK, Outcomes, NEW x \in End, NEW p \in Place \ InLease, NEW o, pc[x] \in InLease,
           pc' = [pc EXCEPT ![x] = p], last' = last, outcome' = [outcome EXCEPT ![x][last[x]] = o],
           x = S => \/ o = "error"
                    \/ o \in {"ok", "dial_failed"} /\ outcome[C][last[S]] = o
                    \/ o = "client_close" /\ outcome[C][last[S]] \in {"ok", "dial_failed"},
           BarrierAnswer'
    PROVE  Outcomes'
<1>0. /\ Shape /\ last[x] \in 1..MaxID /\ outcome[x][last[x]] = "none"
      /\ DOMAIN outcome = End /\ \A y \in End : DOMAIN outcome[y] = 1..MaxID
  BY TypeShape DEF Outcomes, Unrecorded, LeaseIDs, TypeOK
<1>1. \A y \in End : \A i \in 1..MaxID :
          outcome'[y][i] = IF y = x /\ i = last[x] THEN o ELSE outcome[y][i]
  BY <1>0 DEF TypeOK
<1>2. Unrecorded' /\ LeaseIDs'
  BY <1>0, <1>1 DEF Outcomes, Unrecorded, LeaseIDs, Shape
<1>3. OutcomesAgree'
  BY <1>0, <1>1 DEF Outcomes, OutcomesAgree, Shape
<1> QED
  BY <1>2, <1>3 DEF Outcomes

\* A return for a reason that is not an answer at the barrier.
LEMMA ReturnOutcomes ==
    ASSUME TypeOK, Wire, Outcomes, NEW x \in End, NEW r, Running(x), Return(x, r),
           r \notin {"client_close", "surplus"}, x = C => inbox'[S] = inbox[S]
    PROVE  Outcomes'
<1>0. Shape /\ "gone" \in Place \ InLease
  BY TypeShape DEF Place, InLease
<1>1. /\ pc' = [pc EXCEPT ![x] = "gone"] /\ last' = last /\ noDial' = noDial
      /\ IF pc[x] \in InLease THEN outcome' = [outcome EXCEPT ![x][last[x]] = "error"] ELSE outcome' = outcome
  BY DEF Return, Goto, Record, Abandoned, leaseVars
<1>2. BarrierAnswer'
  <2>1. CASE x = S
    BY <1>0, <1>1, <2>1 DEF BarrierAnswer, Shape
  <2>2. CASE x = C
    <3>1. pc'[S] = pc[S] /\ (pc[S] = "barrier" /\ ~Empty(inbox[S]) => pc[C] = "idle")
      BY <1>0, <1>1, <2>2, BarrierQuiet DEF Shape
    <3> QED
      BY <1>1, <2>2, <3>1 DEF BarrierAnswer, Outcomes, Finished, InLease
  <2> QED
    BY <1>0, <2>1, <2>2 DEF Shape
<1>3. CASE pc[x] \in InLease
  BY <1>0, <1>1, <1>2, <1>3, RecordOutcomes
<1>4. CASE pc[x] \notin InLease
  BY <1>0, <1>1, <1>2, <1>4, SilentOutcomes
<1> QED
  BY <1>3, <1>4

\* The two answers to RELEASE are recorded by the client as they are written.
LEMMA AnswerOutcomes ==
    ASSUME TypeOK, Wire, Outcomes, BackToIdle \/ Surplus
    PROVE  Outcomes'
<1>0. Shape /\ {"idle", "gone"} \subseteq Place \ InLease
  BY TypeShape DEF Place, InLease
<1>1. Reads(C, "barrier", "RELEASE", last[C]) /\ pc[C] = "barrier" /\ pc[C] \in InLease
  BY DEF BackToIdle, Surplus, Reads, At, InLease
<1>2. PICK p \in {"idle", "gone"} :
        /\ pc' = [pc EXCEPT ![C] = p] /\ last' = last /\ noDial' = noDial
        /\ outcome' = [outcome EXCEPT ![C][last[C]] = Finished(C)]
  BY <1>1 DEF BackToIdle, Surplus, Return, Goto, Record, Abandoned
<1>3. BarrierAnswer'
  <2>1. SUFFICES ASSUME pc'[S] = "barrier"
                 PROVE  outcome'[C][last[S]] = Finished(S)' /\ Finished(S)' \in {"ok", "dial_failed"}
    BY <1>2 DEF BarrierAnswer
  <2>2. pc[S] = "barrier"
    BY <1>0, <1>2, <2>1 DEF Shape
  <2>3. Level /\ noDial[S] = noDial[C]
    BY <1>1, <2>2, AtBarrier DEF Running
  <2>4. last[C] \in 1..MaxID /\ outcome \in [End -> [1..MaxID -> {"none", "ok", "dial_failed", "client_close", "error"}]]
    BY <1>0, <1>1 DEF Outcomes, LeaseIDs, TypeOK, Shape
  <2> QED
    BY <1>0, <1>2, <2>3, <2>4 DEF Finished, Level, Shape
<1> QED
  BY <1>0, <1>1, <1>2, <1>3, RecordOutcomes DEF Shape

\* The server records what the answer at the barrier says.
LEMMA AnsweredOutcomes ==
    ASSUME TypeOK, Wire, Outcomes, Released \/ ClientClosed
    PROVE  Outcomes'
<1>0. Shape /\ 0 \in 0..MaxID /\ {"idle", "gone"} \subseteq Place \ InLease
  BY TypeShape, IDAssumption DEF Place, InLease
<1>1. \/ Released /\ Reads(S, "barrier", "READY", last[S])
      \/ ClientClosed /\ Reads(S, "barrier", "CLOSE", 0)
  BY DEF Released, ClientClosed
<1>2. /\ pc[S] = "barrier" /\ pc[S] \in InLease /\ ~Empty(inbox[S])
      /\ \/ Released /\ inbox[S][1].type = "READY"
         \/ ClientClosed /\ inbox[S][1].type = "CLOSE"
  BY <1>0, <1>1, ReadsHead DEF InLease, Empty, Shape
<1>3. inbox[S][1] \in {Plain("READY", last[S]), Plain("CLOSE", 0)}
  BY <1>2, WireReads DEF ServerReads, Only, Running
<1>4. Plain("READY", last[S]).type = "READY" /\ Plain("CLOSE", 0).type = "CLOSE"
  BY <1>0, FrameType DEF Shape
<1>5. CASE Released
  <2>1. outcome[C][last[S]] = Finished(S)
    BY <1>0, <1>2, <1>3, <1>4, <1>5 DEF Outcomes, BarrierAnswer, Released, Goto, ClientClosed, Return, Shape
  <2>2. /\ pc' = [pc EXCEPT ![S] = "idle"] /\ last' = last
        /\ outcome' = [outcome EXCEPT ![S][last[S]] = Finished(S)]
    BY <1>5 DEF Released, Goto, Record
  <2>3. BarrierAnswer'
    BY <1>0, <2>2 DEF BarrierAnswer, Shape
  <2>4. Finished(S) \in {"ok", "dial_failed"}
    BY DEF Finished
  <2> QED
    BY <1>0, <1>2, <2>1, <2>2, <2>3, <2>4, RecordOutcomes DEF Shape
<1>6. CASE ClientClosed
  <2>1. outcome[C][last[S]] \in {"ok", "dial_failed"}
    BY <1>0, <1>2, <1>3, <1>4, <1>6 DEF Outcomes, BarrierAnswer, Released, Goto, ClientClosed, Return, Shape
  <2>2. /\ pc' = [pc EXCEPT ![S] = "gone"] /\ last' = last
        /\ outcome' = [outcome EXCEPT ![S][last[S]] = "client_close"]
    BY <1>2, <1>6 DEF ClientClosed, Return, Goto, Record, Abandoned
  <2>3. BarrierAnswer'
    BY <1>0, <2>2 DEF BarrierAnswer, Shape
  <2> QED
    BY <1>0, <1>2, <2>1, <2>2, <2>3, RecordOutcomes DEF Shape
<1> QED
  BY <1>5, <1>6

\* Every step keeps the recorded outcomes in agreement.
LEMMA OutcomesStep ==
    ASSUME TypeOK, TypeOK', Wire, Wire', Outcomes, [Next]_vars
    PROVE  Outcomes'
<1>0. Shape /\ Shape' /\ (Running(S) => ServerReads)
  BY TypeShape, TypeShapeNext, WireReads
<1>1. CASE UNCHANGED <<pc, inbox, last, noDial, outcome>>
  BY <1>1 DEF Outcomes, Unrecorded, LeaseIDs, BarrierAnswer, OutcomesAgree, Finished
<1>2. pc'[S] = "barrier" /\ Running(C)' /\ ~Empty(inbox'[S]) => pc'[C] = "idle"
  BY BarrierQuietNext
\* A step of the server that does not lead to the barrier, or leaves it nothing to read.
<1>3. ASSUME NEW p, pc' = [pc EXCEPT ![S] = p], p \in InLease => pc[S] \in InLease,
             UNCHANGED <<last, outcome>>, p # "barrier" \/ Empty(inbox'[S])
      PROVE  Outcomes'
  <2>1. BarrierAnswer'
    BY <1>0, <1>3 DEF BarrierAnswer, Shape
  <2> QED
    BY <1>0, <1>3, <2>1, SilentOutcomes DEF Shape
\* A step of the client that is no answer to RELEASE.
<1>4. ASSUME NEW p, pc' = [pc EXCEPT ![C] = p], p \in InLease => pc[C] \in InLease,
             UNCHANGED <<last, outcome>>, p \notin {"idle", "gone"} \/ pc[S] # "barrier"
      PROVE  Outcomes'
  <2>1. pc'[S] = pc[S] /\ pc'[C] = p
    BY <1>0, <1>4 DEF Shape
  <2>2. BarrierAnswer'
    BY <1>2, <1>4, <2>1 DEF BarrierAnswer, Running
  <2> QED
    BY <1>0, <1>4, <2>2, SilentOutcomes DEF Shape
<1>5. CASE ServerAnswers
  <2>1. CASE ServerRejects
    BY <1>0, <2>1, ReturnOutcomes DEF ServerRejects, Reads, At, Running, Shape
  <2>2. CASE ServerAdmits \/ ServerReady \/ PongReceived \/ OpenAccepted
    BY <1>0, <1>3, <2>2 DEF ServerAdmits, ServerReady, PongReceived, OpenAccepted, Reads, At, StartRelay, Goto,
       InLease, leaseVars
  <2>3. CASE OpenRefused
    <3>1. Reads(S, "open", "OPEN_ERR", last[S]) /\ pc[S] = "open"
      BY <2>3 DEF OpenRefused, Reads, At
    <3>2. Popped(inbox[S], inbox'[S])
      BY <1>0, <2>3, <3>1, ReadsHead, AnswerEffect, PlainType DEF OpenRefused, Shape
    <3>3. Empty(inbox'[S])
      BY <1>0, <3>1, <3>2, DialRefused DEF Popped, Empty
    <3> QED
      BY <1>3, <2>3, <3>1, <3>3 DEF OpenRefused, DialFailed, Goto, InLease
  <2>4. CASE Release
    <3>1. pc[S] = "relay" /\ gotFin[S] /\ inbox'[S] = inbox[S]
      BY <1>0, <2>4, WriteEffect, PlainType DEF Release, At, Relayed, Shape
    <3>2. Empty(inbox[S])
      BY <1>0, <3>1, Zenon DEF ServerReads, Running
    <3> QED
      BY <1>3, <2>4, <3>1, <3>2 DEF Release, Goto, InLease, leaseVars
  <2> QED
    BY <1>5, <2>1, <2>2, <2>3, <2>4, AnsweredOutcomes DEF ServerAnswers
<1>6. CASE ServerStarts
  <2>1. CASE Ping \/ Expires
    BY <1>3, <2>1 DEF Ping, Expires, Goto, InLease, leaseVars
  <2>2. CASE Goodbye \/ Exhausted
    BY <1>0, <2>2, ReturnOutcomes DEF Goodbye, Exhausted, At, Running, Shape
  <2>3. CASE Open
    <3>1. /\ pc' = [pc EXCEPT ![S] = "open"] /\ last' = [last EXCEPT ![S] = last[S] + 1]
          /\ last[S] < MaxID /\ outcome' = outcome
      BY <2>3 DEF Open, Goto, IDsLeft, StartLease
    <3>2. BarrierAnswer'
      BY <1>0, <3>1 DEF BarrierAnswer, Shape
    <3> QED
      BY <1>0, <3>1, <3>2 DEF Outcomes, Unrecorded, LeaseIDs, OutcomesAgree, Shape
  <2> QED
    BY <1>6, <2>1, <2>2, <2>3 DEF ServerStarts
<1>7. CASE ClientStep
  <2>1. CASE HelloRejected \/ ServerClosed
    <3>1. inbox[C] # <<>> /\ Running(C)
      BY <1>0, <2>1, ReadsHead DEF HelloRejected, ServerClosed, Running, Shape
    <3>2. inbox'[S] = inbox[S]
      BY <1>0, <2>1, <3>1, ReadEffect DEF HelloRejected, ServerClosed, Shape
    <3> QED
      BY <1>0, <2>1, <3>1, <3>2, ReturnOutcomes DEF HelloRejected, ServerClosed, Shape
  <2>2. CASE Hello \/ DialFails \/ Dialled \/ ClientRelayed
    BY <1>4, <2>2 DEF Hello, DialFails, Dialled, ClientRelayed, At, DialFailed, StartRelay, Goto, InLease, leaseVars
  <2>3. CASE HelloAccepted \/ Pong
    <3>1. ~Empty(inbox[C]) /\ pc[C] \in {"hello", "idle"}
      BY <1>0, <2>3, ReadsHead DEF HelloAccepted, Pong, Empty, Shape
    <3>2. pc[S] # "barrier"
      BY <3>1 DEF Wire, Joint, Registering, Idling, Opening, Relaying, Releasing, Are, ToServer, Running
    <3>3. pc' = [pc EXCEPT ![C] = "idle"] /\ UNCHANGED <<last, outcome>>
      BY <1>0, <2>3 DEF HelloAccepted, Pong, Reads, At, Goto, leaseVars, Shape
    <3> QED
      BY <1>4, <3>2, <3>3 DEF InLease
  <2>4. CASE OpenReceived
    <3>1. /\ pc' = [pc EXCEPT ![C] = "dial"] /\ last' = [last EXCEPT ![C] = last[C] + 1]
          /\ last[C] < MaxID /\ outcome' = outcome
      BY <2>4 DEF OpenReceived, Goto, StartLease
    <3>2. BarrierAnswer'
      BY <1>0, <1>2, <3>1 DEF BarrierAnswer, Running, Shape
    <3> QED
      BY <1>0, <3>1, <3>2 DEF Outcomes, Unrecorded, LeaseIDs, OutcomesAgree, Shape
  <2> QED
    BY <1>7, <2>1, <2>2, <2>3, <2>4, AnswerOutcomes DEF ClientStep
<1>8. CASE ClientStops
  BY <1>0, <1>8, ReturnOutcomes DEF ClientStops, At, Running, Shape
<1>9. ASSUME NEW x \in End, PumpData(x) \/ PumpFin(x) \/ Delivers(x)
      PROVE  Outcomes'
  <2>1. pc[x] = "relay" /\ pc' = [pc EXCEPT ![x] = "relay"] /\ UNCHANGED <<last, outcome>>
    BY <1>0, <1>9 DEF PumpData, PumpFin, Delivers, DeliverData, DeliverFin, Reads, At, leaseVars, Shape
  <2> QED
    BY <1>0, <1>3, <1>4, <2>1 DEF InLease, Shape
<1>10. ASSUME NEW x \in End, CloseUnder(x)
       PROVE  Outcomes'
  BY <1>1, <1>10 DEF CloseUnder, leaseVars
<1>11. ASSUME NEW x \in End, Fails(x) \/ NetworkFails(x) \/ TimesOut(x)
       PROVE  Outcomes'
  <2>1. PICK r \in {"shutdown", "error", "network", "timeout", "cut"} : Return(x, r)
    BY <1>11 DEF Fails, NetworkFails, TimesOut, Failure
  <2>2. Running(x) /\ inbox' = inbox
    BY <1>11 DEF Fails, NetworkFails, TimesOut, Running
  <2> QED
    BY <2>1, <2>2, ReturnOutcomes
<1> QED
  BY <1>1, <1>5, <1>6, <1>7, <1>8, <1>9, <1>10, <1>11 DEF Next, Terminated, vars, leaseVars

-----------------------------------------------------------------------------
(* The theorems.                                                            *)

\* A new connection satisfies the invariant.
LEMMA InitIInv == Init => IInv
<1> SUFFICES ASSUME Init PROVE IInv
  OBVIOUS
<1>1. /\ S \in End /\ C \in End /\ S # C /\ \A x \in End : x = S \/ x = C
      /\ MaxID \in Nat /\ MaxData \in Nat /\ \A x \in End : Peer(x) \in End
  BY EndFacts, IDAssumption, DataAssumption
<1>2. /\ pc[S] = "hello" /\ pc[C] = "start" /\ \A x \in End : why[x] = "running" /\ last[x] = 0 /\ armed[x]
      /\ \A x \in End : inbox[x] = <<>>
  BY <1>1 DEF Init
<1>3. TypeOK
  <2>1. <<>> \in Seq(AnyFrame)
    OBVIOUS
  <2> QED
    BY <1>1, <2>1 DEF Init, TypeOK, Place, Reason
<1>4. Wire
  BY <1>1, <1>2 DEF Wire, Joint, Registering, Level, Are, Quiet, Empty, Running
<1>5. Deadlines
  BY <1>1, <1>2 DEF Deadlines, NoStaleDeadline
<1>6. Ends
  BY <1>1, <1>2 DEF Ends, Running, RetirementIsClean
<1>7. Outcomes
  <2>1. \A x \in End : \A i \in 1..MaxID : outcome[x][i] = "none"
    BY DEF Init
  <2> QED
    BY <1>1, <1>2, <2>1
       DEF Outcomes, Unrecorded, LeaseIDs, BarrierAnswer, OutcomesAgree, InLease
<1> QED
  BY <1>3, <1>4, <1>5, <1>6, <1>7 DEF IInv

\* Every step keeps the invariant.
LEMMA NextIInv == IInv /\ [Next]_vars => IInv'
<1> SUFFICES ASSUME IInv, [Next]_vars PROVE IInv'
  OBVIOUS
<1>1. TypeOK'
  BY TypeStep DEF IInv
<1>2. Wire'
  BY <1>1, WireStep DEF IInv
<1>3. Deadlines'
  BY DeadlinesStep DEF IInv
<1>4. Ends'
  BY EndsStep DEF IInv
<1>5. Outcomes'
  BY <1>1, <1>2, OutcomesStep DEF IInv
<1> QED
  BY <1>1, <1>2, <1>3, <1>4, <1>5 DEF IInv

\* The two goroutines and the frames between them are always in one of the phases
\* above, whichever of the ends times out, is closed or loses its network.
THEOREM TunnelInvariant == Spec => []IInv
<1>1. Init => IInv
  BY InitIInv
<1>2. IInv /\ [Next]_vars => IInv'
  BY NextIInv
<1> QED
  BY <1>1, <1>2, PTL DEF Spec

\* Every variable keeps its type; no lease ID leaves the range of a uint64.
THEOREM TunnelTypeOK == Spec => []TypeOK
<1>1. IInv => TypeOK
  BY DEF IInv
<1> QED
  BY <1>1, TunnelInvariant, PTL

\* No read of worker.go, at either end, meets a frame it must refuse.
THEOREM TunnelNoUnexpectedFrame == Spec => []NoUnexpectedFrame
<1>1. IInv => NoUnexpectedFrame
  BY ReadsExpected DEF IInv
<1> QED
  BY <1>1, TunnelInvariant, PTL

\* While the client is in a lease, a running server is in the same one, so that
\* giving up the connection at the barrier never loses an OPEN.
THEOREM TunnelSameLease == Spec => []SameLease
<1>1. IInv => SameLease
  BY DEF IInv, Wire, Running, Joint, Registering, Idling, Opening, Relaying, Releasing, Are, Level, SameLease, InLease
<1> QED
  BY <1>1, TunnelInvariant, PTL

\* No deadline is left set when a relay starts or a worker goes back to the pool.
THEOREM TunnelNoStaleDeadline == Spec => []NoStaleDeadline
<1>1. IInv => NoStaleDeadline
  BY DEF IInv, Deadlines
<1> QED
  BY <1>1, TunnelInvariant, PTL

\* A connection given up with CLOSE is no error for the other end: once CLOSE is
\* written, a close or reset of either end does not keep it from being read first.
THEOREM TunnelRetirementIsClean == Spec => []RetirementIsClean
<1>1. IInv => RetirementIsClean
  BY DEF IInv, Ends
<1> QED
  BY <1>1, TunnelInvariant, PTL

\* What the server records as completed, the client records with the same outcome.
THEOREM TunnelOutcomesAgree == Spec => []OutcomesAgree
<1>1. IInv => OutcomesAgree
  BY DEF IInv, Outcomes
<1> QED
  BY <1>1, TunnelInvariant, PTL
=============================================================================
