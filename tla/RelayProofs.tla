---------------------------- MODULE RelayProofs -----------------------------
(***************************************************************************)
(* The reused codec never fails by itself, and the relay implements        *)
(* Duplex, for any number of leases, chunks, units of a chunk and of a     *)
(* frame, and frames in flight.                                            *)
(***************************************************************************)
EXTENDS Relay, SequenceTheorems, TLAPS

AUnit == [chunk : {0} \cup Chunk, part : 0..BlockUnits, sum : Seq(Chunk)]
Sender == [at : {"read", "flush", "close", "fin", "ended"}, out : Seq(AUnit)]
Reading == [pending : Seq(AUnit), fin : BOOLEAN]
Decoder == [chunks : Seq(Chunk), part : 0..BlockUnits, whole : BOOLEAN]

\* The type of every variable; TypeOK adds the bounds of the buffers.
Typed ==
    /\ lease \in [End -> 0..MaxLease] /\ run \in [End -> {Idle, "first", "second", "failed"}]
    /\ first \in [End -> Result] /\ results \in [End -> Seq(Result)]
    /\ up \in [End -> Sender] /\ down \in [End -> {"copy", "write", "finish", "halfclose", "ended"}]
    /\ reader \in [End -> Reading] /\ enc \in [End -> Seq(Chunk)] /\ dec \in [End -> Decoder]
    /\ wire \in [End -> Seq(Frames)] /\ local \in [End -> {"open", "eof", "reset"}]
    /\ tcp \in [End -> BOOLEAN] /\ tun \in [End -> BOOLEAN] /\ faults \in 0..MaxFaults
    /\ sent \in [End -> [Lease -> Seq(Chunk)]] /\ got \in [End -> [Lease -> Seq(Chunk)]]
    /\ eof \in [End -> SUBSET Lease] /\ over \in [End -> SUBSET Lease]
Fits(q) == Len(q) <= WireMax /\ \A i \in 1..Len(q) : Len(q[i].units) <= FrameMax
Fit == \A x \in End : Fits(wire[x])

-----------------------------------------------------------------------------
(* A compressed stream: the units of the chunks s, one after another, and   *)
(* the checksum.                                                            *)

Size(s) == Len(s) * BlockUnits
IsUnit(s, k, u) ==
    \/ k = Size(s) + 1 /\ u = Unit(0, 0, s)
    \/ \E n \in 1..Len(s) : \E p \in 1..BlockUnits :
          k = (n - 1) * BlockUnits + p /\ u = Unit(s[n], p, <<>>)

\* q is the units of s after a up to z.
Holds(s, q, a, z) ==
    /\ a \in Nat /\ z \in Nat /\ z = a + Len(q)
    /\ \A j \in 1..Len(q) : IsUnit(s, a + j, q[j])

\* The frames w carry the units of s after a up to z: there are places at which the
\* stream is cut into them.
Cut(s, w, a, z, cut) ==
    /\ cut[0] = a /\ cut[Len(w)] = z
    /\ \A i \in 1..Len(w) : Holds(s, w[i].units, cut[i - 1], cut[i])
Carry(s, w, a, z) == \E cut \in [0..Len(w) -> 0..z] : Cut(s, w, a, z, cut)

\* How much the decoder has taken.
Place(d) == Len(d.chunks) * BlockUnits + d.part + (IF d.whole THEN 1 ELSE 0)
Follows(s, d) ==
    /\ Len(d.chunks) <= Len(s) /\ \A i \in 1..Len(d.chunks) : d.chunks[i] = s[i]
    /\ d.part < BlockUnits
    /\ d.part > 0 => Len(d.chunks) < Len(s)
    /\ d.whole => Len(d.chunks) = Len(s) /\ d.part = 0

\* Where the encoder's output ends while the pump u runs.
Due(s, u) == IF u.at \in {"read", "flush"} THEN Size(s) ELSE Size(s) + 1

(***************************************************************************)
(* One direction of lease l: the stream of s, which has ended only if e,   *)
(* from the pump u over the frames w and the reader r to the decoder d.    *)
(***************************************************************************)
Fin(l, w, z, s, u) ==
    \A i \in 1..Len(w) :
        /\ w[i].id = l
        /\ w[i].type = "FIN" => /\ i = Len(w) /\ w[i].units = <<>>
                                /\ z = Size(s) + 1 /\ u.at = "ended"
        /\ w[i].type = "DATA" => w[i].units # <<>>
Spans(l, s, e, d, r, w, u, m, z) ==
    /\ Holds(s, r.pending, Place(d), m) /\ Carry(s, w, m, z)
    /\ u.at # "ended" => /\ Holds(s, u.out, z, Due(s, u))
                         /\ u.out = <<>> <=> u.at \in {"read", "fin"}
    /\ Fin(l, w, z, s, u)
    /\ r.fin => r.pending = <<>> /\ w = <<>> /\ z = Size(s) + 1 /\ u.at = "ended"
    /\ z > Size(s) \/ u.at \in {"close", "fin"} => e
Flight(l, s, e, d, r, w, u) ==
    /\ Follows(s, d)
    /\ \E z \in 0..Size(s) + 1 : \E m \in 0..z : Spans(l, s, e, d, r, w, u, m, z)

-----------------------------------------------------------------------------
(* The two ends.                                                            *)

\* The lease that is under way; the server may still have to start it.
Now == lease[C]
Here(x) == lease[x] = Now
Up(x)   == IF Here(x) THEN up[x] ELSE NewUp
Down(y) == IF Here(y) THEN down[y] ELSE "copy"
Reader(y) == IF Here(y) THEN reader[y] ELSE NewReader
Dec(y)    == IF Here(y) THEN dec[y] ELSE NewDec

Ended(x) == Now \in eof[x]
Direction(x) ==
    Flight(Now, sent[x][Now], Ended(x), Dec(Peer(x)), Reader(Peer(x)), wire[Peer(x)], Up(x))
InFlight == \A x \in End : Now > 0 /\ Down(Peer(x)) # "ended" => Direction(x)

\* What the decoder has made of the stream, and what of it is written.
DeliveredAt(y) ==
    Now > 0 /\ Here(y) /\ down[y] # "ended" =>
        /\ down[y] = "write" => /\ ~dec[y].whole /\ dec[y].part = 0
                                /\ dec[y].chunks # <<>>
                                /\ got[y][Now] = Front(dec[y].chunks)
        /\ down[y] # "write" => got[y][Now] = dec[y].chunks
        /\ down[y] \in {"finish", "halfclose"} => dec[y].whole
        /\ down[y] = "halfclose" => reader[y].fin
        /\ down[y] = "finish" => ~reader[y].fin
Delivered == \A y \in End : DeliveredAt(y)

\* The leases of the two ends, and what is left of a lease that is over.
Order == lease[S] \in {lease[C], lease[C] - 1} /\ (lease[S] # lease[C] => run[S] = Idle)
LeaseAt(x) ==
    /\ lease[x] = 0 => run[x] = Idle
    /\ run[x] = Idle /\ lease[x] > 0 => lease[x] \in over[x]
    /\ \A k \in Lease :
          /\ k < lease[x] => k \in over[x]
          /\ k > lease[x] => /\ sent[x][k] = <<>> /\ got[x][k] = <<>>
                             /\ k \notin eof[x] /\ k \notin over[x]
ClosedAt(y) ==
    /\ Now = 0 => wire[y] = <<>>
    /\ Now \in over[y] =>
          wire[y] = <<>> /\ Here(Peer(y)) /\ up[Peer(y)].at = "ended" /\ down[y] = "ended"
Leases == Order /\ \A x \in End : LeaseAt(x) /\ ClosedAt(x)

\* The pumps of Run and the results they have left.
Count(b) == IF b THEN 1 ELSE 0
Clean(x) == first[x] = "ok" /\ \A i \in 1..Len(results[x]) : results[x][i] = "ok"
PumpsAt(x) ==
    /\ ~Running(x) => up[x].at = "ended" /\ down[x] = "ended" /\ Len(results[x]) = 0
    /\ Running(x) => Len(results[x]) + Count(run[x] = "second")
                        = Count(up[x].at = "ended") + Count(down[x] = "ended")
    /\ run[x] # "second" => first[x] = "ok"
    /\ Running(x) /\ Clean(x) /\ down[x] = "ended" => lease[x] \in over[x]
    /\ Running(x) => enc[x] = sent[x][lease[x]]
    /\ Running(x) /\ local[x] = "open" => lease[x] \notin eof[x]
    /\ Running(x) /\ local[x] = "eof" => lease[x] \in eof[x]
    /\ up[x].at = "ended" => up[x].out = <<>>
NoCodecAt(x) == first[x] # "codec" /\ \A i \in 1..Len(results[x]) : results[x][i] # "codec"
Ends == \A x \in End : PumpsAt(x) /\ NoCodecAt(x)

IInv == Typed /\ Fit /\ Leases /\ Ends /\ InFlight /\ Delivered

-----------------------------------------------------------------------------
(* Lemmas about sequences and places in a stream.                           *)

LEMMA SeqFacts ==
    ASSUME NEW T, NEW q \in Seq(T)
    PROVE  /\ Len(q) \in Nat /\ \A j \in 1..Len(q) : q[j] \in T
           /\ q = <<>> <=> Len(q) = 0
  BY ElementOfSeq, LenProperties, EmptySeq

LEMMA AppendFacts ==
    ASSUME NEW T, NEW q \in Seq(T), NEW v \in T
    PROVE  /\ Append(q, v) \in Seq(T) /\ Len(Append(q, v)) = Len(q) + 1
           /\ \A j \in 1..Len(q) : Append(q, v)[j] = q[j]
           /\ Append(q, v)[Len(q) + 1] = v
  BY AppendProperties, LenProperties

LEMMA TailFacts ==
    ASSUME NEW T, NEW q \in Seq(T), q # <<>>
    PROVE  /\ Head(q) \in T /\ Head(q) = q[1]
           /\ Tail(q) \in Seq(T) /\ Len(Tail(q)) = Len(q) - 1 /\ Len(q) >= 1
           /\ \A j \in 1..Len(q) - 1 : Tail(q)[j] = q[j + 1]
  BY SeqFacts, HeadTailProperties, LenProperties

LEMMA SizeType ==
    ASSUME NEW s \in Seq(Chunk)
    PROVE  Size(s) \in Nat /\ Len(s) \in Nat
<1>1. Len(s) \in Nat /\ BlockUnits \in Nat
  BY LenProperties, RelayAssumption
<1> QED
  BY <1>1 DEF Size

\* A unit has one chunk and one place in it.
Spot(n, p) == n * BlockUnits + p
LEMMA SpotUnique ==
    ASSUME NEW m \in Nat, NEW n \in Nat, NEW p \in 1..BlockUnits, NEW q \in 1..BlockUnits,
           Spot(m, p) = Spot(n, q)
    PROVE  m = n /\ p = q
<1> DEFINE b == BlockUnits
<1>b. b \in Nat
  BY RelayAssumption
<1>e. m * b + p = n * b + q
  BY DEF Spot
<1> HIDE DEF b
<1>p. p \in 1..b /\ q \in 1..b
  BY DEF b
<1>1. ASSUME NEW i \in Nat, NEW k \in Nat, NEW v \in 1..b, NEW t \in 1..b
      PROVE  i * b + v # (i + 1 + k) * b + t
  <2>1. (i + 1 + k) * b = i * b + b + k * b
    BY <1>1, <1>b
  <2>2. k * b \in Nat /\ i * b \in Nat
    BY <1>1, <1>b
  <2> QED
    BY <1>1, <1>b, <2>1, <2>2
<1>2. ~(m < n)
  <2>1. SUFFICES ASSUME m < n PROVE FALSE
    OBVIOUS
  <2>2. n - m - 1 \in Nat /\ n = m + 1 + (n - m - 1)
    BY <2>1
  <2> QED
    BY <1>1, <1>e, <1>p, <2>2
<1>3. ~(n < m)
  <2>1. SUFFICES ASSUME n < m PROVE FALSE
    OBVIOUS
  <2>2. m - n - 1 \in Nat /\ m = n + 1 + (m - n - 1)
    BY <2>1
  <2> QED
    BY <1>1, <1>e, <1>p, <2>2
<1>4. m = n
  BY <1>2, <1>3
<1>5. m * b \in Nat
  BY <1>b
<1> QED
  BY <1>4, <1>5, <1>e, <1>p

\* A decoder that has not met the end is within the chunks of the stream.
LEMMA PlaceBound ==
    ASSUME NEW s \in Seq(Chunk), NEW d \in Decoder, Follows(s, d)
    PROVE  /\ Place(d) \in Nat
           /\ d.whole => Place(d) = Size(s) + 1
           /\ ~d.whole => Place(d) <= Size(s)
<1>1. /\ Len(s) \in Nat /\ Len(d.chunks) \in Nat /\ BlockUnits \in Nat
      /\ d.part \in Nat /\ d.part < BlockUnits /\ d.whole \in BOOLEAN
  BY SizeType, LenProperties, RelayAssumption DEF Decoder, Follows
<1> DEFINE n == Len(d.chunks)
           k == Len(s) - n
<1>2. k \in Nat /\ (d.part > 0 => k - 1 \in Nat)
  BY <1>1 DEF Follows
<1>3. n * BlockUnits \in Nat /\ k * BlockUnits \in Nat /\ Len(s) = n + k
  BY <1>1, <1>2
<1>4. Size(s) = n * BlockUnits + k * BlockUnits
  BY <1>1, <1>2, <1>3 DEF Size
<1>5. d.part > 0 => k * BlockUnits >= BlockUnits
  <2>1. SUFFICES ASSUME d.part > 0 PROVE k * BlockUnits >= BlockUnits
    OBVIOUS
  <2>2. k - 1 \in Nat /\ (k - 1) * BlockUnits \in Nat
    BY <1>1, <1>2, <2>1
  <2>3. k * BlockUnits = (k - 1) * BlockUnits + BlockUnits
    BY <1>1, <1>2, <2>1
  <2> HIDE DEF k
  <2> QED
    BY <1>1, <2>2, <2>3
<1>6. CASE d.whole
  <2>1. Place(d) = n * BlockUnits + d.part + 1
    BY <1>6 DEF Place
  <2>2. Len(s) = n /\ d.part = 0
    BY <1>6 DEF Follows
  <2> QED
    BY <1>1, <1>6, <1>3, <2>1, <2>2 DEF Size
<1>7. CASE ~d.whole
  <2>1. Place(d) = n * BlockUnits + d.part
    BY <1>1, <1>3, <1>7 DEF Place
  <2> HIDE DEF k, n
  <2> QED
    BY <1>1, <1>3, <1>4, <1>5, <1>7, <2>1
<1> QED
  BY <1>6, <1>7

-----------------------------------------------------------------------------
(* Lemmas about pieces of a compressed stream.                              *)

LEMMA SizeAppend ==
    ASSUME NEW s \in Seq(Chunk), NEW c \in Chunk
    PROVE  /\ Append(s, c) \in Seq(Chunk) /\ Size(Append(s, c)) = Size(s) + BlockUnits
           /\ Size(s) \in Nat /\ BlockUnits \in Nat /\ BlockUnits > 0
<1>1. Len(s) \in Nat /\ Len(Append(s, c)) = Len(s) + 1 /\ BlockUnits \in Nat
  BY SizeType, AppendFacts, RelayAssumption
<1>2. (Len(s) + 1) * BlockUnits = Len(s) * BlockUnits + BlockUnits
  BY <1>1
<1> QED
  BY <1>1, <1>2, SizeType, AppendFacts, RelayAssumption DEF Size

\* What was written of a stream is not changed by the chunks that follow.
LEMMA IsUnitGrows ==
    ASSUME NEW s \in Seq(Chunk), NEW c \in Chunk, NEW k \in Nat, k <= Size(s), NEW u,
           IsUnit(s, k, u)
    PROVE  IsUnit(Append(s, c), k, u)
<1>1. Size(s) \in Nat /\ Len(s) \in Nat
  BY SizeType
<1>2. PICK n \in 1..Len(s) : \E p \in 1..BlockUnits :
          k = (n - 1) * BlockUnits + p /\ u = Unit(s[n], p, <<>>)
  BY <1>1 DEF IsUnit
<1>3. n \in 1..Len(Append(s, c)) /\ Append(s, c)[n] = s[n]
  BY <1>1, AppendFacts
<1> QED
  BY <1>2, <1>3 DEF IsUnit

LEMMA HoldsGrows ==
    ASSUME NEW s \in Seq(Chunk), NEW c \in Chunk, NEW q \in Seq(AUnit),
           NEW a \in Nat, NEW z \in Nat, z <= Size(s), Holds(s, q, a, z)
    PROVE  Holds(Append(s, c), q, a, z)
<1>1. Len(q) \in Nat /\ Size(s) \in Nat /\ z = a + Len(q)
  BY SeqFacts, SizeType DEF Holds
<1>2. ASSUME NEW j \in 1..Len(q) PROVE IsUnit(Append(s, c), a + j, q[j])
  <2>1. a + j \in Nat /\ a + j <= Size(s)
    BY <1>1
  <2>2. IsUnit(s, a + j, q[j])
    BY DEF Holds
  <2> QED
    BY <2>1, <2>2, IsUnitGrows
<1> QED
  BY <1>1, <1>2 DEF Holds

LEMMA HoldsNone ==
    ASSUME NEW s, NEW a \in Nat
    PROVE  Holds(s, <<>>, a, a)
<1>1. Len(<<>>) = 0
  BY EmptySeq
<1> QED
  BY <1>1 DEF Holds

LEMMA HoldsSplit ==
    ASSUME NEW s, NEW q \in Seq(AUnit), NEW a, NEW z, Holds(s, q, a, z), NEW n \in 0..Len(q)
    PROVE  /\ SubSeq(q, 1, n) \in Seq(AUnit) /\ Len(SubSeq(q, 1, n)) = n
           /\ SubSeq(q, n + 1, Len(q)) \in Seq(AUnit)
           /\ Len(SubSeq(q, n + 1, Len(q))) = Len(q) - n
           /\ Holds(s, SubSeq(q, 1, n), a, a + n)
           /\ Holds(s, SubSeq(q, n + 1, Len(q)), a + n, z)
<1> DEFINE f == SubSeq(q, 1, n)
           g == SubSeq(q, n + 1, Len(q))
<1>1. /\ Len(q) \in Nat /\ a \in Nat /\ z \in Nat /\ z = a + Len(q) /\ n \in Nat
      /\ \A j \in 1..Len(q) : q[j] \in AUnit /\ IsUnit(s, a + j, q[j])
  BY SeqFacts DEF Holds
<1>2. /\ f \in Seq(AUnit) /\ Len(f) = n /\ \A j \in 1..n : f[j] = q[j]
  <2>1. \A i \in 1..n : q[i] \in AUnit
    BY <1>1
  <2>2. /\ f \in Seq(AUnit) /\ Len(f) = (IF 1 <= n THEN n - 1 + 1 ELSE 0)
        /\ \A i \in 1..n - 1 + 1 : f[i] = q[1 + i - 1]
    BY <1>1, <2>1, SubSeqProperties
  <2> HIDE DEF f
  <2> QED
    BY <1>1, <2>2
<1>3. /\ g \in Seq(AUnit) /\ Len(g) = Len(q) - n /\ \A j \in 1..Len(q) - n : g[j] = q[n + j]
  <2>1. \A i \in n + 1..Len(q) : q[i] \in AUnit
    BY <1>1
  <2>2. /\ g \in Seq(AUnit) /\ Len(g) = (IF n + 1 <= Len(q) THEN Len(q) - (n + 1) + 1 ELSE 0)
        /\ \A i \in 1..Len(q) - (n + 1) + 1 : g[i] = q[n + 1 + i - 1]
    BY <1>1, <2>1, SubSeqProperties
  <2> HIDE DEF g
  <2> QED
    BY <1>1, <2>2
<1> HIDE DEF f, g
<1>4. Holds(s, f, a, a + n)
  BY <1>1, <1>2 DEF Holds
<1>5. Holds(s, g, a + n, z)
  <2>1. ASSUME NEW j \in 1..Len(g) PROVE IsUnit(s, a + n + j, g[j])
    <3>1. n + j \in 1..Len(q) /\ g[j] = q[n + j] /\ a + n + j = a + (n + j)
      BY <1>1, <1>3
    <3> QED
      BY <1>1, <3>1
  <2> QED
    BY <1>1, <1>3, <2>1 DEF Holds
<1> QED
  BY <1>2, <1>3, <1>4, <1>5 DEF f, g

LEMMA HoldsTail ==
    ASSUME NEW s, NEW q \in Seq(AUnit), q # <<>>, NEW a, NEW z, Holds(s, q, a, z)
    PROVE  /\ IsUnit(s, a + 1, Head(q)) /\ Head(q) \in AUnit /\ a + 1 <= z
           /\ Holds(s, Tail(q), a + 1, z) /\ Tail(q) \in Seq(AUnit)
<1>1. /\ Len(q) \in Nat /\ Len(q) >= 1 /\ a \in Nat /\ z \in Nat /\ z = a + Len(q)
      /\ \A j \in 1..Len(q) : IsUnit(s, a + j, q[j])
  BY TailFacts, SeqFacts DEF Holds
<1>2. /\ Head(q) = q[1] /\ Head(q) \in AUnit /\ Tail(q) \in Seq(AUnit)
      /\ Len(Tail(q)) = Len(q) - 1 /\ \A j \in 1..Len(q) - 1 : Tail(q)[j] = q[j + 1]
  BY TailFacts
<1>3. ASSUME NEW j \in 1..Len(Tail(q)) PROVE IsUnit(s, a + 1 + j, Tail(q)[j])
  <2>1. j + 1 \in 1..Len(q) /\ Tail(q)[j] = q[j + 1] /\ a + 1 + j = a + (j + 1)
    BY <1>1, <1>2
  <2> QED
    BY <1>1, <2>1
<1>4. Holds(s, Tail(q), a + 1, z)
  BY <1>1, <1>2, <1>3 DEF Holds
<1>5. 1 \in 1..Len(q)
  BY <1>1
<1> QED
  BY <1>1, <1>2, <1>4, <1>5

\* The encoder's output for one more chunk, and at its Close.
LEMMA HoldsBlock ==
    ASSUME NEW s \in Seq(Chunk), NEW c \in Chunk
    PROVE  /\ Holds(Append(s, c), Block(c), Size(s), Size(Append(s, c)))
           /\ Block(c) \in Seq(AUnit) /\ Block(c) # <<>>
<1>1. /\ Size(s) \in Nat /\ BlockUnits \in Nat /\ BlockUnits > 0
      /\ Size(Append(s, c)) = Size(s) + BlockUnits
  BY SizeAppend
<1>2. \A p \in 1..BlockUnits : Unit(c, p, <<>>) \in AUnit
  BY <1>1, EmptySeq DEF Unit, AUnit
<1>3. /\ Block(c) \in Seq(AUnit) /\ Len(Block(c)) = BlockUnits
  BY <1>1, <1>2, IsASeq, LenProperties DEF Block
<1>4. ASSUME NEW j \in 1..BlockUnits PROVE IsUnit(Append(s, c), Size(s) + j, Block(c)[j])
  <2>1. /\ Len(s) \in Nat /\ Len(s) + 1 \in 1..Len(Append(s, c))
        /\ Append(s, c)[Len(s) + 1] = c
    BY SizeType, AppendFacts
  <2>2. Block(c)[j] = Unit(Append(s, c)[Len(s) + 1], j, <<>>)
    BY <2>1 DEF Block
  <2>3. Size(s) + j = (Len(s) + 1 - 1) * BlockUnits + j
    BY <2>1, <1>1 DEF Size
  <2> QED
    BY <2>1, <2>2, <2>3 DEF IsUnit
<1> QED
  BY <1>1, <1>3, <1>4, SeqFacts DEF Holds

LEMMA HoldsLast ==
    ASSUME NEW s \in Seq(Chunk)
    PROVE  /\ Holds(s, <<Unit(0, 0, s)>>, Size(s), Size(s) + 1)
           /\ <<Unit(0, 0, s)>> \in Seq(AUnit) /\ <<Unit(0, 0, s)>> # <<>>
<1>1. Size(s) \in Nat /\ BlockUnits \in Nat
  BY SizeType, RelayAssumption
<1>2. Unit(0, 0, s) \in AUnit
  BY <1>1 DEF Unit, AUnit
<1>3. IsUnit(s, Size(s) + 1, Unit(0, 0, s))
  BY DEF IsUnit
<1> QED
  BY <1>1, <1>2, <1>3 DEF Holds

-----------------------------------------------------------------------------
(* Lemmas about the frames that carry a stream.                             *)

LEMMA CarryNone ==
    ASSUME NEW s, NEW m \in Nat, NEW z \in Nat
    PROVE  Carry(s, <<>>, m, z) <=> m = z
<1>1. Len(<<>>) = 0
  BY EmptySeq
<1>2. ASSUME m = z PROVE Carry(s, <<>>, m, z)
  <2> DEFINE cut == [i \in 0..Len(<<>>) |-> m]
  <2>1. cut \in [0..Len(<<>>) -> 0..z] /\ cut[0] = m /\ cut[Len(<<>>)] = z
    BY <1>1, <1>2
  <2>2. Cut(s, <<>>, m, z, cut)
    BY <1>1, <2>1 DEF Cut
  <2> QED
    BY <2>1, <2>2 DEF Carry
<1> QED
  BY <1>1, <1>2 DEF Carry, Cut

LEMMA CarryMore ==
    ASSUME NEW s, NEW w \in Seq(Frames), NEW f \in Frames, NEW m \in Nat,
           NEW z \in Nat, NEW n \in Nat, z <= n,
           Carry(s, w, m, z), Holds(s, f.units, z, n)
    PROVE  Carry(s, Append(w, f), m, n)
<1>1. PICK cut \in [0..Len(w) -> 0..z] : Cut(s, w, m, z, cut)
  BY DEF Carry
<1>2. /\ Len(w) \in Nat /\ Len(Append(w, f)) = Len(w) + 1 /\ Append(w, f)[Len(w) + 1] = f
      /\ \A j \in 1..Len(w) : Append(w, f)[j] = w[j]
  BY SeqFacts, AppendFacts
<1> DEFINE new == [i \in 0..Len(w) + 1 |-> IF i <= Len(w) THEN cut[i] ELSE n]
<1>3. new \in [0..Len(w) + 1 -> 0..n] /\ new[Len(w) + 1] = n
  BY <1>1, <1>2
<1>4. \A i \in 0..Len(w) : new[i] = cut[i]
  BY <1>2
<1> HIDE DEF new
<1>5. new[0] = m /\ new[Len(w)] = z
  BY <1>1, <1>2, <1>4 DEF Cut
<1>6. ASSUME NEW i \in 1..Len(w) + 1
      PROVE  Holds(s, Append(w, f)[i].units, new[i - 1], new[i])
  <2>1. CASE i \in 1..Len(w)
    <3>1. i - 1 \in 0..Len(w) /\ i \in 0..Len(w)
      BY <1>2, <2>1
    <3> QED
      BY <1>1, <1>2, <1>4, <2>1, <3>1 DEF Cut
  <2>2. CASE i = Len(w) + 1
    <3>1. i - 1 = Len(w)
      BY <1>2, <2>2
    <3> QED
      BY <1>2, <1>3, <1>5, <2>2, <3>1
  <2> QED
    BY <1>2, <2>1, <2>2
<1>7. Cut(s, Append(w, f), m, n, new)
  BY <1>2, <1>3, <1>5, <1>6 DEF Cut
<1> QED
  BY <1>2, <1>3, <1>7 DEF Carry

LEMMA CarryLess ==
    ASSUME NEW s, NEW w \in Seq(Frames), w # <<>>, NEW m \in Nat, NEW z \in Nat,
           Carry(s, w, m, z)
    PROVE  \E n \in 0..z : Holds(s, Head(w).units, m, n) /\ Carry(s, Tail(w), n, z)
<1>1. PICK cut \in [0..Len(w) -> 0..z] : Cut(s, w, m, z, cut)
  BY DEF Carry
<1>2. /\ Len(w) \in Nat /\ Len(w) >= 1 /\ Head(w) = w[1] /\ Len(Tail(w)) = Len(w) - 1
      /\ \A j \in 1..Len(w) - 1 : Tail(w)[j] = w[j + 1]
  BY SeqFacts, TailFacts
<1> DEFINE new == [i \in 0..Len(w) - 1 |-> cut[i + 1]]
<1>3. new \in [0..Len(w) - 1 -> 0..z]
  BY <1>1, <1>2
<1>4. \A i \in 0..Len(w) - 1 : new[i] = cut[i + 1]
  OBVIOUS
<1> HIDE DEF new
<1>5. new[0] = cut[1] /\ new[Len(w) - 1] = z
  BY <1>1, <1>2, <1>4 DEF Cut
<1>6. ASSUME NEW i \in 1..Len(w) - 1
      PROVE  Holds(s, Tail(w)[i].units, new[i - 1], new[i])
  <2>1. i - 1 \in 0..Len(w) - 1 /\ i \in 0..Len(w) - 1 /\ i + 1 \in 1..Len(w)
        /\ i - 1 + 1 = i /\ i + 1 - 1 = i
    BY <1>2
  <2>2. new[i - 1] = cut[i] /\ new[i] = cut[i + 1] /\ Tail(w)[i] = w[i + 1]
    BY <1>2, <1>4, <2>1
  <2> QED
    BY <1>1, <2>1, <2>2 DEF Cut
<1>7. Cut(s, Tail(w), cut[1], z, new)
  BY <1>2, <1>5, <1>6 DEF Cut
<1>8. Carry(s, Tail(w), cut[1], z)
  BY <1>2, <1>3, <1>7 DEF Carry
<1>9. 1 \in 1..Len(w) /\ cut[1] \in 0..z /\ cut[0] = m
  BY <1>1, <1>2 DEF Cut
<1>10. Holds(s, Head(w).units, m, cut[1])
  BY <1>1, <1>2, <1>9 DEF Cut
<1> QED
  BY <1>8, <1>9, <1>10

LEMMA CarryGrows ==
    ASSUME NEW s \in Seq(Chunk), NEW c \in Chunk, NEW w \in Seq(Frames), NEW m \in Nat,
           NEW z \in Nat, z <= Size(s), Carry(s, w, m, z)
    PROVE  Carry(Append(s, c), w, m, z)
<1>1. PICK cut \in [0..Len(w) -> 0..z] : Cut(s, w, m, z, cut)
  BY DEF Carry
<1>2. Len(w) \in Nat /\ Size(s) \in Nat
  BY SeqFacts, SizeType
<1>3. ASSUME NEW i \in 1..Len(w)
      PROVE  Holds(Append(s, c), w[i].units, cut[i - 1], cut[i])
  <2>1. Holds(s, w[i].units, cut[i - 1], cut[i])
    BY <1>1 DEF Cut
  <2>a. i - 1 \in 0..Len(w) /\ i \in 0..Len(w)
    BY <1>2
  <2>b. cut[i - 1] \in 0..z /\ cut[i] \in 0..z
    BY <1>1, <2>a
  <2>2. /\ cut[i - 1] \in Nat /\ cut[i] \in Nat /\ cut[i] <= Size(s)
    BY <1>2, <2>b
  <2>3. w[i] \in Frames
    BY SeqFacts
  <2>4. w[i].units \in Seq(AUnit)
    BY <2>3 DEF Frames, AUnit
  <2> QED
    BY <2>1, <2>2, <2>4, HoldsGrows
<1> QED
  BY <1>1, <1>3 DEF Carry, Cut

-----------------------------------------------------------------------------
(* The decoder.                                                             *)

\* The unit that follows what the decoder has taken is one it accepts.
LEMMA DecoderTakes ==
    ASSUME NEW s \in Seq(Chunk), NEW d \in Decoder, Follows(s, d), NEW u \in AUnit,
           Place(d) <= Size(s), IsUnit(s, Place(d) + 1, u)
    PROVE  /\ Good(d, u) /\ ~d.whole
           /\ Decoded(d, u) \in Decoder /\ Follows(s, Decoded(d, u))
           /\ Place(Decoded(d, u)) = Place(d) + 1
           /\ u.part = BlockUnits =>
                 /\ Decoded(d, u).chunks = Append(d.chunks, u.chunk)
                 /\ ~Decoded(d, u).whole /\ Decoded(d, u).part = 0
           /\ u.part # BlockUnits => Decoded(d, u).chunks = d.chunks
<1>a. /\ d.chunks \in Seq(Chunk) /\ d.whole \in BOOLEAN /\ d.part \in 0..BlockUnits
      /\ d.part < BlockUnits /\ BlockUnits \in Nat /\ BlockUnits > 0
  BY RelayAssumption DEF Decoder, Follows
<1>b. Len(s) \in Nat /\ Size(s) \in Nat /\ Place(d) \in Nat
  BY SizeType, PlaceBound
<1>c. Len(d.chunks) \in Nat
  BY <1>a, LenProperties
<1>1. /\ Len(s) \in Nat /\ Len(d.chunks) \in Nat /\ BlockUnits \in Nat /\ BlockUnits > 0
      /\ d.part \in Nat /\ d.part < BlockUnits /\ Size(s) \in Nat /\ Place(d) \in Nat
      /\ d.chunks \in Seq(Chunk) /\ d.whole \in BOOLEAN
  BY <1>a, <1>b, <1>c
<1>2. ~d.whole
  BY PlaceBound, <1>1
<1> DEFINE n == Len(d.chunks)
<1>3. Place(d) = n * BlockUnits + d.part /\ n * BlockUnits \in Nat
  BY <1>1, <1>2 DEF Place
<1>4. CASE Place(d) + 1 = Size(s) + 1 /\ u = Unit(0, 0, s)
  <2>a. Place(d) + 1 = Len(s) * BlockUnits + 1 /\ Len(s) * BlockUnits \in Nat
    BY <1>1, <1>4 DEF Size
  <2> DEFINE a == n * BlockUnits
             b == Len(s) * BlockUnits
  <2>b. Place(d) = a + d.part /\ a \in Nat /\ Place(d) + 1 = b + 1 /\ b \in Nat
    BY <1>3, <2>a
  <2>c. a + (d.part + 1) = b + 1
    <3> HIDE DEF a, b
    <3> QED
      BY <1>1, <2>b
  <2>1. n * BlockUnits + (d.part + 1) = Len(s) * BlockUnits + 1
    BY <2>c
  <2>2. d.part + 1 \in 1..BlockUnits /\ 1 \in 1..BlockUnits
    BY <1>1
  <2>s. Spot(n, d.part + 1) = Spot(Len(s), 1)
    BY <2>1 DEF Spot
  <2>n. n \in Nat /\ Len(s) \in Nat /\ BlockUnits \in Nat
    BY <1>1
  <2>3. n = Len(s) /\ d.part + 1 = 1
    BY <2>n, <2>s, <2>2, SpotUnique
  <2>4. d.part = 0
    BY <1>1, <2>3
  <2>5. d.chunks = s
    BY <1>1, <2>3, SeqEqual DEF Follows
  <2>6. u.chunk = 0 /\ u.part = 0 /\ u.sum = s
    BY <1>4 DEF Unit
  <2>7. Good(d, u)
    BY <1>2, <2>4, <2>5, <2>6 DEF Good
  <2>8. Decoded(d, u) = [d EXCEPT !.whole = TRUE]
    BY <2>6 DEF Decoded
  <2>9. /\ Decoded(d, u) \in Decoder /\ Decoded(d, u).whole
        /\ Decoded(d, u).chunks = d.chunks /\ Decoded(d, u).part = d.part
    BY <2>8 DEF Decoder
  <2>10. Follows(s, Decoded(d, u))
    BY <1>1, <2>3, <2>4, <2>9 DEF Follows
  <2>11. Place(Decoded(d, u)) = Place(d) + 1
    BY <1>1, <1>3, <2>9 DEF Place
  <2> QED
    BY <1>1, <1>2, <2>6, <2>7, <2>9, <2>10, <2>11
<1>5. ASSUME NEW i \in 1..Len(s), NEW p \in 1..BlockUnits,
             Place(d) + 1 = (i - 1) * BlockUnits + p, u = Unit(s[i], p, <<>>)
      PROVE  /\ Good(d, u)
             /\ Decoded(d, u) \in Decoder /\ Follows(s, Decoded(d, u))
             /\ Place(Decoded(d, u)) = Place(d) + 1
             /\ u.part = BlockUnits =>
                 /\ Decoded(d, u).chunks = Append(d.chunks, u.chunk)
                 /\ ~Decoded(d, u).whole /\ Decoded(d, u).part = 0
             /\ u.part # BlockUnits => Decoded(d, u).chunks = d.chunks
  <2> DEFINE a == n * BlockUnits
             b == (i - 1) * BlockUnits
  <2>a. a \in Nat /\ Place(d) = a + d.part /\ Place(d) + 1 = b + p
    BY <1>3, <1>5
  <2>b. a + (d.part + 1) = b + p
    <3> HIDE DEF a, b
    <3> QED
      BY <1>1, <2>a
  <2>1. n * BlockUnits + (d.part + 1) = (i - 1) * BlockUnits + p
    BY <2>b
  <2>2. d.part + 1 \in 1..BlockUnits /\ i - 1 \in Nat
    BY <1>1
  <2>s. Spot(n, d.part + 1) = Spot(i - 1, p)
    BY <2>1 DEF Spot
  <2>n. n \in Nat /\ BlockUnits \in Nat
    BY <1>1
  <2>p. p \in 1..BlockUnits
    OBVIOUS
  <2>3. n = i - 1 /\ d.part + 1 = p
    BY <2>n, <2>p, <2>s, <2>2, SpotUnique
  <2>4. u.chunk = s[i] /\ u.part = p
    BY <1>5 DEF Unit
  <2>c. s[i] \in Chunk
    BY SeqFacts
  <2>5. s[i] \in Chunk /\ s[i] # 0
    BY <2>c DEF Chunk
  <2>6. Good(d, u)
    BY <1>2, <2>3, <2>4, <2>5 DEF Good
  <2>7. CASE p = BlockUnits
    <3>1. Decoded(d, u) = [d EXCEPT !.part = 0, !.chunks = Append(d.chunks, s[i])]
      BY <2>4, <2>5, <2>7 DEF Decoded
    <3>2. /\ Append(d.chunks, s[i]) \in Seq(Chunk)
          /\ Len(Append(d.chunks, s[i])) = n + 1 /\ Append(d.chunks, s[i])[n + 1] = s[i]
          /\ \A j \in 1..n : Append(d.chunks, s[i])[j] = d.chunks[j]
      BY <1>1, <2>5, AppendFacts
    <3> DEFINE g == [d EXCEPT !.part = 0]
    <3>g. g \in Decoder /\ g.whole = FALSE /\ g.part = 0 /\ g.chunks = d.chunks
      BY <1>1, <1>2 DEF Decoder
    <3>e. Decoded(d, u) = [g EXCEPT !.chunks = Append(d.chunks, s[i])]
      BY <3>1
    <3> HIDE DEF g
    <3>3. /\ Decoded(d, u) \in Decoder /\ Decoded(d, u).whole = FALSE
          /\ Decoded(d, u).chunks = Append(d.chunks, s[i]) /\ Decoded(d, u).part = 0
      BY <3>g, <3>e, <3>2 DEF Decoder
    <3>4. Follows(s, Decoded(d, u))
      <4>1. ASSUME NEW j \in 1..n + 1 PROVE Append(d.chunks, s[i])[j] = s[j]
        <5>1. CASE j = n + 1
          BY <1>1, <2>3, <3>2, <5>1
        <5>2. CASE j \in 1..n
          BY <3>2, <5>2 DEF Follows
        <5>3. j = n + 1 \/ j \in 1..n
          <6> HIDE DEF n
          <6>1. n \in Nat
            BY <1>1 DEF n
          <6> QED
            BY <6>1
        <5> QED
          BY <5>1, <5>2, <5>3
      <4> QED
        BY <1>1, <2>3, <3>2, <3>3, <4>1 DEF Follows
    <3>p. (n + 1) * BlockUnits \in Nat
      BY <1>1
    <3>5. Place(Decoded(d, u)) = (n + 1) * BlockUnits
      BY <3>p, <3>2, <3>3 DEF Place
    <3>6. (n + 1) * BlockUnits = n * BlockUnits + BlockUnits
      BY <1>1
    <3>7. Place(Decoded(d, u)) = Place(d) + 1
      BY <1>1, <1>3, <2>3, <2>7, <3>5, <3>6
    <3> QED
      BY <2>4, <2>6, <2>7, <3>3, <3>4, <3>7
  <2>8. CASE p # BlockUnits
    <3>1. Decoded(d, u) = [d EXCEPT !.part = p]
      BY <2>4, <2>5, <2>8 DEF Decoded
    <3>2. /\ Decoded(d, u) \in Decoder /\ Decoded(d, u).whole = FALSE
          /\ Decoded(d, u).chunks = d.chunks /\ Decoded(d, u).part = p
      BY <1>1, <1>2, <3>1 DEF Decoder
    <3>3. Follows(s, Decoded(d, u))
      <4>1. n < Len(s) /\ p < BlockUnits
        <5> HIDE DEF n
        <5> QED
          BY <1>a, <1>b, <2>3, <2>8
      <4>2. \A j \in 1..Len(d.chunks) : d.chunks[j] = s[j]
        BY DEF Follows
      <4> QED
        BY <3>2, <4>1, <4>2, <1>b, <1>c DEF Follows
    <3> DEFINE k == n * BlockUnits
    <3>k. k \in Nat /\ Place(d) = k + d.part
      BY <1>3
    <3>m. n * BlockUnits + p \in Nat
      <4> HIDE DEF k
      <4>1. k + p \in Nat
        BY <1>a, <3>k
      <4> QED
        BY <4>1 DEF k
    <3>p. Place(Decoded(d, u)) = n * BlockUnits + p
      BY <3>2, <3>m DEF Place
    <3>4. Place(Decoded(d, u)) = Place(d) + 1
      <4>1. Place(Decoded(d, u)) = k + p /\ d.part + 1 = p /\ d.part \in Nat
        BY <1>1, <2>3, <3>p
      <4> HIDE DEF k
      <4> QED
        BY <3>k, <4>1
    <3> QED
      BY <2>4, <2>6, <2>8, <3>2, <3>3, <3>4
  <2> QED
    BY <2>7, <2>8
<1> QED
  BY <1>2, <1>4, <1>5 DEF IsUnit

-----------------------------------------------------------------------------
(* One direction of a lease, step by step.  First the sender.               *)

LEMMA FlightStart ==
    ASSUME NEW l, NEW e
    PROVE  Flight(l, <<>>, e, NewDec, NewReader, <<>>, NewUp)
<1>1. /\ Len(<<>>) = 0 /\ <<>> \in Seq(Chunk) /\ BlockUnits \in Nat /\ BlockUnits > 0
  BY EmptySeq, RelayAssumption
<1>2. Size(<<>>) = 0 /\ Place(NewDec) = 0
  BY <1>1 DEF Size, Place, NewDec
<1>3. Follows(<<>>, NewDec)
  BY <1>1 DEF Follows, NewDec
<1>4. Holds(<<>>, <<>>, 0, 0) /\ Carry(<<>>, <<>>, 0, 0)
  BY HoldsNone, CarryNone
<1>5. Due(<<>>, NewUp) = 0
  BY <1>2 DEF Due, NewUp
<1>6. Fin(l, <<>>, 0, <<>>, NewUp)
  BY <1>1 DEF Fin
<1>7. Spans(l, <<>>, e, NewDec, NewReader, <<>>, NewUp, 0, 0)
  BY <1>2, <1>4, <1>5, <1>6 DEF Spans, NewReader, NewUp
<1>8. 0 \in 0..Size(<<>>) + 1 /\ 0 \in 0..0
  BY <1>2
<1> QED
  BY <1>3, <1>7, <1>8 DEF Flight

LEMMA FlightRead ==
    ASSUME NEW l, NEW s \in Seq(Chunk), NEW e \in BOOLEAN, NEW d \in Decoder, NEW r \in Reading,
           NEW w \in Seq(Frames), NEW u \in Sender, Flight(l, s, e, d, r, w, u),
           u.at = "read", NEW c \in Chunk
    PROVE  Flight(l, Append(s, c), e, d, r, w, [at |-> "flush", out |-> Block(c)])
<1> DEFINE t == Append(s, c)
           v == [at |-> "flush", out |-> Block(c)]
<1>1. PICK z \in 0..Size(s) + 1 : \E m \in 0..z : Spans(l, s, e, d, r, w, u, m, z)
  BY DEF Flight
<1>2. PICK m \in 0..z : Spans(l, s, e, d, r, w, u, m, z)
  BY <1>1
<1>3. /\ Size(s) \in Nat /\ Size(t) = Size(s) + BlockUnits /\ t \in Seq(Chunk)
      /\ BlockUnits \in Nat /\ BlockUnits > 0
  BY SizeAppend
<1>4. z = Size(s)
  <2>1. u.out = <<>> /\ Holds(s, u.out, z, Size(s))
    BY <1>2 DEF Spans, Due
  <2> QED
    BY <1>3, <2>1, EmptySeq DEF Holds
<1>5. Holds(t, r.pending, Place(d), m) /\ Carry(t, w, m, z) /\ Place(d) \in Nat
  <2>1. Holds(s, r.pending, Place(d), m) /\ Carry(s, w, m, z)
    BY <1>2 DEF Spans
  <2>2. Place(d) \in Nat /\ r.pending \in Seq(AUnit) /\ m \in Nat /\ m <= Size(s)
    BY <1>3, <1>4, <2>1 DEF Holds, Reading
  <2> QED
    BY <1>3, <1>4, <2>1, <2>2, HoldsGrows, CarryGrows
<1>6. Holds(t, v.out, z, Due(t, v)) /\ v.out # <<>> /\ v.at = "flush"
  BY <1>4, HoldsBlock DEF Due
<1>7. Fin(l, w, z, t, v) /\ ~r.fin
  BY <1>2 DEF Spans, Fin
<1>8. Spans(l, t, e, d, r, w, v, m, z)
  BY <1>3, <1>4, <1>5, <1>6, <1>7 DEF Spans
<1>9. Follows(t, d)
  <2>1. Follows(s, d)
    BY DEF Flight
  <2>2. ~d.whole
    <3>1. Place(d) <= m
      BY <1>2, <1>5, SeqFacts DEF Spans, Holds, Reading
    <3> QED
      BY <1>3, <1>4, <1>5, <2>1, <3>1, PlaceBound
  <2>3. /\ Len(s) \in Nat /\ Len(t) = Len(s) + 1 /\ \A j \in 1..Len(s) : t[j] = s[j]
        /\ Len(d.chunks) \in Nat
    BY SizeType, AppendFacts, SeqFacts DEF Decoder
  <2> HIDE DEF t
  <2>4. /\ Len(d.chunks) <= Len(s) /\ \A j \in 1..Len(d.chunks) : d.chunks[j] = s[j]
        /\ d.part < BlockUnits
    BY <2>1 DEF Follows
  <2>5. Len(d.chunks) < Len(t) /\ \A j \in 1..Len(d.chunks) : d.chunks[j] = t[j]
    BY <2>3, <2>4
  <2> QED
    BY <2>2, <2>3, <2>4, <2>5 DEF Follows
<1>10. z \in 0..Size(t) + 1
  BY <1>3, <1>4
<1> QED
  BY <1>8, <1>9, <1>10 DEF Flight

LEMMA FlightClose ==
    ASSUME NEW l, NEW s \in Seq(Chunk), NEW d \in Decoder, NEW r \in Reading,
           NEW w \in Seq(Frames), NEW u \in Sender, Flight(l, s, TRUE, d, r, w, u),
           u.at = "read"
    PROVE  Flight(l, s, TRUE, d, r, w, [at |-> "close", out |-> <<Unit(0, 0, s)>>])
<1> DEFINE v == [at |-> "close", out |-> <<Unit(0, 0, s)>>]
<1>1. PICK z \in 0..Size(s) + 1 : \E m \in 0..z : Spans(l, s, TRUE, d, r, w, u, m, z)
  BY DEF Flight
<1>2. PICK m \in 0..z : Spans(l, s, TRUE, d, r, w, u, m, z)
  BY <1>1
<1>3. z = Size(s)
  <2>1. u.out = <<>> /\ Holds(s, u.out, z, Size(s))
    BY <1>2 DEF Spans, Due
  <2> QED
    BY SizeType, <2>1, EmptySeq DEF Holds
<1>4. Holds(s, v.out, z, Due(s, v)) /\ v.out # <<>> /\ v.at = "close"
  BY <1>3, HoldsLast DEF Due
<1>5. Fin(l, w, z, s, v) /\ ~r.fin
  BY <1>2 DEF Spans, Fin
<1>6. Spans(l, s, TRUE, d, r, w, v, m, z)
  BY <1>2, <1>4, <1>5 DEF Spans
<1> QED
  BY <1>6 DEF Flight

LEMMA FlightWrite ==
    ASSUME NEW l \in Lease, NEW s \in Seq(Chunk), NEW e \in BOOLEAN, NEW d \in Decoder,
           NEW r \in Reading, NEW w \in Seq(Frames), NEW u \in Sender,
           Flight(l, s, e, d, r, w, u), u.at # "ended", u.out # <<>>,
           NEW n \in 1..Len(u.out), NEW v \in Sender,
           v.out = SubSeq(u.out, n + 1, Len(u.out)),
           v.at = IF v.out # <<>> THEN u.at ELSE IF u.at = "flush" THEN "read" ELSE "fin"
    PROVE  Flight(l, s, e, d, r, Append(w, Frame("DATA", l, SubSeq(u.out, 1, n))), v)
<1> DEFINE f == Frame("DATA", l, SubSeq(u.out, 1, n))
           x == Append(w, f)
<1>1. PICK z \in 0..Size(s) + 1 : \E m \in 0..z : Spans(l, s, e, d, r, w, u, m, z)
  BY DEF Flight
<1>2. PICK m \in 0..z : Spans(l, s, e, d, r, w, u, m, z)
  BY <1>1
<1>3. /\ Size(s) \in Nat /\ Len(u.out) \in Nat /\ u.out \in Seq(AUnit) /\ z \in Nat /\ m \in Nat
  BY SizeType, SeqFacts DEF Sender
<1>4. /\ Holds(s, u.out, z, Due(s, u)) /\ u.at \notin {"read", "fin"}
      /\ u.at \in {"flush", "close"} /\ Carry(s, w, m, z) /\ ~r.fin
  BY <1>2 DEF Spans, Sender
<1>5. /\ SubSeq(u.out, 1, n) \in Seq(AUnit) /\ Len(SubSeq(u.out, 1, n)) = n
      /\ Holds(s, SubSeq(u.out, 1, n), z, z + n) /\ Holds(s, v.out, z + n, Due(s, u))
  BY <1>3, <1>4, HoldsSplit
<1>6. /\ f \in Frames /\ f.units = SubSeq(u.out, 1, n) /\ f.type = "DATA" /\ f.id = l
      /\ f.units # <<>>
  <2>1. f.units # <<>>
    BY <1>5, EmptySeq DEF Frame
  <2> QED
    BY <1>5, <2>1 DEF Frames, Frame, AUnit
<1> HIDE DEF f
<1>7. z + n \in 0..Size(s) + 1 /\ z <= z + n /\ z + n <= Due(s, u) /\ v.out \in Seq(AUnit)
  <2>1. Due(s, u) = z + n + Len(v.out) /\ Len(v.out) \in Nat /\ v.out \in Seq(AUnit)
    BY <1>3, <1>5, SeqFacts DEF Holds, Sender
  <2>2. Due(s, u) <= Size(s) + 1 /\ Due(s, u) \in Nat
    BY <1>3 DEF Due
  <2>3. n \in Nat /\ z \in Nat /\ Size(s) \in Nat
    BY <1>3
  <2>4. z + n \in 0..Size(s) + 1 /\ z <= z + n /\ z + n <= Due(s, u)
    <3>1. ASSUME NEW a \in Nat, NEW b \in Nat, NEW c \in Nat, NEW g \in Nat, NEW h \in Nat,
                 h = a + b + c, h <= g + 1
          PROVE  a + b \in 0..g + 1 /\ a <= a + b /\ a + b <= h
      BY ONLY <3>1
    <3> QED
      BY <2>1, <2>2, <2>3, <3>1
  <2> QED
    BY <2>1, <2>4
<1>8. Carry(s, x, m, z + n)
  <2>1. Holds(s, f.units, z, z + n) /\ z + n \in Nat
    BY <1>3, <1>5, <1>6
  <2> QED
    BY <1>3, <1>4, <1>6, <1>7, <2>1, CarryMore
<1>9. Due(s, v) = Due(s, u) /\ v.at # "ended" /\ (v.out = <<>> <=> v.at \in {"read", "fin"})
  BY <1>4 DEF Due
<1>10. Fin(l, x, z + n, s, v)
  <2>1. /\ Len(w) \in Nat /\ Len(x) = Len(w) + 1 /\ x[Len(w) + 1] = f
        /\ \A i \in 1..Len(w) : x[i] = w[i]
    BY <1>6, AppendFacts, SeqFacts
  <2>2. \A i \in 1..Len(w) : w[i].id = l /\ w[i].type # "FIN" /\ (w[i].type = "DATA" => w[i].units # <<>>)
    BY <1>2 DEF Spans, Fin
  <2> HIDE DEF x
  <2>3. ASSUME NEW i \in 1..Len(x)
        PROVE  x[i].id = l /\ x[i].type # "FIN" /\ (x[i].type = "DATA" => x[i].units # <<>>)
    <3>1. CASE i = Len(w) + 1
      BY <1>6, <2>1, <3>1
    <3>2. CASE i \in 1..Len(w)
      BY <2>1, <2>2, <3>2
    <3> QED
      BY <2>1, <3>1, <3>2
  <2> QED
    BY <2>3 DEF Fin
<1>11. z + n > Size(s) \/ v.at \in {"close", "fin"} => e
  <2>1. CASE u.at = "flush"
    <3>1. Due(s, u) = Size(s) /\ v.at \notin {"close", "fin"}
      BY <2>1 DEF Due
    <3> QED
      BY <1>3, <1>7, <3>1
  <2>2. CASE u.at = "close"
    BY <1>2, <2>2 DEF Spans
  <2> QED
    BY <1>4, <2>1, <2>2
<1>12. Spans(l, s, e, d, r, x, v, m, z + n)
  <2> HIDE DEF x
  <2>1. Holds(s, r.pending, Place(d), m)
    BY <1>2 DEF Spans
  <2> QED
    BY <1>4, <1>5, <1>8, <1>9, <1>10, <1>11, <2>1 DEF Spans
<1>13. m \in 0..z + n
  BY <1>3
<1> QED
  BY <1>7, <1>12, <1>13 DEF Flight, f

LEMMA FlightFin ==
    ASSUME NEW l \in Lease, NEW s \in Seq(Chunk), NEW e \in BOOLEAN, NEW d \in Decoder,
           NEW r \in Reading, NEW w \in Seq(Frames), NEW u \in Sender,
           Flight(l, s, e, d, r, w, u), u.at = "fin"
    PROVE  Flight(l, s, e, d, r, Append(w, Frame("FIN", l, <<>>)), NoUp)
<1> DEFINE f == Frame("FIN", l, <<>>)
           x == Append(w, f)
<1>1. PICK z \in 0..Size(s) + 1 : \E m \in 0..z : Spans(l, s, e, d, r, w, u, m, z)
  BY DEF Flight
<1>2. PICK m \in 0..z : Spans(l, s, e, d, r, w, u, m, z)
  BY <1>1
<1>3. Size(s) \in Nat /\ z \in Nat /\ m \in Nat
  BY SizeType
<1>4. z = Size(s) + 1
  <2>1. u.out = <<>> /\ Holds(s, u.out, z, Size(s) + 1)
    BY <1>2 DEF Spans, Due
  <2> QED
    BY <1>3, <2>1, EmptySeq DEF Holds
<1>5. f \in Frames /\ f.type = "FIN" /\ f.id = l /\ f.units = <<>>
  BY EmptySeq DEF Frames, Frame
<1> HIDE DEF f
<1>6. Carry(s, x, m, z)
  <2>1. Holds(s, f.units, z, z) /\ Carry(s, w, m, z)
    BY <1>2, <1>3, <1>5, HoldsNone DEF Spans
  <2> QED
    BY <1>3, <1>5, <2>1, CarryMore
<1>7. Fin(l, x, z, s, NoUp)
  <2>1. /\ Len(w) \in Nat /\ Len(x) = Len(w) + 1 /\ x[Len(w) + 1] = f
        /\ \A i \in 1..Len(w) : x[i] = w[i]
    BY <1>5, AppendFacts, SeqFacts
  <2>2. \A i \in 1..Len(w) : w[i].id = l /\ w[i].type # "FIN" /\ (w[i].type = "DATA" => w[i].units # <<>>)
    BY <1>2 DEF Spans, Fin
  <2> HIDE DEF x
  <2>3. ASSUME NEW i \in 1..Len(x)
        PROVE  /\ x[i].id = l
               /\ x[i].type = "FIN" => i = Len(x) /\ x[i].units = <<>>
               /\ x[i].type = "DATA" => x[i].units # <<>>
    <3>1. CASE i = Len(w) + 1
      BY <1>5, <2>1, <3>1
    <3>2. CASE i \in 1..Len(w)
      BY <2>1, <2>2, <3>2
    <3> QED
      BY <2>1, <3>1, <3>2
  <2> QED
    BY <1>4, <2>3 DEF Fin, NoUp
<1>8. Spans(l, s, e, d, r, x, NoUp, m, z)
  <2> HIDE DEF x
  <2>1. Holds(s, r.pending, Place(d), m) /\ ~r.fin /\ e
    BY <1>2 DEF Spans
  <2> QED
    BY <1>6, <1>7, <2>1 DEF Spans, NoUp
<1> QED
  BY <1>8 DEF Flight, f

LEMMA FlightStops ==
    ASSUME NEW l, NEW s \in Seq(Chunk), NEW e \in BOOLEAN, NEW d, NEW r, NEW w, NEW u,
           Flight(l, s, e, d, r, w, u)
    PROVE  Flight(l, s, e, d, r, w, NoUp)
<1>1. PICK z \in 0..Size(s) + 1 : \E m \in 0..z : Spans(l, s, e, d, r, w, u, m, z)
  BY DEF Flight
<1>2. PICK m \in 0..z : Spans(l, s, e, d, r, w, u, m, z)
  BY <1>1
<1>3. Fin(l, w, z, s, NoUp)
  BY <1>2 DEF Spans, Fin, NoUp
<1>4. NoUp.at = "ended"
  BY DEF NoUp
<1>5. Spans(l, s, e, d, r, w, NoUp, m, z)
  BY <1>2, <1>3, <1>4 DEF Spans
<1> QED
  BY <1>5 DEF Flight

LEMMA FlightEnds ==
    ASSUME NEW l, NEW s, NEW e, NEW d, NEW r, NEW w, NEW u, Flight(l, s, e, d, r, w, u)
    PROVE  Flight(l, s, TRUE, d, r, w, u)
<1>1. PICK z \in 0..Size(s) + 1 : \E m \in 0..z : Spans(l, s, e, d, r, w, u, m, z)
  BY DEF Flight
<1>2. PICK m \in 0..z : Spans(l, s, e, d, r, w, u, m, z)
  BY <1>1
<1>3. Spans(l, s, TRUE, d, r, w, u, m, z)
  BY <1>2 DEF Spans
<1> QED
  BY <1>3 DEF Flight

-----------------------------------------------------------------------------
(* And the receiver.                                                        *)

\* The reader has nothing left, and takes a frame; v is taken from q, which leaves y.
Drained(r) == r.pending = <<>> /\ ~r.fin
Loads(f, q) == q.pending = f.units /\ (q.fin <=> f.type = "FIN")
\* The decoder d becomes g by the unit u: a chunk is complete, or none is.
Yields(d, u, g) ==
    /\ u.part = BlockUnits => /\ g.chunks = Append(d.chunks, u.chunk) /\ u.chunk \in Chunk
                              /\ ~g.whole /\ g.part = 0
    /\ u.part # BlockUnits => g.chunks = d.chunks
Pops(q, v, y) == q # <<>> /\ v = Head(q) /\ y = Tail(q)
Hands(r, v, q) == Pops(r.pending, v, q.pending) /\ q.fin = r.fin

LEMMA FlightReceive ==
    ASSUME NEW l, NEW s \in Seq(Chunk), NEW e \in BOOLEAN, NEW d \in Decoder,
           NEW r \in Reading, NEW w \in Seq(Frames), NEW u,
           Flight(l, s, e, d, r, w, u), Drained(r), NEW f, NEW y, Pops(w, f, y),
           NEW q \in Reading, Loads(f, q)
    PROVE  f.id = l /\ Flight(l, s, e, d, q, y, u)
<1>0. /\ r.pending = <<>> /\ ~r.fin /\ w # <<>> /\ f = Head(w) /\ y = Tail(w)
      /\ q.pending = f.units /\ (q.fin <=> f.type = "FIN")
  BY DEF Drained, Pops, Loads
<1>1. PICK z \in 0..Size(s) + 1 : \E m \in 0..z : Spans(l, s, e, d, r, w, u, m, z)
  BY DEF Flight
<1>2. PICK m \in 0..z : Spans(l, s, e, d, r, w, u, m, z)
  BY <1>1
<1>3. Size(s) \in Nat /\ z \in Nat /\ m \in Nat
  BY SizeType
<1>4. /\ Len(w) \in Nat /\ Len(w) >= 1 /\ f = w[1] /\ Len(Tail(w)) = Len(w) - 1
      /\ \A j \in 1..Len(w) - 1 : Tail(w)[j] = w[j + 1]
      /\ f \in Frames /\ Tail(w) \in Seq(Frames)
  BY <1>0, TailFacts, SeqFacts
<1>5. Place(d) = m /\ Carry(s, w, m, z)
  BY <1>0, <1>2, <1>3, EmptySeq DEF Spans, Holds
<1>6. PICK n \in 0..z : Holds(s, f.units, m, n) /\ Carry(s, Tail(w), n, z)
  BY <1>0, <1>3, <1>5, CarryLess
<1>7. f.id = l /\ (f.type = "FIN" => Len(w) = 1 /\ f.units = <<>> /\ z = Size(s) + 1 /\ u.at = "ended")
  <2>1. 1 \in 1..Len(w)
    BY <1>4
  <2>2. Fin(l, w, z, s, u)
    BY <1>2 DEF Spans
  <2>3. w[1].id = l /\ (w[1].type = "FIN" => 1 = Len(w) /\ w[1].units = <<>> /\ z = Size(s) + 1 /\ u.at = "ended")
    BY <2>1, <2>2 DEF Fin
  <2> QED
    BY <1>4, <2>3
<1>8. Fin(l, Tail(w), z, s, u)
  <2>1. ASSUME NEW i \in 1..Len(Tail(w))
        PROVE  /\ Tail(w)[i].id = l
               /\ Tail(w)[i].type = "FIN" => /\ i = Len(Tail(w)) /\ Tail(w)[i].units = <<>>
                                             /\ z = Size(s) + 1 /\ u.at = "ended"
               /\ Tail(w)[i].type = "DATA" => Tail(w)[i].units # <<>>
    <3>1. i + 1 \in 1..Len(w) /\ Tail(w)[i] = w[i + 1] /\ (i + 1 = Len(w) => i = Len(Tail(w)))
      BY <1>4
    <3> QED
      BY <1>2, <3>1 DEF Spans, Fin
  <2> QED
    BY <2>1 DEF Fin
<1>9. f.type = "FIN" => Tail(w) = <<>>
  BY <1>4, <1>7, SeqFacts
<1>10. Spans(l, s, e, d, q, Tail(w), u, n, z)
  <2>1. /\ u.at # "ended" => Holds(s, u.out, z, Due(s, u)) /\ (u.out = <<>> <=> u.at \in {"read", "fin"})
        /\ z > Size(s) \/ u.at \in {"close", "fin"} => e
    BY <1>2 DEF Spans
  <2> QED
    BY <1>0, <1>5, <1>6, <1>7, <1>8, <1>9, <2>1 DEF Spans
<1> QED
  BY <1>0, <1>7, <1>10 DEF Flight

LEMMA FlightDecode ==
    ASSUME NEW l, NEW s \in Seq(Chunk), NEW e \in BOOLEAN, NEW d \in Decoder,
           NEW r \in Reading, NEW w \in Seq(Frames), NEW u,
           Flight(l, s, e, d, r, w, u), NEW q \in Reading, NEW v,
           Hands(r, v, q)
    PROVE  /\ Good(d, v)
           /\ Flight(l, s, e, Decoded(d, v), q, w, u) /\ Yields(d, v, Decoded(d, v))
<1>0. r.pending # <<>> /\ v = Head(r.pending) /\ q.pending = Tail(r.pending) /\ q.fin = r.fin
  BY DEF Hands, Pops
<1>1. PICK z \in 0..Size(s) + 1 : \E m \in 0..z : Spans(l, s, e, d, r, w, u, m, z)
  BY DEF Flight
<1>2. PICK m \in 0..z : Spans(l, s, e, d, r, w, u, m, z)
  BY <1>1
<1>3. Size(s) \in Nat /\ z \in Nat /\ m \in Nat /\ Follows(s, d) /\ r.pending \in Seq(AUnit)
  BY SizeType DEF Flight, Reading
<1>4. Holds(s, r.pending, Place(d), m) /\ Place(d) \in Nat
  BY <1>2, <1>3, PlaceBound DEF Spans
<1>5. /\ IsUnit(s, Place(d) + 1, v) /\ v \in AUnit /\ Place(d) + 1 <= m
      /\ Holds(s, q.pending, Place(d) + 1, m)
  BY <1>0, <1>3, <1>4, HoldsTail
<1>6. Place(d) <= Size(s)
  BY <1>3, <1>4, <1>5
<1>7. /\ Good(d, v) /\ ~d.whole
      /\ Decoded(d, v) \in Decoder /\ Follows(s, Decoded(d, v))
      /\ Place(Decoded(d, v)) = Place(d) + 1
      /\ v.part = BlockUnits =>
            /\ Decoded(d, v).chunks = Append(d.chunks, v.chunk)
            /\ ~Decoded(d, v).whole /\ Decoded(d, v).part = 0
      /\ v.part # BlockUnits => Decoded(d, v).chunks = d.chunks
  BY <1>3, <1>5, <1>6, DecoderTakes
<1>8. ~r.fin
  BY <1>0, <1>2 DEF Spans
<1>9. Spans(l, s, e, Decoded(d, v), q, w, u, m, z)
  <2>1. Holds(s, q.pending, Place(Decoded(d, v)), m) /\ ~q.fin
    BY <1>0, <1>5, <1>7, <1>8
  <2> QED
    BY <1>2, <2>1 DEF Spans
<1>10. Flight(l, s, e, Decoded(d, v), q, w, u)
  BY <1>7, <1>9 DEF Flight
<1>11. v.part = BlockUnits => v.chunk \in Chunk
  BY <1>5, <1>7, RelayAssumption DEF AUnit, IsUnit, Unit, Good
<1>12. Yields(d, v, Decoded(d, v))
  BY <1>7, <1>11 DEF Yields
<1> QED
  BY <1>5, <1>7, <1>10, <1>12

\* Where the stream ends, the decoder is at its end and nothing is pending.
LEMMA FlightWhole ==
    ASSUME NEW l, NEW s \in Seq(Chunk), NEW e \in BOOLEAN, NEW d \in Decoder,
           NEW r \in Reading, NEW w \in Seq(Frames), NEW u,
           Flight(l, s, e, d, r, w, u), d.whole \/ r.fin
    PROVE  /\ d.whole /\ r.pending = <<>> /\ d.chunks = s /\ e
           /\ r.fin => w = <<>> /\ u.at = "ended"
           /\ w # <<>> => Head(w).type = "FIN" /\ Head(w).id = l /\ Len(w) = 1 /\ u.at = "ended"
           /\ w # <<>> => ~r.fin
<1>1. PICK z \in 0..Size(s) + 1 : \E m \in 0..z : Spans(l, s, e, d, r, w, u, m, z)
  BY DEF Flight
<1>2. PICK m \in 0..z : Spans(l, s, e, d, r, w, u, m, z)
  BY <1>1
<1>3. /\ Size(s) \in Nat /\ z \in Nat /\ m \in Nat /\ Follows(s, d) /\ r.pending \in Seq(AUnit)
      /\ Len(r.pending) \in Nat
  BY SizeType, SeqFacts DEF Flight, Reading
<1>4. /\ Holds(s, r.pending, Place(d), m) /\ Place(d) \in Nat /\ Carry(s, w, m, z)
      /\ m = Place(d) + Len(r.pending)
  BY <1>2, <1>3, PlaceBound DEF Spans, Holds
<1>5. d.whole /\ r.pending = <<>> /\ m = Size(s) + 1 /\ z = Size(s) + 1
  <2>1. CASE d.whole
    <3>1. Place(d) = Size(s) + 1
      BY <1>3, <2>1, PlaceBound
    <3>2. Len(r.pending) = 0 /\ m = Size(s) + 1 /\ z = Size(s) + 1
      BY <1>3, <1>4, <3>1
    <3> QED
      BY <1>3, <2>1, <3>2, SeqFacts
  <2>2. CASE r.fin
    <3>1. r.pending = <<>> /\ w = <<>> /\ z = Size(s) + 1
      BY <1>2, <2>2 DEF Spans
    <3>2. m = z
      BY <1>3, <1>4, <3>1, CarryNone
    <3>3. Place(d) = Size(s) + 1
      BY <1>3, <1>4, <3>1, <3>2, EmptySeq
    <3>4. d.whole
      BY <1>3, <3>3, PlaceBound
    <3> QED
      BY <3>1, <3>2, <3>4
  <2> QED
    BY <2>1, <2>2
<1>6. d.chunks = s
  <2>1. d.chunks \in Seq(Chunk) /\ Len(d.chunks) = Len(s)
    BY <1>3, <1>5 DEF Follows, Decoder
  <2> QED
    BY <1>3, <2>1, SeqEqual DEF Follows
<1>7. e
  BY <1>2, <1>3, <1>5 DEF Spans
<1>8. r.fin => w = <<>> /\ u.at = "ended"
  BY <1>2 DEF Spans
<1>9. ASSUME w # <<>>
      PROVE  Head(w).type = "FIN" /\ Head(w).id = l /\ Len(w) = 1 /\ u.at = "ended" /\ ~r.fin
  <2>1. /\ Len(w) \in Nat /\ Len(w) >= 1 /\ Head(w) = w[1] /\ Len(Tail(w)) = Len(w) - 1
        /\ Head(w) \in Frames /\ Tail(w) \in Seq(Frames)
    BY <1>9, TailFacts, SeqFacts
  <2>2. PICK n \in 0..z : Holds(s, Head(w).units, m, n)
    BY <1>3, <1>4, <1>9, CarryLess
  <2>3. Head(w).units = <<>>
    <3>1. Head(w).units \in Seq(AUnit)
      BY <2>1 DEF Frames, AUnit
    <3>2. Len(Head(w).units) \in Nat /\ n = m + Len(Head(w).units)
      BY <2>2, <3>1, SeqFacts DEF Holds
    <3>3. Len(Head(w).units) = 0
      BY <1>3, <1>5, <2>2, <3>2
    <3> QED
      BY <3>1, <3>3, SeqFacts
  <2>4. 1 \in 1..Len(w)
    BY <2>1
  <2>5. /\ w[1].id = l /\ w[1].type # "DATA"
        /\ w[1].type = "FIN" => 1 = Len(w) /\ u.at = "ended"
    BY <1>2, <2>1, <2>3, <2>4 DEF Spans, Fin
  <2>6. w[1].type = "FIN"
    BY <2>1, <2>5 DEF Frames
  <2> QED
    BY <1>8, <1>9, <2>1, <2>5, <2>6
<1> QED
  BY <1>5, <1>6, <1>7, <1>8, <1>9

LEMMA FlightFinish ==
    ASSUME NEW l, NEW s \in Seq(Chunk), NEW e \in BOOLEAN, NEW d \in Decoder,
           NEW r \in Reading, NEW w \in Seq(Frames), NEW u,
           Flight(l, s, e, d, r, w, u), d.whole, NEW f, NEW x, Pops(w, f, x),
           NEW q \in Reading, q.pending = r.pending, q.fin
    PROVE  Flight(l, s, e, d, q, x, u)
<1>0. w # <<>> /\ x = Tail(w)
  BY DEF Pops
<1>1. PICK z \in 0..Size(s) + 1 : \E m \in 0..z : Spans(l, s, e, d, r, w, u, m, z)
  BY DEF Flight
<1>2. PICK m \in 0..z : Spans(l, s, e, d, r, w, u, m, z)
  BY <1>1
<1>3. /\ Size(s) \in Nat /\ z \in Nat /\ m \in Nat /\ Follows(s, d)
  BY SizeType DEF Flight
<1>4. /\ r.pending = <<>> /\ Len(w) = 1 /\ u.at = "ended" /\ e
  BY <1>0, FlightWhole
<1>x. x = <<>> /\ Len(x) = 0
  <2>1. x \in Seq(Frames) /\ Len(x) = Len(w) - 1
    BY <1>0, TailFacts
  <2> QED
    BY <1>4, <2>1, SeqFacts
<1>5. Holds(s, r.pending, Place(d), m) /\ m = Place(d) /\ Place(d) = Size(s) + 1
  BY <1>2, <1>3, <1>4, PlaceBound, EmptySeq DEF Spans, Holds
<1>6. z = Size(s) + 1 /\ m = z
  BY <1>3, <1>5
<1>7. Carry(s, x, m, z)
  <2>1. Carry(s, <<>>, m, z)
    BY <1>3, <1>6, CarryNone
  <2> QED
    BY <1>x, <2>1
<1>8. Fin(l, x, z, s, u)
  BY <1>x DEF Fin
<1>9. Spans(l, s, e, d, q, x, u, m, z)
  BY <1>x, <1>4, <1>5, <1>6, <1>7, <1>8 DEF Spans
<1> QED
  BY <1>3, <1>9 DEF Flight

\* What the decoder holds last is the next chunk of what was sent.
LEMMA FlightChunk ==
    ASSUME NEW l, NEW s \in Seq(Chunk), NEW e, NEW d \in Decoder, NEW r, NEW w, NEW u,
           Flight(l, s, e, d, r, w, u), d.chunks # <<>>
    PROVE  /\ Last(d.chunks) \in Chunk /\ Append(Front(d.chunks), Last(d.chunks)) = d.chunks
           /\ Len(Front(d.chunks)) = Len(d.chunks) - 1 /\ Len(d.chunks) <= Len(s)
           /\ Last(d.chunks) = s[Len(d.chunks)] /\ Len(d.chunks) >= 1
<1> DEFINE q == d.chunks
           f == Front(q)
<1>1. /\ q \in Seq(Chunk) /\ Len(q) \in Nat /\ Len(q) >= 1 /\ Len(s) \in Nat
      /\ \A j \in 1..Len(q) : q[j] \in Chunk
  BY TailFacts, SeqFacts, SizeType DEF Decoder
<1>2. /\ f \in Seq(Chunk) /\ Len(f) = Len(q) - 1 /\ \A j \in 1..Len(q) - 1 : f[j] = q[j]
  <2>1. f = SubSeq(q, 1, Len(q) - 1)
    BY DEF Front
  <2> DEFINE k == Len(q) - 1
  <2>2. k \in Nat /\ \A j \in 1..k : q[j] \in Chunk
    BY <1>1
  <2>3. /\ f \in Seq(Chunk) /\ Len(f) = (IF 1 <= k THEN k - 1 + 1 ELSE 0)
        /\ \A j \in 1..k - 1 + 1 : f[j] = q[1 + j - 1]
    BY <2>1, <2>2, SubSeqProperties
  <2> HIDE DEF f, q, k
  <2>4. Len(f) = k /\ \A j \in 1..k : f[j] = q[j]
    BY <2>2, <2>3
  <2> QED
    BY <2>3, <2>4 DEF k
<1>3. Last(q) = q[Len(q)]
  BY DEF Last
<1>4. Append(f, q[Len(q)]) = q
  <2>1. q[Len(q)] \in Chunk
    BY <1>1
  <2>2. /\ Append(f, q[Len(q)]) \in Seq(Chunk) /\ Len(Append(f, q[Len(q)])) = Len(f) + 1
        /\ \A j \in 1..Len(f) : Append(f, q[Len(q)])[j] = f[j]
        /\ Append(f, q[Len(q)])[Len(f) + 1] = q[Len(q)]
    BY <1>2, <2>1, AppendFacts
  <2> HIDE DEF f, q
  <2>3. \A j \in 1..Len(q) : Append(f, q[Len(q)])[j] = q[j]
    BY <1>1, <1>2, <2>2
  <2> QED
    BY <1>1, <1>2, <2>2, <2>3, SeqEqual
<1>5. Len(q) <= Len(s) /\ q[Len(q)] = s[Len(q)]
  BY <1>1 DEF Flight, Follows
<1> QED
  BY <1>1, <1>2, <1>3, <1>4, <1>5

-----------------------------------------------------------------------------
(* The two ends.                                                            *)

LEMMA PeerFacts ==
    ASSUME NEW x \in End
    PROVE  /\ Peer(x) \in End /\ Peer(x) # x /\ Peer(Peer(x)) = x
           /\ \A y \in End : y = x \/ y = Peer(x)
  BY DEF End, Peer, S, C

LEMMA RunningFacts ==
    ASSUME IInv, NEW x \in End
    PROVE  /\ up[x].at # "ended" \/ down[x] # "ended" => Running(x)
           /\ Running(x) => /\ lease[x] = Now /\ Here(x) /\ Now \in Lease /\ Now > 0
                            /\ lease[x] \in Lease
<1>1. PumpsAt(x) /\ LeaseAt(x) /\ Order /\ Typed
  BY DEF IInv, Ends, Leases
<1>2. up[x].at # "ended" \/ down[x] # "ended" => Running(x)
  BY <1>1 DEF PumpsAt
<1>3. ASSUME Running(x) PROVE lease[x] = Now /\ lease[x] # 0
  BY <1>1, <1>3 DEF Running, LeaseAt, Order, Now, Idle, End, S, C
<1>4. lease[x] \in 0..MaxLease /\ MaxLease \in Nat
  BY <1>1, RelayAssumption DEF Typed
<1> QED
  BY <1>2, <1>3, <1>4 DEF Here, Lease

\* The chunks of a lease are those of no other.
LEMMA ChunkType ==
    ASSUME NEW l \in Lease, NEW k \in Nat, k < MaxChunks
    PROVE  (l - 1) * MaxChunks + k + 1 \in Chunk
<1>1. MaxLease \in Nat /\ MaxChunks \in Nat /\ l \in Nat /\ l >= 1 /\ l <= MaxLease
  BY RelayAssumption DEF Lease
<1> DEFINE a == (l - 1) * MaxChunks
           b == (MaxLease - l) * MaxChunks
<1>2. l - 1 \in Nat /\ MaxLease - l \in Nat
  BY <1>1
<1>3. a \in Nat /\ b \in Nat
  BY <1>1, <1>2
<1>4. MaxLease * MaxChunks = a + b + MaxChunks
  BY <1>1, <1>2
<1> HIDE DEF a, b
<1>5. a + k + 1 \in 1..a + b + MaxChunks
  BY <1>1, <1>3
<1> QED
  BY <1>4, <1>5 DEF Chunk, a

-----------------------------------------------------------------------------
(* Types.                                                                   *)

Step(x) == UpStep(x) \/ DownStep(x) \/ RunStep(x) \/ LocalStep(x) \/ GoesWrong(x)

LEMMA EmptyTypes ==
    /\ <<>> \in Seq(Chunk) /\ <<>> \in Seq(AUnit) /\ <<>> \in Seq(Result) /\ <<>> \in Seq(Frames)
    /\ NewUp \in Sender /\ NoUp \in Sender /\ NewReader \in Reading /\ NewDec \in Decoder
<1>1. /\ <<>> \in Seq(Chunk) /\ <<>> \in Seq(AUnit) /\ <<>> \in Seq(Result) /\ <<>> \in Seq(Frames)
  BY EmptySeq
<1>2. BlockUnits \in Nat
  BY RelayAssumption
<1> QED
  BY <1>1, <1>2 DEF NewUp, NoUp, NewReader, NewDec, Sender, Reading, Decoder

LEMMA InitTyped == Init => Typed
  BY EmptyTypes, RelayAssumption DEF Init, Typed, Result, Idle

LEMMA TypedRun ==
    ASSUME Typed, NEW x \in End, RunStep(x)
    PROVE  Typed'
<1>1. CASE Start(x)
  <2>1. lease[x] \in 0..MaxLease /\ lease[x] < MaxLease /\ MaxLease \in Nat
    BY <1>1, RelayAssumption DEF Start, Turn, Typed
  <2>2. lease[x] + 1 \in 0..MaxLease
    BY <2>1
  <2> QED
    BY <1>1, <2>2, EmptyTypes DEF Start, Reset, Typed, dataVars
<1>2. CASE TakeFirst(x)
  <2>1. results[x] \in Seq(Result) /\ results[x] # <<>>
    BY <1>2 DEF TakeFirst, Typed
  <2>2. Head(results[x]) \in Result /\ Tail(results[x]) \in Seq(Result)
    BY <2>1, TailFacts
  <2>3. tcp' \in [End -> BOOLEAN] /\ tun' \in [End -> BOOLEAN]
    BY <1>2 DEF TakeFirst, Abort, Typed
  <2> QED
    BY <1>2, <2>2, <2>3 DEF TakeFirst, Typed, dataVars, codecVars
<1>3. CASE TakeSecond(x)
  <2>1. results[x] \in Seq(Result) /\ results[x] # <<>>
    BY <1>3 DEF TakeSecond, Typed
  <2>2. Head(results[x]) \in Result /\ Tail(results[x]) \in Seq(Result)
    BY <2>1, TailFacts
  <2>3. tcp' \in [End -> BOOLEAN] /\ tun' \in [End -> BOOLEAN]
    BY <1>3 DEF TakeSecond, Typed
  <2>4. reader' \in [End -> Reading] /\ enc' \in [End -> Seq(Chunk)] /\ dec' \in [End -> Decoder]
    BY <1>3, EmptyTypes DEF TakeSecond, Typed
  <2>5. /\ run' \in [End -> {Idle, "first", "second", "failed"}] /\ first' \in [End -> Result]
        /\ results' \in [End -> Seq(Result)] /\ local' \in [End -> {"open", "eof", "reset"}]
    BY <1>3, <2>2 DEF TakeSecond, Typed, Result
  <2> QED
    BY <1>3, <2>3, <2>4, <2>5 DEF TakeSecond, Typed, dataVars
<1> QED
  BY <1>1, <1>2, <1>3 DEF RunStep

LEMMA TypedUp ==
    ASSUME Typed, NEW x \in End, UpStep(x), Running(x) => lease[x] \in Lease,
           up[x].at # "ended" => Running(x), up[x].out # <<>> => up[x].at # "ended"
    PROVE  Typed'
<1>1. CASE ReadEnd(x)
  <2>1. <<LastUnit(x)>> \in Seq(AUnit)
    BY HoldsLast DEF LastUnit, Typed
  <2>2. [at |-> "close", out |-> <<LastUnit(x)>>] \in Sender
    BY <2>1 DEF Sender
  <2> QED
    BY <1>1, <2>2 DEF ReadEnd, Typed, still, runVars, codecVars, sockVars, dataVars
<1>2. CASE WriteFrame(x)
  <2>1. /\ up[x] \in Sender /\ up[x].out \in Seq(AUnit) /\ up[x].out # <<>>
        /\ up[x].at \in {"flush", "close", "fin", "read"} /\ lease[x] \in Lease
    BY <1>2 DEF WriteFrame, Typed, Sender
  <2> DEFINE n == IF Len(up[x].out) < FrameMax THEN Len(up[x].out) ELSE FrameMax
             rest == SubSeq(up[x].out, n + 1, Len(up[x].out))
             part == SubSeq(up[x].out, 1, n)
             at == IF rest # <<>> THEN up[x].at ELSE IF up[x].at = "flush" THEN "read" ELSE "fin"
  <2>2. n \in 0..Len(up[x].out)
    BY <2>1, SeqFacts, RelayAssumption
  <2>3. rest \in Seq(AUnit) /\ part \in Seq(AUnit)
    <3>1. ASSUME NEW q \in Seq(AUnit), NEW k \in 0..Len(q)
          PROVE  SubSeq(q, 1, k) \in Seq(AUnit) /\ SubSeq(q, k + 1, Len(q)) \in Seq(AUnit)
      <4>1. Len(q) \in Nat /\ \A j \in 1..Len(q) : q[j] \in AUnit
        BY SeqFacts
      <4>2. /\ \A j \in 1..k : q[j] \in AUnit
            /\ \A j \in k + 1..Len(q) : q[j] \in AUnit
        BY <4>1
      <4> QED
        BY <4>1, <4>2, SubSeqProperties
    <3> QED
      BY <2>1, <2>2, <3>1
  <2>4. [at |-> at, out |-> rest] \in Sender
    BY <2>1, <2>3 DEF Sender
  <2>5. Frame("DATA", lease[x], part) \in Frames
    BY <2>1, <2>3 DEF Frame, Frames, AUnit
  <2>6. /\ wire' = [wire EXCEPT ![Peer(x)] = Append(wire[Peer(x)], Frame("DATA", lease[x], part))]
        /\ up' = [up EXCEPT ![x] = [at |-> at, out |-> rest]]
        /\ UNCHANGED <<still, results, down, codecVars, sockVars, dataVars>>
    BY <1>2 DEF WriteFrame, Sends
  <2>7. Append(wire[Peer(x)], Frame("DATA", lease[x], part)) \in Seq(Frames)
    BY <2>5, PeerFacts, AppendFacts DEF Typed
  <2> HIDE DEF n, rest, part, at
  <2> QED
    BY <2>4, <2>6, <2>7 DEF Typed, still, runVars, codecVars, sockVars, dataVars
<1>3. CASE WriteFin(x)
  <2>1. lease[x] \in Lease
    BY <1>3 DEF WriteFin
  <2>2. Frame("FIN", lease[x], <<>>) \in Frames
    BY <2>1, EmptyTypes DEF Frame, Frames, AUnit
  <2>3. Append(wire[Peer(x)], Frame("FIN", lease[x], <<>>)) \in Seq(Frames)
    BY <2>2, PeerFacts, AppendFacts DEF Typed
  <2>4. Append(results[x], "ok") \in Seq(Result)
    BY AppendFacts DEF Typed, Result
  <2> QED
    BY <1>3, <2>3, <2>4, EmptyTypes
    DEF WriteFin, Sends, UpEnds, Typed, still, runVars, codecVars, sockVars, dataVars
<1>4. CASE UpFails(x)
  <2>1. Append(results[x], "io") \in Seq(Result)
    BY AppendFacts DEF Typed, Result
  <2> QED
    BY <1>4, <2>1, EmptyTypes
    DEF UpFails, UpEnds, Typed, still, runVars, codecVars, sockVars, dataVars
<1> QED
  BY <1>1, <1>2, <1>3, <1>4 DEF UpStep

LEMMA DecodedType ==
    ASSUME NEW d \in Decoder, NEW u \in AUnit
    PROVE  Decoded(d, u) \in Decoder
<1>1. /\ d.chunks \in Seq(Chunk) /\ u.part \in 0..BlockUnits /\ BlockUnits \in Nat
      /\ u.chunk # 0 => u.chunk \in Chunk
  BY RelayAssumption DEF Decoder, AUnit
<1>2. CASE u.chunk = 0
  <2>1. Decoded(d, u) = [d EXCEPT !.whole = TRUE]
    BY <1>2 DEF Decoded
  <2> QED
    BY <2>1 DEF Decoder
<1>3. CASE u.chunk # 0 /\ u.part = BlockUnits
  <2> DEFINE g == [d EXCEPT !.part = 0]
  <2>1. g \in Decoder
    BY <1>1 DEF Decoder
  <2>2. Decoded(d, u) = [g EXCEPT !.chunks = Append(d.chunks, u.chunk)]
    BY <1>3 DEF Decoded
  <2>3. Append(d.chunks, u.chunk) \in Seq(Chunk)
    BY <1>1, <1>3, AppendFacts
  <2> HIDE DEF g
  <2> QED
    BY <2>1, <2>2, <2>3 DEF Decoder
<1>4. CASE u.chunk # 0 /\ u.part # BlockUnits
  <2>1. Decoded(d, u) = [d EXCEPT !.part = u.part]
    BY <1>4 DEF Decoded
  <2> QED
    BY <1>1, <2>1 DEF Decoder
<1> QED
  BY <1>2, <1>3, <1>4

LEMMA ResultType ==
    ASSUME Typed, NEW x \in End
    PROVE  \A r \in Result : Append(results[x], r) \in Seq(Result)
  BY AppendFacts DEF Typed

LEMMA TypedDown ==
    ASSUME Typed, NEW x \in End, DownStep(x), Running(x) => lease[x] \in Lease,
           down[x] # "ended" => Running(x), down[x] = "write" => dec[x].chunks # <<>>
    PROVE  Typed'
<1> DEFINE Moved == /\ down' \in [End -> {"copy", "write", "finish", "halfclose", "ended"}]
                    /\ results' \in [End -> Seq(Result)]
<1>0. ASSUME NEW r \in Result, DownEnds(x, r) PROVE Moved
  BY <1>0, ResultType DEF DownEnds, Typed
<1>00. ASSUME NEW p \in {"copy", "write", "finish", "halfclose"}, DownGoes(x, p) PROVE Moved
  BY <1>00 DEF DownGoes, Typed
<1>r. "ok" \in Result /\ "io" \in Result /\ "codec" \in Result
  BY DEF Result
<1>1. CASE Receives(x)
  <2>1. Moved
    BY <1>1, <1>0, <1>00, <1>r DEF Receives
  <2>2. wire[x] \in Seq(Frames) /\ wire[x] # <<>>
    BY <1>1 DEF Receives, Typed
  <2>3. Head(wire[x]) \in Frames /\ Tail(wire[x]) \in Seq(Frames)
    BY <2>2, TailFacts
  <2>4. [pending |-> Head(wire[x]).units, fin |-> Head(wire[x]).type = "FIN"] \in Reading
    <3>1. Head(wire[x]).units \in Seq(AUnit) /\ (Head(wire[x]).type = "FIN") \in BOOLEAN
      BY <2>3 DEF Frames, AUnit
    <3> QED
      BY <3>1 DEF Reading
  <2>5. reader' \in [End -> Reading] /\ wire' \in [End -> Seq(Frames)]
    BY <1>1, <2>3, <2>4 DEF Receives, Typed
  <2> QED
    BY <1>1, <2>1, <2>5 DEF Receives, Typed, still, runVars, sockVars, dataVars
<1>2. CASE Decode(x)
  <2> DEFINE u == Head(reader[x].pending)
  <2>1. Moved
    <3>1. DownEnds(x, "codec") \/ DownGoes(x, "write") \/ DownGoes(x, "copy")
      BY <1>2 DEF Decode
    <3> QED
      BY <3>1, <1>0, <1>00, <1>r
  <2>2. reader[x] \in Reading /\ reader[x].pending \in Seq(AUnit) /\ reader[x].pending # <<>>
    BY <1>2 DEF Decode, Typed, Reading
  <2>3. u \in AUnit /\ Tail(reader[x].pending) \in Seq(AUnit)
    BY <2>2, TailFacts
  <2>4. [reader[x] EXCEPT !.pending = Tail(reader[x].pending)] \in Reading
    BY <2>2, <2>3 DEF Reading
  <2>5. reader' = [reader EXCEPT ![x] = [reader[x] EXCEPT !.pending = Tail(reader[x].pending)]]
    BY <1>2 DEF Decode
  <2>6. reader' \in [End -> Reading]
    BY <2>4, <2>5 DEF Typed
  <2>7. Decoded(dec[x], u) \in Decoder
    BY <2>3, DecodedType DEF Typed
  <2>8. dec' \in [End -> Decoder]
    BY <1>2, <2>7 DEF Decode, Typed
  <2> QED
    BY <1>2, <2>1, <2>6, <2>8 DEF Decode, Typed, still, runVars, sockVars, dataVars
<1>3. CASE WriteLocal(x)
  <2>1. Moved
    BY <1>3, <1>00 DEF WriteLocal
  <2>2. lease[x] \in Lease /\ dec[x].chunks \in Seq(Chunk) /\ dec[x].chunks # <<>>
    BY <1>3 DEF WriteLocal, Typed, Decoder
  <2>3. Last(dec[x].chunks) \in Chunk
    <3>1. ASSUME NEW q \in Seq(Chunk), q # <<>> PROVE q[Len(q)] \in Chunk
      BY <3>1, TailFacts, SeqFacts
    <3> QED
      BY <2>2, <3>1 DEF Last
  <2>4. got[x] \in [Lease -> Seq(Chunk)] /\ got[x][lease[x]] \in Seq(Chunk)
    BY <2>2 DEF Typed
  <2>5. Append(got[x][lease[x]], Last(dec[x].chunks)) \in Seq(Chunk)
    BY <2>3, <2>4, AppendFacts
  <2>6. got' \in [End -> [Lease -> Seq(Chunk)]]
    BY <1>3, <2>4, <2>5 DEF WriteLocal, Typed
  <2> QED
    BY <1>3, <2>1, <2>6 DEF WriteLocal, Typed, still, runVars, codecVars, sockVars
<1>4. CASE CopyEnds(x)
  <2>1. Moved
    <3>1. DownEnds(x, "codec") \/ DownGoes(x, "halfclose") \/ DownGoes(x, "finish")
      BY <1>4 DEF CopyEnds
    <3> QED
      BY <3>1, <1>0, <1>00, <1>r
  <2> QED
    BY <1>4, <2>1 DEF CopyEnds, Typed, still, runVars, codecVars, sockVars, dataVars
<1>5. CASE Finish(x)
  <2>1. Moved
    <3>1. DownEnds(x, "codec") \/ DownGoes(x, "halfclose")
      BY <1>5 DEF Finish
    <3> QED
      BY <3>1, <1>0, <1>00, <1>r
  <2>2. wire[x] \in Seq(Frames) /\ wire[x] # <<>>
    BY <1>5 DEF Finish, Typed
  <2>3. Tail(wire[x]) \in Seq(Frames)
    BY <2>2, TailFacts
  <2>r. reader[x] \in Reading
    BY DEF Typed
  <2>4. [reader[x] EXCEPT !.fin = TRUE] \in Reading
    BY <2>r DEF Reading
  <2>5. reader' = [reader EXCEPT ![x] = [reader[x] EXCEPT !.fin = TRUE]]
    BY <1>5 DEF Finish
  <2>6. reader' \in [End -> Reading]
    BY <2>4, <2>5 DEF Typed
  <2>7. wire' \in [End -> Seq(Frames)]
    BY <1>5, <2>3 DEF Finish, Typed
  <2> QED
    BY <1>5, <2>1, <2>6, <2>7 DEF Finish, Typed, still, runVars, sockVars, dataVars
<1>6. CASE HalfClose(x)
  <2>1. Moved
    BY <1>6, <1>0, <1>r DEF HalfClose
  <2>2. lease[x] \in Lease
    BY <1>6 DEF HalfClose
  <2>3. over' \in [End -> SUBSET Lease]
    BY <1>6, <2>2 DEF HalfClose, Typed
  <2> QED
    BY <1>6, <2>1, <2>3 DEF HalfClose, Typed, still, runVars, codecVars, sockVars
<1>7. CASE DownFails(x)
  <2>1. Moved
    BY <1>7, <1>0, <1>r DEF DownFails
  <2> QED
    BY <1>7, <2>1 DEF DownFails, Typed, still, runVars, codecVars, sockVars, dataVars
<1> QED
  BY <1>1, <1>2, <1>3, <1>4, <1>5, <1>6, <1>7 DEF DownStep

LEMMA TypedLocal ==
    ASSUME Typed, NEW x \in End, LocalStep(x), Running(x) => lease[x] \in Lease,
           up[x].at # "ended" => Running(x)
    PROVE  Typed'
<1>1. CASE ReadLocal(x)
  <2> DEFINE l == lease[x]
             c == (l - 1) * MaxChunks + Len(sent[x][l]) + 1
  <2>1. l \in Lease /\ sent[x] \in [Lease -> Seq(Chunk)] /\ sent[x][l] \in Seq(Chunk)
        /\ Len(sent[x][l]) < MaxChunks /\ enc[x] \in Seq(Chunk)
    BY <1>1 DEF ReadLocal, Typed
  <2>2. c \in Chunk
    BY <2>1, SeqFacts, ChunkType
  <2>3. /\ sent' = [sent EXCEPT ![x][l] = Append(sent[x][l], c)]
        /\ enc' = [enc EXCEPT ![x] = Append(enc[x], c)]
        /\ up' = [up EXCEPT ![x] = [at |-> "flush", out |-> Block(c)]]
    BY <1>1 DEF ReadLocal
  <2> HIDE DEF c
  <2>4. Append(sent[x][l], c) \in Seq(Chunk) /\ Append(enc[x], c) \in Seq(Chunk)
    BY <2>1, <2>2, AppendFacts
  <2>5. Block(c) \in Seq(AUnit)
    BY <2>1, <2>2, HoldsBlock
  <2>6. [at |-> "flush", out |-> Block(c)] \in Sender
    BY <2>5 DEF Sender
  <2>7. /\ sent' \in [End -> [Lease -> Seq(Chunk)]] /\ enc' \in [End -> Seq(Chunk)]
        /\ up' \in [End -> Sender]
    BY <2>1, <2>3, <2>4, <2>6 DEF Typed
  <2> QED
    BY <1>1, <2>7 DEF ReadLocal, Typed, still, runVars, sockVars
<1>2. CASE LocalEnds(x)
  <2>1. lease[x] \in Lease
    BY <1>2 DEF LocalEnds
  <2> QED
    BY <1>2, <2>1 DEF LocalEnds, Typed, still, runVars, codecVars
<1> QED
  BY <1>1, <1>2 DEF LocalStep

LEMMA TypedWrong ==
    ASSUME Typed, NEW x \in End, GoesWrong(x)
    PROVE  Typed'
<1>0. ASSUME Fault PROVE faults' \in 0..MaxFaults
  BY <1>0, RelayAssumption DEF Fault, Typed
<1>1. CASE LocalResets(x)
  BY <1>0, <1>1 DEF LocalResets, Typed, runVars, codecVars, dataVars
<1>2. CASE Forced(x)
  BY <1>0, <1>2 DEF Forced, Typed, runVars, codecVars, dataVars
<1>3. CASE Cancelled(x)
  BY <1>0, <1>3 DEF Cancelled, Abort, Typed, runVars, codecVars, dataVars
<1>4. CASE WriteTimesOut(x)
  <2>1. /\ up' \in [End -> Sender]
        /\ down' \in [End -> {"copy", "write", "finish", "halfclose", "ended"}]
        /\ results' \in [End -> Seq(Result)]
    <3>1. "io" \in Result
      BY DEF Result
    <3>2. Append(results[x], "io") \in Seq(Result)
      BY <3>1, ResultType
    <3>3. CASE UpEnds(x, "io") /\ UNCHANGED down
      BY <3>2, <3>3, EmptyTypes DEF UpEnds, Typed
    <3>4. CASE DownEnds(x, "io") /\ UNCHANGED up
      BY <3>2, <3>4 DEF DownEnds, Typed
    <3> QED
      BY <1>4, <3>3, <3>4 DEF WriteTimesOut
  <2> QED
    BY <1>0, <1>4, <2>1 DEF WriteTimesOut, Typed, runVars, codecVars, sockVars, dataVars
<1> QED
  BY <1>1, <1>2, <1>3, <1>4 DEF GoesWrong

LEMMA TypedStep ==
    ASSUME IInv, NEW x \in End, Step(x)
    PROVE  Typed'
<1>1. Typed /\ PumpsAt(x)
  BY DEF IInv, Ends
<1>2. /\ Running(x) => lease[x] \in Lease
      /\ up[x].at # "ended" => Running(x)
      /\ down[x] # "ended" => Running(x)
  BY <1>1, RunningFacts DEF PumpsAt
<1>3. up[x].out # <<>> => up[x].at # "ended"
  BY <1>1 DEF PumpsAt
<1>4. down[x] = "write" => dec[x].chunks # <<>>
  BY <1>2, RunningFacts DEF IInv, Delivered, DeliveredAt
<1>5. CASE UpStep(x)
  BY <1>1, <1>2, <1>3, <1>5, TypedUp
<1>6. CASE DownStep(x)
  BY <1>1, <1>2, <1>4, <1>6, TypedDown
<1>7. CASE RunStep(x)
  BY <1>1, <1>7, TypedRun
<1>8. CASE LocalStep(x)
  BY <1>1, <1>2, <1>8, TypedLocal
<1>9. CASE GoesWrong(x)
  BY <1>1, <1>9, TypedWrong
<1> QED
  BY <1>5, <1>6, <1>7, <1>8, <1>9 DEF Step

-----------------------------------------------------------------------------
(* A step of one end leaves what the other end owns alone.                  *)

Own(y) == <<lease[y], run[y], first[y], results[y], up[y], down[y], reader[y], enc[y], dec[y],
            local[y], sent[y], got[y], eof[y], over[y]>>

LEMMA OtherEnd ==
    ASSUME Typed, NEW x \in End, Step(x), NEW y \in End, y # x
    PROVE  Own(y)' = Own(y)
<1> USE DEF Own, still, runVars, codecVars, sockVars, dataVars, Typed
<1>1. CASE UpStep(x)
  <2>1. CASE ReadEnd(x)
    BY <2>1 DEF ReadEnd
  <2>2. CASE WriteFrame(x)
    BY <2>2 DEF WriteFrame
  <2>3. CASE WriteFin(x)
    BY <2>3 DEF WriteFin, UpEnds
  <2>4. CASE UpFails(x)
    BY <2>4 DEF UpFails, UpEnds
  <2> QED
    BY <1>1, <2>1, <2>2, <2>3, <2>4 DEF UpStep
<1>2. CASE DownStep(x)
  <2>0. ASSUME NEW r, DownEnds(x, r) PROVE down'[y] = down[y] /\ results'[y] = results[y]
    BY <2>0 DEF DownEnds
  <2>00. ASSUME NEW p, DownGoes(x, p) PROVE down'[y] = down[y] /\ results'[y] = results[y]
    BY <2>00 DEF DownGoes
  <2>1. CASE Receives(x)
    <3>1. down'[y] = down[y] /\ results'[y] = results[y]
      BY <2>0, <2>00, <2>1 DEF Receives
    <3> QED
      BY <2>1, <3>1 DEF Receives
  <2>2. CASE Decode(x)
    <3>1. down'[y] = down[y] /\ results'[y] = results[y]
      BY <2>0, <2>00, <2>2 DEF Decode
    <3> QED
      BY <2>2, <3>1 DEF Decode
  <2>3. CASE WriteLocal(x)
    <3>1. down'[y] = down[y] /\ results'[y] = results[y]
      BY <2>0, <2>00, <2>3 DEF WriteLocal
    <3> QED
      BY <2>3, <3>1 DEF WriteLocal
  <2>4. CASE CopyEnds(x)
    <3>1. down'[y] = down[y] /\ results'[y] = results[y]
      BY <2>0, <2>00, <2>4 DEF CopyEnds
    <3> QED
      BY <2>4, <3>1 DEF CopyEnds
  <2>5. CASE Finish(x)
    <3>1. down'[y] = down[y] /\ results'[y] = results[y]
      BY <2>0, <2>00, <2>5 DEF Finish
    <3> QED
      BY <2>5, <3>1 DEF Finish
  <2>6. CASE HalfClose(x)
    <3>1. down'[y] = down[y] /\ results'[y] = results[y]
      BY <2>0, <2>6 DEF HalfClose
    <3> QED
      BY <2>6, <3>1 DEF HalfClose
  <2>7. CASE DownFails(x)
    <3>1. down'[y] = down[y] /\ results'[y] = results[y]
      BY <2>0, <2>7 DEF DownFails
    <3> QED
      BY <2>7, <3>1 DEF DownFails
  <2> QED
    BY <1>2, <2>1, <2>2, <2>3, <2>4, <2>5, <2>6, <2>7 DEF DownStep
<1>3. CASE RunStep(x)
  <2>1. CASE Start(x)
    BY <2>1 DEF Start, Reset
  <2>2. CASE TakeFirst(x)
    BY <2>2 DEF TakeFirst
  <2>3. CASE TakeSecond(x)
    <3>1. reader'[y] = reader[y] /\ enc'[y] = enc[y] /\ dec'[y] = dec[y]
      BY <2>3 DEF TakeSecond
    <3> QED
      BY <2>3, <3>1 DEF TakeSecond
  <2> QED
    BY <1>3, <2>1, <2>2, <2>3 DEF RunStep
<1>4. CASE LocalStep(x)
  BY <1>4 DEF LocalStep, ReadLocal, LocalEnds
<1>5. CASE GoesWrong(x)
  <2>1. CASE LocalResets(x)
    BY <2>1 DEF LocalResets
  <2>2. CASE Forced(x)
    BY <2>2 DEF Forced
  <2>3. CASE Cancelled(x)
    BY <2>3 DEF Cancelled
  <2>4. CASE WriteTimesOut(x)
    BY <2>4 DEF WriteTimesOut, UpEnds, DownEnds
  <2> QED
    BY <1>5, <2>1, <2>2, <2>3, <2>4 DEF GoesWrong
<1> QED
  BY <1>1, <1>2, <1>3, <1>4, <1>5 DEF Step

LEMMA OwnKept ==
    ASSUME NEW y, Own(y)' = Own(y)
    PROVE  /\ PumpsAt(y) => PumpsAt(y)'
           /\ NoCodecAt(y) => NoCodecAt(y)'
           /\ LeaseAt(y) => LeaseAt(y)'
<1>1. PumpsAt(y) => PumpsAt(y)'
  BY DEF Own, PumpsAt, Clean, Running
<1>2. NoCodecAt(y) => NoCodecAt(y)'
  BY DEF Own, NoCodecAt
<1>3. LeaseAt(y) => LeaseAt(y)'
  BY DEF Own, LeaseAt
<1> QED
  BY <1>1, <1>2, <1>3

\* The direction in which a running pump writes, and the one from which it reads.
LEMMA Outgoing ==
    ASSUME IInv, NEW x \in End, up[x].at # "ended", Down(Peer(x)) # "ended"
    PROVE  /\ Flight(Now, sent[x][Now], Ended(x), Dec(Peer(x)), Reader(Peer(x)), wire[Peer(x)], up[x])
           /\ Now \in Lease /\ sent[x][Now] \in Seq(Chunk) /\ Dec(Peer(x)) \in Decoder
           /\ Reader(Peer(x)) \in Reading /\ wire[Peer(x)] \in Seq(Frames) /\ up[x] \in Sender
<1>1. Here(x) /\ Now \in Lease /\ Now > 0 /\ Up(x) = up[x]
  BY RunningFacts DEF Up
<1>2. Peer(x) \in End
  BY PeerFacts
<1>3. Direction(x)
  BY <1>1 DEF IInv, InFlight
<1> QED
  BY <1>1, <1>2, <1>3, EmptyTypes DEF Direction, Dec, Reader, IInv, Typed

LEMMA Incoming ==
    ASSUME IInv, NEW x \in End, down[x] # "ended"
    PROVE  /\ Flight(Now, sent[Peer(x)][Now], Ended(Peer(x)), dec[x], reader[x], wire[x], Up(Peer(x)))
           /\ Now \in Lease /\ sent[Peer(x)][Now] \in Seq(Chunk) /\ dec[x] \in Decoder
           /\ reader[x] \in Reading /\ wire[x] \in Seq(Frames) /\ Up(Peer(x)) \in Sender
           /\ lease[x] = Now /\ Running(x)
<1>1. Here(x) /\ Now \in Lease /\ Now > 0 /\ Dec(x) = dec[x] /\ Reader(x) = reader[x] /\ Down(x) = down[x]
      /\ lease[x] = Now /\ Running(x)
  BY RunningFacts DEF Dec, Reader, Down
<1>2. Peer(x) \in End /\ Peer(Peer(x)) = x
  BY PeerFacts
<1>3. Direction(Peer(x))
  BY <1>1, <1>2 DEF IInv, InFlight
<1> QED
  BY <1>1, <1>2, <1>3, EmptyTypes DEF Direction, Up, IInv, Typed

-----------------------------------------------------------------------------
(* No step of the pump to the local socket ends in an error of the codec.   *)

LEMMA ReceivesGood ==
    ASSUME IInv, NEW x \in End, Receives(x)
    PROVE  /\ Flight(Now, sent[Peer(x)][Now], Ended(Peer(x)), dec[x], reader'[x], wire'[x], Up(Peer(x)))
           /\ DownGoes(x, "copy")
<1> DEFINE q == reader'[x]
<1>1. /\ down[x] = "copy" /\ reader[x].pending = <<>> /\ ~reader[x].fin /\ wire[x] # <<>>
  BY DEF Receives
<1>2. q = [pending |-> Head(wire[x]).units, fin |-> Head(wire[x]).type = "FIN"]
  BY DEF Receives, IInv, Typed
<1>3. q \in Reading
  BY TypedStep DEF Step, DownStep, Typed
<1>4. q.pending = Head(wire[x]).units /\ (q.fin <=> Head(wire[x]).type = "FIN")
  <2>1. ASSUME NEW a, NEW b \in BOOLEAN
        PROVE  [pending |-> a, fin |-> b].pending = a /\ [pending |-> a, fin |-> b].fin = b
    OBVIOUS
  <2>2. (Head(wire[x]).type = "FIN") \in BOOLEAN
    OBVIOUS
  <2>3. q.pending = Head(wire[x]).units /\ q.fin = (Head(wire[x]).type = "FIN")
    <3> DEFINE a == Head(wire[x]).units
               b == Head(wire[x]).type = "FIN"
    <3>1. q = [pending |-> a, fin |-> b] /\ b \in BOOLEAN
      BY <1>2, <2>2
    <3> HIDE DEF a, b, q
    <3>2. q.pending = a /\ q.fin = b
      BY <2>1, <3>1
    <3> QED
      BY <3>2 DEF a, b
  <2> QED
    BY <2>3
<1>5. Ended(Peer(x)) \in BOOLEAN
  BY DEF Ended
<1>7. wire'[x] = Tail(wire[x])
  BY DEF Receives, IInv, Typed
<1>a. /\ Flight(Now, sent[Peer(x)][Now], Ended(Peer(x)), dec[x], reader[x], wire[x], Up(Peer(x)))
      /\ sent[Peer(x)][Now] \in Seq(Chunk) /\ dec[x] \in Decoder
      /\ reader[x] \in Reading /\ wire[x] \in Seq(Frames)
  BY <1>1, Incoming
<1> DEFINE f == Head(wire[x])
<1>b. Drained(reader[x]) /\ Pops(wire[x], f, wire'[x]) /\ Loads(f, q)
  BY <1>1, <1>4, <1>7 DEF Drained, Pops, Loads
<1> HIDE DEF q, f
<1>6. /\ f.id = Now
      /\ Flight(Now, sent[Peer(x)][Now], Ended(Peer(x)), dec[x], q, wire'[x], Up(Peer(x)))
  BY <1>3, <1>5, <1>a, <1>b, FlightReceive
<1>8. lease[x] = Now
  BY <1>1, Incoming
<1>9. DownGoes(x, "copy")
  BY <1>6, <1>8 DEF Receives, f
<1> QED
  BY <1>6, <1>9 DEF q

LEMMA DecodeGood ==
    ASSUME IInv, NEW x \in End, Decode(x)
    PROVE  LET v == Head(reader[x].pending)
           IN  /\ DownGoes(x, IF v.part = BlockUnits THEN "write" ELSE "copy")
               /\ dec'[x] = Decoded(dec[x], v)
               /\ Flight(Now, sent[Peer(x)][Now], Ended(Peer(x)), dec'[x], reader'[x], wire[x], Up(Peer(x)))
               /\ Yields(dec[x], v, dec'[x])
<1> DEFINE q == reader'[x]
           v == Head(reader[x].pending)
<1>1. down[x] = "copy" /\ reader[x].pending # <<>>
  BY DEF Decode
<1>2. q = [reader[x] EXCEPT !.pending = Tail(reader[x].pending)] /\ reader[x] \in Reading
  BY DEF Decode, IInv, Typed
<1>3. q \in Reading
  BY TypedStep DEF Step, DownStep, Typed
<1>4. q.pending = Tail(reader[x].pending) /\ q.fin = reader[x].fin
  BY <1>2 DEF Reading
<1>5. Ended(Peer(x)) \in BOOLEAN
  BY DEF Ended
<1>6. dec'[x] = Decoded(dec[x], v)
  BY DEF Decode, IInv, Typed
<1>a. /\ Flight(Now, sent[Peer(x)][Now], Ended(Peer(x)), dec[x], reader[x], wire[x], Up(Peer(x)))
      /\ sent[Peer(x)][Now] \in Seq(Chunk) /\ dec[x] \in Decoder
      /\ reader[x] \in Reading /\ wire[x] \in Seq(Frames)
  BY <1>1, Incoming
<1>7. Hands(reader[x], v, q)
  BY <1>1, <1>4 DEF Pops, Hands
<1> DEFINE s == sent[Peer(x)][Now]
           e == Ended(Peer(x))
           u == Up(Peer(x))
           d == dec[x]
           r == reader[x]
           w == wire[x]
<1>b. /\ Flight(Now, s, e, d, r, w, u) /\ s \in Seq(Chunk) /\ e \in BOOLEAN /\ d \in Decoder
      /\ r \in Reading /\ w \in Seq(Frames) /\ Hands(r, v, q)
  BY <1>5, <1>7, <1>a
<1> HIDE DEF q, v, s, e, u, d, r, w
<1>c. Good(d, v) /\ Flight(Now, s, e, Decoded(d, v), q, w, u) /\ Yields(d, v, Decoded(d, v))
  BY <1>3, <1>b, FlightDecode
<1>9. /\ Good(dec[x], v)
      /\ Flight(Now, sent[Peer(x)][Now], Ended(Peer(x)), Decoded(dec[x], v), q, wire[x], Up(Peer(x)))
      /\ Yields(dec[x], v, Decoded(dec[x], v))
  BY <1>c DEF s, e, u, d, w
<1>10. DownGoes(x, IF v.part = BlockUnits THEN "write" ELSE "copy")
  BY <1>9 DEF Decode, v
<1> QED
  BY <1>6, <1>9, <1>10 DEF q, v

LEMMA CopyEndsGood ==
    ASSUME IInv, NEW x \in End, CopyEnds(x)
    PROVE  /\ dec[x].whole /\ reader[x].pending = <<>>
           /\ DownGoes(x, IF reader[x].fin THEN "halfclose" ELSE "finish")
<1>1. down[x] = "copy" /\ (dec[x].whole \/ reader[x].fin)
  BY DEF CopyEnds
<1>2. Ended(Peer(x)) \in BOOLEAN
  BY DEF Ended
<1>3. dec[x].whole /\ reader[x].pending = <<>>
  BY <1>1, <1>2, Incoming, FlightWhole
<1> QED
  BY <1>3 DEF CopyEnds, AtBoundary

LEMMA FinishGood ==
    ASSUME IInv, NEW x \in End, Finish(x)
    PROVE  DownGoes(x, "halfclose") /\ dec[x].whole /\ wire[x] # <<>>
<1>1. down[x] = "finish" /\ wire[x] # <<>>
  BY DEF Finish
<1>2. dec[x].whole
  BY <1>1, RunningFacts DEF IInv, Delivered, DeliveredAt
<1>3. Ended(Peer(x)) \in BOOLEAN
  BY DEF Ended
<1>4. Head(wire[x]).type = "FIN" /\ Head(wire[x]).id = Now /\ lease[x] = Now
  BY <1>1, <1>2, <1>3, Incoming, FlightWhole
<1> QED
  BY <1>1, <1>2, <1>4 DEF Finish

-----------------------------------------------------------------------------
(* Run and its pumps at the end that takes a step.                          *)

AtEnd(x) == PumpsAt(x) /\ NoCodecAt(x) /\ LeaseAt(x)

\* What Run and the local streams are, apart from the pumps.
Lasting(x) == <<lease[x], run[x], first[x], enc[x], local[x], sent[x], eof[x]>>

LEMMA Left ==
    ASSUME NEW q \in Seq(Result), NEW r \in Result, NEW p, p = Append(q, r)
    PROVE  /\ Len(p) = Len(q) + 1 /\ Len(q) \in Nat
           /\ (\A i \in 1..Len(p) : p[i] = "ok") => r = "ok" /\ \A i \in 1..Len(q) : q[i] = "ok"
           /\ r # "codec" /\ (\A i \in 1..Len(q) : q[i] # "codec") => \A i \in 1..Len(p) : p[i] # "codec"
<1>1. /\ Len(p) = Len(q) + 1 /\ p[Len(q) + 1] = r /\ Len(q) \in Nat
      /\ \A j \in 1..Len(q) : p[j] = q[j]
  BY AppendFacts, SeqFacts
<1>2. ASSUME NEW i \in 1..Len(p) PROVE i = Len(q) + 1 \/ i \in 1..Len(q)
  BY <1>1
<1>3. ASSUME NEW i \in 1..Len(q) PROVE i \in 1..Len(p)
  BY <1>1
<1>4. Len(q) + 1 \in 1..Len(p)
  BY <1>1
<1> QED
  BY <1>1, <1>2, <1>3, <1>4

LEMMA UpEnded ==
    ASSUME Typed, NEW x \in End, AtEnd(x), Running(x), up[x].at # "ended",
           NEW r \in {"ok", "io"}, UpEnds(x, r), Lasting(x)' = Lasting(x),
           down'[x] = down[x], got'[x] = got[x], over'[x] = over[x]
    PROVE  AtEnd(x)'
<1> DEFINE q == results[x]
           p == results'[x]
<1>1. /\ up'[x] = NoUp /\ p = Append(q, r) /\ q \in Seq(Result)
  BY DEF UpEnds, Typed
<1>2. r \in Result /\ r # "codec"
  BY DEF Result
<1>3. /\ Len(p) = Len(q) + 1 /\ Len(q) \in Nat
      /\ (\A i \in 1..Len(p) : p[i] = "ok") => r = "ok" /\ \A i \in 1..Len(q) : q[i] = "ok"
      /\ (\A i \in 1..Len(q) : q[i] # "codec") => \A i \in 1..Len(p) : p[i] # "codec"
  BY <1>1, <1>2, Left
<1>4. up'[x].at = "ended" /\ up'[x].out = <<>>
  BY <1>1 DEF NoUp
<1>5. Running(x)' /\ (Clean(x)' => Clean(x))
  BY <1>3 DEF Running, Lasting, Clean
<1>6. PumpsAt(x)'
  <2>1. /\ lease'[x] = lease[x] /\ run'[x] = run[x] /\ first'[x] = first[x] /\ enc'[x] = enc[x]
        /\ local'[x] = local[x] /\ sent'[x] = sent[x] /\ eof'[x] = eof[x]
    BY DEF Lasting
  <2>2. /\ Count(up[x].at = "ended") = 0 /\ Count(up'[x].at = "ended") = 1
        /\ Count(down[x] = "ended") \in Nat /\ Count(run[x] = "second") \in Nat
    BY <1>4 DEF Count
  <2>3. Len(q) + Count(run[x] = "second") = Count(up[x].at = "ended") + Count(down[x] = "ended")
    BY DEF AtEnd, PumpsAt
  <2>4. Len(p) + Count(run'[x] = "second") = Count(up'[x].at = "ended") + Count(down'[x] = "ended")
    BY <1>3, <2>1, <2>2, <2>3
  <2>5. run[x] # "second" => first[x] = "ok"
    BY DEF AtEnd, PumpsAt
  <2> QED
    BY <1>4, <1>5, <2>1, <2>4, <2>5 DEF AtEnd, PumpsAt
<1>7. NoCodecAt(x)'
  BY <1>3 DEF AtEnd, NoCodecAt, Lasting
<1>8. LeaseAt(x)'
  BY DEF AtEnd, LeaseAt, Lasting
<1> QED
  BY <1>6, <1>7, <1>8 DEF AtEnd

LEMMA DownEnded ==
    ASSUME Typed, NEW x \in End, AtEnd(x), Running(x), down[x] # "ended",
           NEW r \in {"ok", "io"}, DownEnds(x, r), Lasting(x)' = Lasting(x), lease[x] \in Lease,
           up'[x] = up[x], got'[x] = got[x],
           \/ over'[x] = over[x] /\ r # "ok"
           \/ over'[x] = over[x] \cup {lease[x]}
    PROVE  AtEnd(x)'
<1> DEFINE q == results[x]
           p == results'[x]
<1>1. /\ down'[x] = "ended" /\ p = Append(q, r) /\ q \in Seq(Result)
  BY DEF DownEnds, Typed
<1>2. r \in Result /\ r # "codec"
  BY DEF Result
<1>3. /\ Len(p) = Len(q) + 1 /\ Len(q) \in Nat
      /\ (\A i \in 1..Len(p) : p[i] = "ok") => r = "ok" /\ \A i \in 1..Len(q) : q[i] = "ok"
      /\ (\A i \in 1..Len(q) : q[i] # "codec") => \A i \in 1..Len(p) : p[i] # "codec"
  BY <1>1, <1>2, Left
<1>5. Running(x)' /\ (Clean(x)' => lease'[x] \in over'[x])
  BY <1>3 DEF Running, Lasting, Clean
<1>6. PumpsAt(x)'
  <2>1. /\ lease'[x] = lease[x] /\ run'[x] = run[x] /\ first'[x] = first[x] /\ enc'[x] = enc[x]
        /\ local'[x] = local[x] /\ sent'[x] = sent[x] /\ eof'[x] = eof[x]
    BY DEF Lasting
  <2>2. /\ Count(down[x] = "ended") = 0 /\ Count(down'[x] = "ended") = 1
        /\ Count(up[x].at = "ended") \in Nat /\ Count(run[x] = "second") \in Nat
    BY <1>1 DEF Count
  <2>3. Len(q) + Count(run[x] = "second") = Count(up[x].at = "ended") + Count(down[x] = "ended")
    BY DEF AtEnd, PumpsAt
  <2>4. Len(p) + Count(run'[x] = "second") = Count(up'[x].at = "ended") + Count(down'[x] = "ended")
    BY <1>3, <2>1, <2>2, <2>3
  <2>5. run[x] # "second" => first[x] = "ok"
    BY DEF AtEnd, PumpsAt
  <2> QED
    BY <1>1, <1>5, <2>1, <2>4, <2>5 DEF AtEnd, PumpsAt
<1>7. NoCodecAt(x)'
  BY <1>3 DEF AtEnd, NoCodecAt, Lasting
<1>8. LeaseAt(x)'
  <2>1. lease[x] \in Nat
    BY RelayAssumption DEF Lease
  <2>2. \A k \in Lease : (k \in over[x] => k \in over'[x]) /\ (k > lease[x] /\ k \in over'[x] => k \in over[x])
    BY <2>1
  <2>3. run[x] # Idle
    BY DEF Running, Idle
  <2> QED
    BY <2>2, <2>3 DEF AtEnd, LeaseAt, Lasting
<1> QED
  BY <1>6, <1>7, <1>8 DEF AtEnd

\* The pumps go on: what they own besides their results and their end is free.
LEMMA Goes ==
    ASSUME NEW x \in End, AtEnd(x), Running(x), lease[x] \in Lease,
           results'[x] = results[x], over'[x] = over[x],
           <<lease[x], run[x], first[x]>>' = <<lease[x], run[x], first[x]>>,
           down[x] = "ended" <=> down'[x] = "ended",
           up[x].at = "ended" <=> up'[x].at = "ended", up'[x].at = "ended" => up'[x].out = <<>>,
           enc'[x] = sent'[x][lease[x]],
           local'[x] = "open" => lease[x] \notin eof'[x],
           local'[x] = "eof" => lease[x] \in eof'[x],
           \A k \in Lease : k > lease[x] => /\ sent'[x][k] = sent[x][k] /\ got'[x][k] = got[x][k]
                                            /\ k \in eof'[x] => k \in eof[x]
    PROVE  AtEnd(x)'
<1>1. Running(x)' /\ (Clean(x)' <=> Clean(x))
  BY DEF Running, Clean
<1>2. PumpsAt(x)'
  BY <1>1 DEF AtEnd, PumpsAt, Running, Count
<1>3. NoCodecAt(x)'
  BY DEF AtEnd, NoCodecAt
<1>4. LeaseAt(x)'
  BY DEF AtEnd, LeaseAt
<1> QED
  BY <1>2, <1>3, <1>4 DEF AtEnd

LEMMA AtEndUp ==
    ASSUME IInv, NEW x \in End, UpStep(x)
    PROVE  AtEnd(x)'
<1> USE DEF still, runVars, codecVars, sockVars, dataVars
<1>0. Typed /\ AtEnd(x) /\ Peer(x) # x /\ Peer(x) \in End
  BY PeerFacts DEF IInv, Ends, Leases, AtEnd
<1>1. CASE ReadEnd(x)
  <2>1. up[x].at = "read"
    BY <1>1 DEF ReadEnd
  <2>2. Running(x) /\ lease[x] \in Lease
    BY <2>1, RunningFacts
  <2>3. up'[x] = [at |-> "close", out |-> <<LastUnit(x)>>]
    BY <1>0, <1>1 DEF ReadEnd, Typed
  <2>4. up'[x].at = "close"
    BY <2>3
  <2>5. /\ enc[x] = sent[x][lease[x]] /\ (local[x] = "open" => lease[x] \notin eof[x])
        /\ local[x] = "eof" => lease[x] \in eof[x]
    BY <1>0, <2>2 DEF AtEnd, PumpsAt
  <2>6. UNCHANGED <<lease, run, first, results, down, enc, local, sent, got, eof, over>>
    BY <1>1 DEF ReadEnd
  <2> QED
    BY <1>0, <2>1, <2>2, <2>4, <2>5, <2>6, Goes
<1>2. CASE WriteFrame(x)
  <2>1. up[x].out # <<>>
    BY <1>2 DEF WriteFrame
  <2>2. up[x].at # "ended"
    BY <1>0, <2>1 DEF AtEnd, PumpsAt
  <2>3. Running(x) /\ lease[x] \in Lease
    BY <2>2, RunningFacts
  <2>4. up'[x].at # "ended"
    BY <1>0, <1>2, <2>2 DEF WriteFrame, Typed
  <2>5. /\ enc[x] = sent[x][lease[x]] /\ (local[x] = "open" => lease[x] \notin eof[x])
        /\ local[x] = "eof" => lease[x] \in eof[x]
    BY <1>0, <2>3 DEF AtEnd, PumpsAt
  <2>6. UNCHANGED <<lease, run, first, results, down, enc, local, sent, got, eof, over>>
    BY <1>2 DEF WriteFrame
  <2> QED
    BY <1>0, <2>2, <2>3, <2>4, <2>5, <2>6, Goes
<1>3. CASE WriteFin(x)
  <2>1. up[x].at # "ended" /\ UpEnds(x, "ok") /\ down'[x] = down[x] /\ got'[x] = got[x] /\ over'[x] = over[x]
    BY <1>3 DEF WriteFin
  <2>2. Running(x)
    BY <2>1, RunningFacts
  <2>3. Lasting(x)' = Lasting(x)
    BY <1>3 DEF WriteFin, Lasting
  <2> QED
    BY <1>0, <2>1, <2>2, <2>3, UpEnded
<1>4. CASE UpFails(x)
  <2>1. up[x].at # "ended" /\ UpEnds(x, "io") /\ down'[x] = down[x] /\ got'[x] = got[x] /\ over'[x] = over[x]
    BY <1>4 DEF UpFails
  <2>2. Running(x)
    BY <2>1, RunningFacts
  <2>3. Lasting(x)' = Lasting(x)
    BY <1>4 DEF UpFails, Lasting
  <2> QED
    BY <1>0, <2>1, <2>2, <2>3, UpEnded
<1> QED
  BY <1>1, <1>2, <1>3, <1>4 DEF UpStep

LEMMA AtEndGoes ==
    ASSUME IInv, NEW x \in End, down[x] # "ended", NEW p, p # "ended", DownGoes(x, p),
           UNCHANGED <<lease, run, first, up, enc, local, sent, eof, over>>,
           \A k \in Lease : k > lease[x] => got'[x][k] = got[x][k]
    PROVE  AtEnd(x)'
<1>1. Typed /\ AtEnd(x)
  BY DEF IInv, Ends, Leases, AtEnd
<1>2. Running(x) /\ lease[x] \in Lease
  BY RunningFacts
<1>3. down'[x] # "ended" /\ results' = results
  BY <1>1 DEF DownGoes, Typed
<1>4. /\ enc[x] = sent[x][lease[x]] /\ (local[x] = "open" => lease[x] \notin eof[x])
      /\ local[x] = "eof" => lease[x] \in eof[x]
      /\ up[x].at = "ended" => up[x].out = <<>>
  BY <1>1, <1>2 DEF AtEnd, PumpsAt
<1> QED
  BY <1>1, <1>2, <1>3, <1>4, Goes

LEMMA AtEndDown ==
    ASSUME IInv, NEW x \in End, DownStep(x)
    PROVE  AtEnd(x)'
<1> USE DEF still, runVars, codecVars, sockVars, dataVars
<1>0. Typed /\ AtEnd(x) /\ Peer(x) # x /\ Peer(x) \in End
  BY PeerFacts DEF IInv, Ends, Leases, AtEnd
<1>1. CASE Receives(x)
  <2>1. DownGoes(x, "copy") /\ down[x] # "ended"
    BY <1>1, ReceivesGood DEF Receives
  <2>2. UNCHANGED <<lease, run, first, up, enc, local, sent, got, eof, over>>
    BY <1>1 DEF Receives
  <2> QED
    BY <2>1, <2>2, AtEndGoes
<1>2. CASE Decode(x)
  <2>1. down[x] # "ended" /\ (DownGoes(x, "write") \/ DownGoes(x, "copy"))
    BY <1>2, DecodeGood DEF Decode
  <2>2. UNCHANGED <<lease, run, first, up, enc, local, sent, got, eof, over>>
    BY <1>2 DEF Decode
  <2> QED
    BY <2>1, <2>2, AtEndGoes
<1>3. CASE WriteLocal(x)
  <2>1. DownGoes(x, "copy") /\ down[x] # "ended"
    BY <1>3 DEF WriteLocal
  <2>2. UNCHANGED <<lease, run, first, up, enc, local, sent, eof, over>>
    BY <1>3 DEF WriteLocal
  <2>3. lease[x] \in Lease
    BY <2>1, RunningFacts
  <2>4. \A k \in Lease : k > lease[x] => got'[x][k] = got[x][k]
    <3>1. \A k \in Lease : k # lease[x] => got'[x][k] = got[x][k]
      BY <1>0, <1>3, <2>3 DEF WriteLocal, Typed
    <3>2. lease[x] \in Nat
      BY <2>3 DEF Lease
    <3> QED
      BY <3>1, <3>2
  <2> QED
    BY <2>1, <2>2, <2>4, AtEndGoes
<1>4. CASE CopyEnds(x)
  <2>1. down[x] # "ended" /\ (DownGoes(x, "halfclose") \/ DownGoes(x, "finish"))
    BY <1>4, CopyEndsGood DEF CopyEnds
  <2>2. UNCHANGED <<lease, run, first, up, enc, local, sent, got, eof, over>>
    BY <1>4 DEF CopyEnds
  <2> QED
    BY <2>1, <2>2, AtEndGoes
<1>5. CASE Finish(x)
  <2>1. DownGoes(x, "halfclose") /\ down[x] # "ended"
    BY <1>5, FinishGood DEF Finish
  <2>2. UNCHANGED <<lease, run, first, up, enc, local, sent, got, eof, over>>
    BY <1>5 DEF Finish
  <2> QED
    BY <2>1, <2>2, AtEndGoes
<1>6. CASE HalfClose(x)
  <2>1. down[x] # "ended" /\ DownEnds(x, "ok") /\ up'[x] = up[x] /\ got'[x] = got[x]
    BY <1>6 DEF HalfClose
  <2>2. Running(x) /\ lease[x] \in Lease
    BY <2>1, RunningFacts
  <2>3. Lasting(x)' = Lasting(x)
    BY <1>6 DEF HalfClose, Lasting
  <2>4. over'[x] = over[x] \cup {lease[x]}
    BY <1>0, <1>6 DEF HalfClose, Typed
  <2> QED
    BY <1>0, <2>1, <2>2, <2>3, <2>4, DownEnded
<1>7. CASE DownFails(x)
  <2>1. /\ down[x] # "ended" /\ DownEnds(x, "io") /\ up'[x] = up[x] /\ got'[x] = got[x]
        /\ over'[x] = over[x]
    BY <1>7 DEF DownFails
  <2>2. Running(x) /\ lease[x] \in Lease
    BY <2>1, RunningFacts
  <2>3. Lasting(x)' = Lasting(x)
    BY <1>7 DEF DownFails, Lasting
  <2> QED
    BY <1>0, <2>1, <2>2, <2>3, DownEnded
<1> QED
  BY <1>1, <1>2, <1>3, <1>4, <1>5, <1>6, <1>7 DEF DownStep

LEMMA AtEndWrong ==
    ASSUME IInv, NEW x \in End, GoesWrong(x)
    PROVE  AtEnd(x)'
<1> USE DEF still, runVars, codecVars, sockVars, dataVars
<1>0. Typed /\ AtEnd(x)
  BY DEF IInv, Ends, Leases, AtEnd
<1>1. CASE LocalResets(x)
  <2>1. Running(x) /\ local'[x] = "reset"
    BY <1>0, <1>1 DEF LocalResets, Typed
  <2>2. UNCHANGED <<lease, run, first, results, up, down, enc, sent, got, eof, over>>
    BY <1>1 DEF LocalResets
  <2>3. lease[x] \in Lease
    BY <2>1, RunningFacts
  <2>4. enc[x] = sent[x][lease[x]] /\ (up[x].at = "ended" => up[x].out = <<>>)
    BY <1>0, <2>1 DEF AtEnd, PumpsAt
  <2> QED
    BY <1>0, <2>1, <2>2, <2>3, <2>4, Goes
<1>2. CASE Forced(x) \/ Cancelled(x)
  <2>1. Own(x)' = Own(x)
    BY <1>2 DEF Forced, Cancelled, Own
  <2> QED
    BY <1>0, <2>1, OwnKept DEF AtEnd
<1>3. CASE WriteTimesOut(x)
  <2>1. Lasting(x)' = Lasting(x) /\ got'[x] = got[x] /\ over'[x] = over[x]
    BY <1>3 DEF WriteTimesOut, Lasting
  <2>2. CASE up[x].at \in {"flush", "close", "fin"} /\ UpEnds(x, "io") /\ UNCHANGED down
    <3>1. Running(x) /\ up[x].at # "ended"
      BY <2>2, RunningFacts
    <3> QED
      BY <1>0, <2>1, <2>2, <3>1, UpEnded
  <2>3. CASE down[x] = "write" /\ DownEnds(x, "io") /\ UNCHANGED up
    <3>1. Running(x) /\ lease[x] \in Lease
      BY <2>3, RunningFacts
    <3> QED
      BY <1>0, <2>1, <2>3, <3>1, DownEnded
  <2> QED
    BY <1>3, <2>2, <2>3 DEF WriteTimesOut
<1> QED
  BY <1>1, <1>2, <1>3 DEF GoesWrong

LEMMA AtEndLocal ==
    ASSUME IInv, NEW x \in End, LocalStep(x)
    PROVE  AtEnd(x)'
<1> USE DEF still, runVars, codecVars, sockVars, dataVars
<1>0. Typed /\ AtEnd(x)
  BY DEF IInv, Ends, Leases, AtEnd
<1>1. CASE ReadLocal(x)
  <2> DEFINE l == lease[x]
             c == (l - 1) * MaxChunks + Len(sent[x][l]) + 1
  <2>1. up[x].at = "read" /\ local[x] = "open"
    BY <1>1 DEF ReadLocal
  <2>2. Running(x) /\ l \in Lease
    BY <2>1, RunningFacts
  <2>3. /\ sent'[x] = [sent[x] EXCEPT ![l] = Append(sent[x][l], c)]
        /\ enc'[x] = Append(enc[x], c) /\ up'[x] = [at |-> "flush", out |-> Block(c)]
    BY <1>0, <1>1 DEF ReadLocal, Typed
  <2>4. UNCHANGED <<lease, run, first, results, down, local, got, eof, over>>
    BY <1>1 DEF ReadLocal
  <2>5. enc[x] = sent[x][l] /\ l \notin eof[x]
    BY <1>0, <2>1, <2>2 DEF AtEnd, PumpsAt
  <2> HIDE DEF c
  <2>6. up'[x].at = "flush"
    BY <2>3
  <2>7. /\ sent'[x][l] = Append(sent[x][l], c)
        /\ \A k \in Lease : k # l => sent'[x][k] = sent[x][k]
    BY <1>0, <2>2, <2>3 DEF Typed
  <2>8. \A k \in Lease : k > l => sent'[x][k] = sent[x][k]
    BY <2>2, <2>7 DEF Lease
  <2>9. enc'[x] = sent'[x][l]
    BY <2>3, <2>5, <2>7
  <2> QED
    BY <1>0, <2>1, <2>2, <2>4, <2>5, <2>6, <2>8, <2>9, Goes
<1>2. CASE LocalEnds(x)
  <2>1. Running(x) /\ local'[x] = "eof" /\ eof'[x] = eof[x] \cup {lease[x]}
    BY <1>0, <1>2 DEF LocalEnds, Typed
  <2>2. UNCHANGED <<lease, run, first, results, up, down, enc, sent, got, over>>
    BY <1>2 DEF LocalEnds
  <2>3. lease[x] \in Lease
    BY <2>1, RunningFacts
  <2>4. enc[x] = sent[x][lease[x]] /\ (up[x].at = "ended" => up[x].out = <<>>)
    BY <1>0, <2>1 DEF AtEnd, PumpsAt
  <2>5. \A k \in Lease : k > lease[x] /\ k \in eof'[x] => k \in eof[x]
    BY <2>1, <2>3 DEF Lease
  <2> QED
    BY <1>0, <2>1, <2>2, <2>3, <2>4, <2>5, Goes
<1> QED
  BY <1>1, <1>2 DEF LocalStep

LEMMA AtEndStart ==
    ASSUME IInv, NEW x \in End, Start(x)
    PROVE  AtEnd(x)'
<1>0. Typed /\ AtEnd(x)
  BY DEF IInv, Ends, Leases, AtEnd
<1>1. /\ run[x] = Idle /\ lease[x] \in Nat /\ lease[x] < MaxLease /\ MaxLease \in Nat
  BY <1>0, RelayAssumption DEF Start, Turn, Typed
<1> DEFINE l == lease[x] + 1
<1>2. l \in Lease /\ l > lease[x] /\ l \in Nat
  BY <1>1 DEF Lease
<1>3. /\ lease'[x] = l /\ run'[x] = "first" /\ results'[x] = <<>> /\ up'[x] = NewUp
      /\ down'[x] = "copy" /\ local'[x] = "open" /\ enc'[x] = <<>>
  BY <1>0 DEF Start, Reset, Typed
<1>4. /\ first' = first /\ sent' = sent /\ got' = got /\ eof' = eof /\ over' = over
  BY DEF Start, dataVars
<1>5. ~Running(x) /\ Running(x)'
  BY <1>1, <1>3 DEF Running, Idle
<1>6. /\ sent[x][l] = <<>> /\ l \notin eof[x]
  BY <1>0, <1>2 DEF AtEnd, LeaseAt
<1>7. first[x] = "ok"
  BY <1>0, <1>1 DEF AtEnd, PumpsAt, Idle
<1>8. Len(results'[x]) = 0 /\ up'[x].at = "read" /\ up'[x].out = <<>>
  BY <1>3, EmptySeq DEF NewUp
<1> HIDE DEF l
<1>9. PumpsAt(x)'
  BY <1>3, <1>4, <1>5, <1>6, <1>7, <1>8 DEF PumpsAt, Count
<1>10. NoCodecAt(x)'
  BY <1>4, <1>7, <1>8 DEF NoCodecAt
<1>11. LeaseAt(x)'
  <2>1. ASSUME NEW k \in Lease, k < l PROVE k \in over[x]
    <3>1. k = lease[x] \/ k < lease[x]
      BY <1>1, <2>1 DEF l, Lease
    <3>2. k > 0
      BY DEF Lease
    <3> QED
      BY <1>0, <1>1, <3>1, <3>2 DEF AtEnd, LeaseAt
  <2>2. ASSUME NEW k \in Lease, k > l PROVE k > lease[x]
    BY <1>1, <2>2 DEF l, Lease
  <2>3. run'[x] # Idle
    BY <1>3 DEF Idle
  <2>4. \A k \in Lease : k > lease[x] => /\ sent[x][k] = <<>> /\ got[x][k] = <<>>
                                         /\ k \notin eof[x] /\ k \notin over[x]
    BY <1>0 DEF AtEnd, LeaseAt
  <2>5. l # 0
    BY <1>1 DEF l
  <2> QED
    BY <1>3, <1>4, <2>1, <2>2, <2>3, <2>4, <2>5 DEF LeaseAt
<1> QED
  BY <1>9, <1>10, <1>11 DEF AtEnd

LEMMA Taken ==
    ASSUME NEW q \in Seq(Result), NEW v, NEW p, Pops(q, v, p)
    PROVE  /\ Len(q) = Len(p) + 1 /\ Len(p) \in Nat
           /\ v = "ok" /\ (\A i \in 1..Len(p) : p[i] = "ok") => \A i \in 1..Len(q) : q[i] = "ok"
           /\ (\A i \in 1..Len(q) : q[i] # "codec") => v # "codec" /\ \A i \in 1..Len(p) : p[i] # "codec"
<1>0. q # <<>> /\ v = Head(q) /\ p = Tail(q)
  BY DEF Pops
<1>1. /\ Len(q) \in Nat /\ Len(q) >= 1 /\ Len(p) = Len(q) - 1 /\ v = q[1]
      /\ \A j \in 1..Len(q) - 1 : p[j] = q[j + 1]
  BY <1>0, TailFacts, SeqFacts
<1>2. ASSUME NEW i \in 1..Len(p) PROVE i + 1 \in 1..Len(q) /\ p[i] = q[i + 1]
  BY <1>1
<1>3. ASSUME NEW i \in 1..Len(q), i # 1 PROVE i - 1 \in 1..Len(p) /\ p[i - 1] = q[i]
  <2>1. i - 1 \in 1..Len(q) - 1 /\ i - 1 + 1 = i
    BY <1>1, <1>3
  <2> QED
    BY <1>1, <2>1
<1>4. 1 \in 1..Len(q) /\ Len(q) = Len(p) + 1 /\ Len(p) \in Nat
  BY <1>1
<1>5. ASSUME v = "ok", \A i \in 1..Len(p) : p[i] = "ok", NEW i \in 1..Len(q)
      PROVE  q[i] = "ok"
  BY <1>1, <1>3, <1>5
<1>6. ASSUME \A i \in 1..Len(q) : q[i] # "codec"
      PROVE  v # "codec" /\ \A i \in 1..Len(p) : p[i] # "codec"
  BY <1>1, <1>2, <1>4, <1>6
<1> QED
  BY <1>1, <1>4, <1>5, <1>6

LEMMA AtEndTakeFirst ==
    ASSUME IInv, NEW x \in End, TakeFirst(x)
    PROVE  AtEnd(x)'
<1> DEFINE q == results[x]
           p == results'[x]
<1>0. Typed /\ AtEnd(x)
  BY DEF IInv, Ends, Leases, AtEnd
<1>1. /\ run[x] = "first" /\ q \in Seq(Result) /\ q # <<>> /\ p = Tail(q)
      /\ first'[x] = Head(q) /\ run'[x] = "second"
  BY <1>0 DEF TakeFirst, Typed
<1>2. UNCHANGED <<lease, up, down, enc, local, sent, got, eof, over>>
  BY DEF TakeFirst, codecVars, dataVars
<1> DEFINE v == Head(q)
<1>v. Pops(q, v, p) /\ q \in Seq(Result)
  BY <1>1 DEF Pops
<1> HIDE DEF v
<1>3. /\ Len(q) = Len(p) + 1 /\ Len(p) \in Nat
      /\ v = "ok" /\ (\A i \in 1..Len(p) : p[i] = "ok") => \A i \in 1..Len(q) : q[i] = "ok"
      /\ (\A i \in 1..Len(q) : q[i] # "codec") => v # "codec" /\ \A i \in 1..Len(p) : p[i] # "codec"
  BY <1>v, Taken
<1>4. Running(x) /\ Running(x)' /\ first[x] = "ok"
  BY <1>0, <1>1 DEF Running, AtEnd, PumpsAt
<1>5. Clean(x)' => Clean(x)
  BY <1>1, <1>3, <1>4 DEF Clean, v
<1>6. PumpsAt(x)'
  <2>1. /\ Count(run[x] = "second") = 0 /\ Count(run'[x] = "second") = 1
    BY <1>1 DEF Count
  <2>2. Len(q) + Count(run[x] = "second") = Count(up[x].at = "ended") + Count(down[x] = "ended")
    BY <1>0, <1>4 DEF AtEnd, PumpsAt
  <2>3. Len(p) + Count(run'[x] = "second") = Count(up'[x].at = "ended") + Count(down'[x] = "ended")
    BY <1>2, <1>3, <2>1, <2>2
  <2> QED
    BY <1>0, <1>1, <1>2, <1>4, <1>5, <2>3 DEF AtEnd, PumpsAt
<1>7. NoCodecAt(x)'
  BY <1>0, <1>1, <1>3 DEF AtEnd, NoCodecAt, v
<1>8. LeaseAt(x)'
  BY <1>0, <1>1, <1>2 DEF AtEnd, LeaseAt, Idle
<1> QED
  BY <1>6, <1>7, <1>8 DEF AtEnd

\* When Run takes its second result both pumps have ended.
LEMMA BothEnded ==
    ASSUME IInv, NEW x \in End, TakeSecond(x)
    PROVE  /\ up[x].at = "ended" /\ down[x] = "ended" /\ Len(results[x]) = 1
           /\ run'[x] = Idle => lease[x] \in over[x]
<1> DEFINE q == results[x]
<1>0. Typed /\ PumpsAt(x)
  BY DEF IInv, Ends
<1>1. /\ run[x] = "second" /\ q \in Seq(Result) /\ q # <<>>
      /\ run'[x] = IF first[x] = "ok" /\ Head(q) = "ok" THEN Idle ELSE "failed"
  BY <1>0 DEF TakeSecond, Typed
<1>2. Len(q) \in Nat /\ Len(q) >= 1 /\ Head(q) = q[1]
  BY <1>1, TailFacts, SeqFacts
<1>3. Running(x) /\ Count(run[x] = "second") = 1
  BY <1>1 DEF Running, Count
<1>4. Len(q) + Count(run[x] = "second") = Count(up[x].at = "ended") + Count(down[x] = "ended")
  BY <1>0, <1>3 DEF PumpsAt
<1>5. up[x].at = "ended" /\ down[x] = "ended" /\ Len(q) = 1
  <2> DEFINE a == Count(up[x].at = "ended")
             b == Count(down[x] = "ended")
  <2>1. a \in 0..1 /\ b \in 0..1 /\ (a = 1 => up[x].at = "ended") /\ (b = 1 => down[x] = "ended")
    BY DEF Count
  <2>2. Len(q) + 1 = a + b
    BY <1>3, <1>4
  <2>3. Len(q) \in Nat /\ Len(q) >= 1
    BY <1>2
  <2> HIDE DEF a, b, q
  <2>4. a = 1 /\ b = 1 /\ Len(q) = 1
    <3>1. ASSUME NEW i \in 0..1, NEW k \in 0..1, NEW n \in Nat, n >= 1, n + 1 = i + k
          PROVE  i = 1 /\ k = 1 /\ n = 1
      BY <3>1
    <3>2. a \in 0..1 /\ b \in 0..1
      BY <2>1
    <3> QED
      BY <2>2, <2>3, <3>1, <3>2
  <2> QED
    BY <2>1, <2>4
<1>6. ASSUME run'[x] = Idle PROVE Clean(x)
  BY <1>1, <1>2, <1>5, <1>6 DEF Clean, Idle
<1> QED
  BY <1>0, <1>3, <1>5, <1>6 DEF PumpsAt

LEMMA AtEndTakeSecond ==
    ASSUME IInv, NEW x \in End, TakeSecond(x)
    PROVE  AtEnd(x)'
<1> DEFINE q == results[x]
           p == results'[x]
<1>0. Typed /\ AtEnd(x)
  BY DEF IInv, Ends, Leases, AtEnd
<1>1. /\ q \in Seq(Result) /\ q # <<>> /\ p = Tail(q) /\ run'[x] \in {Idle, "failed"}
      /\ first'[x] = "ok" /\ run[x] = "second"
  BY <1>0 DEF TakeSecond, Typed
<1>2. UNCHANGED <<lease, up, down, sent, got, eof, over>>
  BY DEF TakeSecond, dataVars
<1>3. up[x].at = "ended" /\ down[x] = "ended" /\ Len(q) = 1 /\ (run'[x] = Idle => lease[x] \in over[x])
  BY BothEnded
<1>4. Len(p) = 0
  BY <1>1, <1>3, TailFacts
<1>5. ~Running(x)'
  BY <1>1 DEF Running, Idle
<1>6. PumpsAt(x)'
  BY <1>0, <1>1, <1>2, <1>3, <1>4, <1>5 DEF AtEnd, PumpsAt, Idle
<1>7. NoCodecAt(x)'
  BY <1>1, <1>4 DEF NoCodecAt
<1>8. LeaseAt(x)'
  BY <1>0, <1>1, <1>2, <1>3 DEF AtEnd, LeaseAt, Idle
<1> QED
  BY <1>6, <1>7, <1>8 DEF AtEnd

LEMMA AtEndStep ==
    ASSUME IInv, NEW x \in End, Step(x), NEW y \in End
    PROVE  AtEnd(y)'
<1>1. CASE y = x
  <2>1. AtEnd(x)'
    BY AtEndUp, AtEndDown, AtEndLocal, AtEndWrong, AtEndStart, AtEndTakeFirst, AtEndTakeSecond
    DEF Step, RunStep
  <2> QED
    BY <1>1, <2>1
<1>2. CASE y # x
  <2>1. Own(y)' = Own(y)
    BY <1>2, OtherEnd DEF IInv
  <2> QED
    BY <2>1, OwnKept DEF IInv, Ends, Leases, AtEnd
<1> QED
  BY <1>1, <1>2

-----------------------------------------------------------------------------
(* The frames under way, and the leases.                                    *)

\* What a step does to the frames on their way to an end.
Carried(q, p) ==
    \/ p = q
    \/ \E v : Pops(q, v, p)
    \/ Len(q) < WireMax /\ \E f \in Frames : Len(f.units) <= FrameMax /\ p = Append(q, f)

LEMMA FitsCarried ==
    ASSUME NEW q \in Seq(Frames), NEW p, Carried(q, p), Fits(q)
    PROVE  Fits(p)
<1>0. WireMax \in Nat /\ Len(q) \in Nat
  BY RelayAssumption, SeqFacts
<1>1. CASE p = q
  BY <1>1
<1>2. ASSUME NEW v, Pops(q, v, p) PROVE Fits(p)
  <2>1. q # <<>> /\ p = Tail(q)
    BY <1>2 DEF Pops
  <2>2. Len(p) = Len(q) - 1 /\ \A j \in 1..Len(q) - 1 : p[j] = q[j + 1]
    BY <2>1, TailFacts
  <2>3. ASSUME NEW j \in 1..Len(p) PROVE j + 1 \in 1..Len(q) /\ p[j] = q[j + 1]
    BY <1>0, <2>2
  <2> QED
    BY <1>0, <2>2, <2>3 DEF Fits
<1>3. ASSUME NEW f \in Frames, Len(q) < WireMax, Len(f.units) <= FrameMax, p = Append(q, f)
      PROVE  Fits(p)
  <2>1. Len(p) = Len(q) + 1 /\ p[Len(q) + 1] = f /\ \A j \in 1..Len(q) : p[j] = q[j]
    BY <1>3, AppendFacts
  <2>2. ASSUME NEW j \in 1..Len(p) PROVE Len(p[j].units) <= FrameMax
    <3>1. CASE j = Len(q) + 1
      BY <1>3, <2>1, <3>1
    <3>2. CASE j \in 1..Len(q)
      BY <2>1, <3>2 DEF Fits
    <3> QED
      BY <1>0, <2>1, <3>1, <3>2
  <2> QED
    BY <1>0, <1>3, <2>1, <2>2 DEF Fits
<1> QED
  BY <1>1, <1>2, <1>3 DEF Carried

LEMMA WireStep ==
    ASSUME IInv, NEW x \in End, Step(x), NEW y \in End
    PROVE  /\ Carried(wire[y], wire'[y])
           /\ wire'[y] # wire[y] => (y = x /\ down[x] # "ended") \/ (y = Peer(x) /\ up[x].at # "ended")
<1> USE DEF still, runVars, codecVars, sockVars, dataVars
<1>0. Typed /\ PumpsAt(x) /\ Peer(x) \in End /\ Peer(x) # x
  BY PeerFacts DEF IInv, Ends
<1>1. CASE wire' = wire
  BY <1>1 DEF Carried
<1>2. CASE WriteFrame(x)
  <2>1. up[x].out # <<>> /\ up[x].out \in Seq(AUnit)
    BY <1>0, <1>2 DEF WriteFrame, Typed, Sender
  <2>2. up[x].at # "ended"
    BY <1>0, <2>1 DEF PumpsAt
  <2>3. lease[x] \in Lease
    BY <2>2, RunningFacts
  <2> DEFINE q == up[x].out
             n == IF Len(q) < FrameMax THEN Len(q) ELSE FrameMax
             f == Frame("DATA", lease[x], SubSeq(q, 1, n))
  <2>4. /\ Len(wire[Peer(x)]) < WireMax
        /\ wire' = [wire EXCEPT ![Peer(x)] = Append(wire[Peer(x)], f)]
    BY <1>2 DEF WriteFrame, Sends
  <2>5. n \in 0..Len(q) /\ n <= FrameMax /\ n \in Nat
    BY <2>1, SeqFacts, RelayAssumption
  <2>6. SubSeq(q, 1, n) \in Seq(AUnit) /\ Len(SubSeq(q, 1, n)) = n
    <3>1. \A i \in 1..n : q[i] \in AUnit
      BY <2>1, <2>5, SeqFacts
    <3>2. SubSeq(q, 1, n) \in Seq(AUnit) /\ Len(SubSeq(q, 1, n)) = (IF 1 <= n THEN n - 1 + 1 ELSE 0)
      BY <2>5, <3>1, SubSeqProperties
    <3> HIDE DEF n
    <3> QED
      BY <2>5, <3>2
  <2>7. f \in Frames /\ Len(f.units) <= FrameMax
    BY <2>3, <2>5, <2>6 DEF Frame, Frames, AUnit
  <2> HIDE DEF f, n
  <2>8. wire'[Peer(x)] = Append(wire[Peer(x)], f) /\ wire'[x] = wire[x]
    BY <1>0, <2>4 DEF Typed
  <2>9. y = x \/ y = Peer(x)
    BY PeerFacts
  <2> QED
    BY <2>2, <2>4, <2>7, <2>8, <2>9 DEF Carried
<1>3. CASE WriteFin(x)
  <2>1. up[x].at # "ended"
    BY <1>3 DEF WriteFin
  <2>2. lease[x] \in Lease
    BY <2>1, RunningFacts
  <2> DEFINE f == Frame("FIN", lease[x], <<>>)
  <2>3. /\ Len(wire[Peer(x)]) < WireMax
        /\ wire' = [wire EXCEPT ![Peer(x)] = Append(wire[Peer(x)], f)]
    BY <1>3 DEF WriteFin, Sends
  <2>4. f \in Frames /\ Len(f.units) <= FrameMax
    BY <2>2, EmptySeq, RelayAssumption DEF Frame, Frames, AUnit
  <2> HIDE DEF f
  <2>5. wire'[Peer(x)] = Append(wire[Peer(x)], f) /\ wire'[x] = wire[x]
    BY <1>0, <2>3 DEF Typed
  <2>6. y = x \/ y = Peer(x)
    BY PeerFacts
  <2> QED
    BY <2>1, <2>3, <2>4, <2>5, <2>6 DEF Carried
<1>4. CASE Receives(x) \/ Finish(x)
  <2>1. down[x] # "ended" /\ wire[x] # <<>> /\ wire' = [wire EXCEPT ![x] = Tail(wire[x])]
    BY <1>4 DEF Receives, Finish
  <2>2. wire'[x] = Tail(wire[x]) /\ wire'[Peer(x)] = wire[Peer(x)]
    BY <1>0, <2>1 DEF Typed
  <2>3. Pops(wire[x], Head(wire[x]), wire'[x])
    BY <2>1, <2>2 DEF Pops
  <2>4. y = x \/ y = Peer(x)
    BY PeerFacts
  <2> QED
    BY <2>1, <2>2, <2>3, <2>4 DEF Carried
<1>5. UpStep(x) => wire' = wire \/ WriteFrame(x) \/ WriteFin(x)
  BY DEF UpStep, ReadEnd, UpFails
<1>6. DownStep(x) => wire' = wire \/ Receives(x) \/ Finish(x)
  BY DEF DownStep, Decode, WriteLocal, CopyEnds, HalfClose, DownFails
<1>7. RunStep(x) \/ LocalStep(x) \/ GoesWrong(x) => wire' = wire
  BY DEF RunStep, Start, TakeFirst, TakeSecond, LocalStep, ReadLocal, LocalEnds,
         GoesWrong, LocalResets, Forced, Cancelled, WriteTimesOut
<1> QED
  BY <1>1, <1>2, <1>3, <1>4, <1>5, <1>6, <1>7 DEF Step

\* Steps other than a Start.
Moves(x) == UpStep(x) \/ DownStep(x) \/ TakeFirst(x) \/ TakeSecond(x) \/ LocalStep(x) \/ GoesWrong(x)

LEMMA MovesFacts ==
    ASSUME IInv, NEW x \in End, Moves(x)
    PROVE  /\ Step(x) /\ lease' = lease
           /\ ~Running(x) => run' = run
           /\ up[x].at = "ended" => up'[x].at = "ended"
           /\ down[x] = "ended" => down'[x] = "ended"
           /\ HalfClose(x) \/ over' = over
<1> USE DEF still, runVars, codecVars, sockVars, dataVars
<1>0. Typed /\ PumpsAt(x)
  BY DEF IInv, Ends
<1>1. Step(x)
  BY DEF Moves, Step, RunStep
<1>2. CASE UpStep(x)
  <2>1. lease' = lease /\ run' = run /\ over' = over /\ down' = down
    BY <1>2 DEF UpStep, ReadEnd, WriteFrame, WriteFin, UpFails
  <2>2. up[x].at = "ended" => up'[x].at = "ended"
    <3>1. ReadEnd(x) \/ WriteFrame(x) => up[x].at # "ended"
      BY <1>0 DEF ReadEnd, WriteFrame, PumpsAt
    <3>2. WriteFin(x) \/ UpFails(x) => up'[x] = NoUp
      BY <1>0 DEF WriteFin, UpFails, UpEnds, Typed
    <3> QED
      BY <1>2, <3>1, <3>2 DEF UpStep, NoUp
  <2> QED
    BY <1>1, <2>1, <2>2
<1>3. CASE DownStep(x)
  <2>1. lease' = lease /\ run' = run /\ up' = up /\ (HalfClose(x) \/ over' = over)
    BY <1>3 DEF DownStep, Receives, Decode, WriteLocal, CopyEnds, Finish, HalfClose, DownFails
  <2>2. down[x] # "ended"
    BY <1>3 DEF DownStep, Receives, Decode, WriteLocal, CopyEnds, Finish, HalfClose, DownFails
  <2> QED
    BY <1>1, <2>1, <2>2
<1>4. CASE TakeFirst(x) \/ TakeSecond(x)
  <2>1. lease' = lease /\ over' = over /\ up' = up /\ down' = down /\ Running(x)
    BY <1>4 DEF TakeFirst, TakeSecond, Running
  <2> QED
    BY <1>1, <2>1
<1>5. CASE LocalStep(x)
  <2>1. lease' = lease /\ run' = run /\ over' = over /\ down' = down
    BY <1>5 DEF LocalStep, ReadLocal, LocalEnds
  <2>2. up[x].at = "ended" => up' = up
    BY <1>5 DEF LocalStep, ReadLocal, LocalEnds
  <2> QED
    BY <1>1, <2>1, <2>2
<1>6. CASE GoesWrong(x)
  <2>1. lease' = lease /\ run' = run /\ over' = over
    BY <1>6 DEF GoesWrong, LocalResets, Forced, Cancelled, WriteTimesOut
  <2>2. CASE up' = up /\ down' = down
    BY <1>1, <2>1, <2>2
  <2>3. CASE WriteTimesOut(x)
    <3>1. /\ up[x].at = "ended" => up'[x].at = "ended"
          /\ down[x] = "ended" => down'[x] = "ended"
      BY <1>0, <2>3 DEF WriteTimesOut, UpEnds, DownEnds, Typed, NoUp
    <3> QED
      BY <1>1, <2>1, <3>1
  <2> QED
    BY <1>6, <2>2, <2>3 DEF GoesWrong, LocalResets, Forced, Cancelled
<1> QED
  BY <1>2, <1>3, <1>4, <1>5, <1>6 DEF Moves

LEMMA FitStep ==
    ASSUME IInv, NEW x \in End, Step(x)
    PROVE  Fit'
<1>1. ASSUME NEW y \in End PROVE Fits(wire'[y])
  <2>1. wire[y] \in Seq(Frames) /\ Fits(wire[y])
    BY DEF IInv, Typed, Fit
  <2>2. Carried(wire[y], wire'[y])
    BY WireStep
  <2> QED
    BY <2>1, <2>2, FitsCarried
<1> QED
  BY <1>1 DEF Fit, Fits

\* The client's Start begins a lease; the server's follows.
LEMMA StartFacts ==
    ASSUME IInv, NEW x \in End, Start(x)
    PROVE  /\ run[S] = Idle /\ lease[C] \in Nat /\ lease[S] \in Nat /\ lease' \in [End -> 0..MaxLease]
           /\ lease'[S] \in Nat /\ lease'[C] \in Nat
           /\ \/ /\ x = C /\ run[C] = Idle /\ lease[S] = lease[C]
                 /\ lease'[C] = lease[C] + 1 /\ lease'[S] = lease[S] /\ run'[S] = Idle
              \/ /\ x = S /\ lease[C] = lease[S] + 1
                 /\ lease'[C] = lease[C] /\ lease'[S] = lease[C] /\ run'[S] = "first"
           /\ wire' = wire /\ over' = over /\ sent' = sent /\ got' = got /\ eof' = eof
<1>1. Typed /\ Typed'
  BY TypedStep DEF IInv, Step, RunStep
<1>2. S \in End /\ C \in End /\ S # C
  BY DEF End, S, C
<1>3. /\ lease[C] \in Nat /\ lease[S] \in Nat /\ lease' \in [End -> 0..MaxLease]
      /\ lease'[S] \in Nat /\ lease'[C] \in Nat
  BY <1>1, <1>2, RelayAssumption DEF Typed
<1>4. CASE x = C
  BY <1>1, <1>2, <1>3, <1>4 DEF Start, Turn, Typed, dataVars
<1>5. CASE x = S
  BY <1>1, <1>2, <1>3, <1>5 DEF Start, Turn, Typed, dataVars
<1> QED
  BY <1>4, <1>5 DEF End

LEMMA OrderStep ==
    ASSUME IInv, NEW x \in End, Step(x)
    PROVE  Order'
<1>0. Order /\ S \in End /\ C \in End /\ Typed
  BY DEF IInv, Leases, End
<1>1. CASE Start(x)
  BY <1>1, StartFacts DEF Order
<1>2. CASE Moves(x)
  <2>1. lease' = lease /\ (~Running(x) => run' = run)
    BY <1>2, MovesFacts
  <2>2. ASSUME run[S] = Idle PROVE run'[S] = Idle
    <3>1. CASE x = S
      <4>1. ~Running(x)
        BY <2>2, <3>1 DEF Running, Idle
      <4> QED
        BY <2>1, <2>2, <4>1
    <3>2. CASE x # S
      <4>1. Own(S)' = Own(S)
        BY <1>0, <3>2, OtherEnd
      <4> QED
        BY <2>2, <4>1 DEF Own
    <3> QED
      BY <3>1, <3>2
  <2> QED
    BY <1>0, <2>1, <2>2 DEF Order
<1> QED
  BY <1>1, <1>2 DEF Step, Moves, RunStep

LEMMA ClosedStep ==
    ASSUME IInv, NEW x \in End, Step(x), NEW y \in End
    PROVE  ClosedAt(y)'
<1>0. /\ LeaseAt(S) /\ LeaseAt(C) /\ ClosedAt(y) /\ S \in End /\ C \in End /\ Typed
      /\ Peer(y) \in End /\ Peer(y) # y /\ Peer(Peer(y)) = y
      /\ LeaseAt(y) /\ PumpsAt(y) /\ PumpsAt(Peer(y)) /\ PumpsAt(S) /\ Order /\ LeaseAt(Peer(y))
  BY PeerFacts DEF IInv, Leases, End, Ends
<1>1. CASE Start(x)
  <2>1. CASE x = C
    <3>1. /\ Now' = lease[C] + 1 /\ lease[C] \in Nat /\ over' = over /\ lease[y] = lease[C]
          /\ lease' \in [End -> 0..MaxLease] /\ Now' > lease[y]
      BY <1>1, <2>1, StartFacts DEF Now, End, S, C
    <3>2. Now' \in Lease
      BY <1>0, <3>1 DEF Now, Lease
    <3>3. Now' \notin over[y]
      BY <1>0, <3>1, <3>2 DEF LeaseAt
    <3> QED
      BY <3>1, <3>3 DEF ClosedAt
  <2>2. CASE x = S
    <3>1. /\ Now' = Now /\ Now = lease[S] + 1 /\ lease[S] \in Nat /\ over' = over
          /\ lease' \in [End -> 0..MaxLease]
      BY <1>1, <2>2, StartFacts DEF Now, S, C
    <3>2. Now \in Lease /\ Now > lease[S] /\ lease[S] # Now
      BY <1>0, <3>1 DEF Now, Lease
    <3>3. Now \notin over[S]
      BY <1>0, <3>2 DEF LeaseAt
    <3>4. Now \notin over[C]
      BY <1>0, <3>2 DEF IInv, Leases, ClosedAt, Here, Peer, S, C
    <3>5. Now # 0 /\ Now \notin over[y]
      BY <3>1, <3>3, <3>4 DEF End
    <3> QED
      BY <3>1, <3>5 DEF ClosedAt
  <2> QED
    BY <2>1, <2>2 DEF End
<1>2. CASE Moves(x)
  <2>1. /\ lease' = lease /\ (~Running(x) => run' = run) /\ (HalfClose(x) \/ over' = over)
        /\ up[x].at = "ended" => up'[x].at = "ended"
        /\ down[x] = "ended" => down'[x] = "ended"
    BY <1>2, MovesFacts
  <2>2. ASSUME NEW z \in End, z # x PROVE up'[z] = up[z] /\ down'[z] = down[z]
    BY <1>0, <2>2, OtherEnd DEF Own
  <2>3. Now' = Now /\ Here(Peer(y))' = Here(Peer(y))
    BY <2>1 DEF Now, Here
  \* Nobody sends to y or receives there.
  <2>4. ASSUME down[y] = "ended", up[Peer(y)].at = "ended"
        PROVE  wire'[y] = wire[y] /\ up'[Peer(y)].at = "ended" /\ down'[y] = "ended"
    <3>1. wire'[y] = wire[y]
      BY <2>4, WireStep, PeerFacts
    <3>2. up'[Peer(y)].at = "ended"
      BY <1>0, <2>1, <2>2, <2>4
    <3>3. down'[y] = "ended"
      BY <2>1, <2>2, <2>4
    <3> QED
      BY <3>1, <3>2, <3>3
  <2>5. ASSUME Now = 0 PROVE wire'[y] = <<>>
    <3>1. lease[S] = 0 /\ lease[C] = 0
      BY <1>0, <2>5, RelayAssumption DEF Order, Now, Typed
    <3>2. lease[y] = 0 /\ lease[Peer(y)] = 0
      BY <1>0, <3>1 DEF End
    <3>3. ~Running(y) /\ ~Running(Peer(y))
      BY <1>0, <3>2 DEF LeaseAt, Running, Idle
    <3>4. down[y] = "ended" /\ up[Peer(y)].at = "ended"
      BY <1>0, <3>3 DEF PumpsAt
    <3> QED
      BY <1>0, <2>4, <2>5, <3>4 DEF ClosedAt
  <2>6. ASSUME Now \in over[y]
        PROVE  /\ wire'[y] = <<>> /\ Here(Peer(y))
               /\ up'[Peer(y)].at = "ended" /\ down'[y] = "ended"
    BY <1>0, <2>4, <2>6 DEF ClosedAt
  <2>7. ASSUME Now \in over'[y], Now \notin over[y]
        PROVE  /\ wire'[y] = <<>> /\ Here(Peer(y))
               /\ up'[Peer(y)].at = "ended" /\ down'[y] = "ended"
    <3>1. HalfClose(x) /\ y = x
      BY <1>0, <2>1, <2>7 DEF HalfClose, Typed
    <3>2. down[y] = "halfclose" /\ wire' = wire /\ DownEnds(y, "ok")
      BY <3>1 DEF HalfClose
    <3>3. reader[y].fin
      BY <3>2, RunningFacts DEF IInv, Delivered, DeliveredAt
    <3>4. Ended(Peer(y)) \in BOOLEAN
      BY DEF Ended
    <3>5. wire[y] = <<>> /\ Up(Peer(y)).at = "ended"
      BY <3>2, <3>3, <3>4, Incoming, FlightWhole
    <3>6. Here(Peer(y)) /\ up[Peer(y)].at = "ended"
      BY <3>5 DEF Up, NewUp
    <3>7. down'[y] = "ended"
      BY <1>0, <3>2 DEF DownEnds, Typed
    <3>8. up'[Peer(y)] = up[Peer(y)]
      BY <1>0, <2>2, <3>1
    <3> QED
      BY <3>2, <3>5, <3>6, <3>7, <3>8
  <2> QED
    BY <2>3, <2>5, <2>6, <2>7 DEF ClosedAt
<1> QED
  BY <1>1, <1>2 DEF Step, Moves, RunStep

-----------------------------------------------------------------------------
(* The two directions.                                                      *)

InFlightAt(y) == Now > 0 /\ Down(Peer(y)) # "ended" => Direction(y)

\* What a step that starts no lease leaves alone.
LEMMA Views ==
    ASSUME lease' = lease, NEW y
    PROVE  /\ Now' = Now /\ Here(y)' = Here(y)
           /\ up'[y] = up[y] => Up(y)' = Up(y)
           /\ down'[y] = down[y] => Down(y)' = Down(y)
           /\ reader'[y] = reader[y] => Reader(y)' = Reader(y)
           /\ dec'[y] = dec[y] => Dec(y)' = Dec(y)
           /\ eof'[y] = eof[y] => Ended(y)' = Ended(y)
<1>1. Now' = Now /\ Here(y)' = Here(y)
  BY DEF Now, Here
<1> QED
  BY <1>1 DEF Up, Down, Reader, Dec, Ended

LEMMA DirectionKept ==
    ASSUME NEW y, lease' = lease, sent'[y] = sent[y], eof'[y] = eof[y], up'[y] = up[y],
           wire'[Peer(y)] = wire[Peer(y)], reader'[Peer(y)] = reader[Peer(y)],
           dec'[Peer(y)] = dec[Peer(y)], down'[Peer(y)] = down[Peer(y)], InFlightAt(y)
    PROVE  InFlightAt(y)'
<1>1. /\ Now' = Now /\ Up(y)' = Up(y) /\ Ended(y)' = Ended(y)
  BY Views
<1>2. /\ Down(Peer(y))' = Down(Peer(y)) /\ Reader(Peer(y))' = Reader(Peer(y))
      /\ Dec(Peer(y))' = Dec(Peer(y))
  BY Views
<1> QED
  BY <1>1, <1>2 DEF InFlightAt, Direction

\* A step of the pump from the local socket, or of the peer there.
LEMMA OutgoingStep ==
    ASSUME IInv, NEW x \in End, lease' = lease, Own(Peer(x))' = Own(Peer(x)),
           Running(x), wire'[x] = wire[x], reader'[x] = reader[x], dec'[x] = dec[x],
           down'[x] = down[x],
           Down(Peer(x)) # "ended" =>
               Flight(Now, sent'[x][Now], Ended(x)', Dec(Peer(x)), Reader(Peer(x)),
                      wire'[Peer(x)], up'[x])
    PROVE  \A y \in End : InFlightAt(y)'
<1>1. /\ Peer(x) \in End /\ Peer(Peer(x)) = x /\ \A y \in End : y = x \/ y = Peer(x)
  BY PeerFacts
<1>2. InFlightAt(Peer(x))
  BY <1>1 DEF IInv, InFlight, InFlightAt
<1>3. InFlightAt(Peer(x))'
  BY <1>1, <1>2, DirectionKept DEF Own
<1>4. InFlightAt(x)'
  <2>1. /\ Now' = Now /\ Here(x)' = Here(x) /\ Here(x)
    BY Views, RunningFacts
  <2>2. /\ Down(Peer(x))' = Down(Peer(x)) /\ Reader(Peer(x))' = Reader(Peer(x))
        /\ Dec(Peer(x))' = Dec(Peer(x))
    BY Views DEF Own
  <2>3. Up(x)' = up'[x]
    BY <2>1 DEF Up
  <2> QED
    BY <2>1, <2>2, <2>3 DEF InFlightAt, Direction
<1> QED
  BY <1>1, <1>3, <1>4

\* A step of the pump to the local socket.
LEMMA IncomingStep ==
    ASSUME IInv, NEW x \in End, lease' = lease, Own(Peer(x))' = Own(Peer(x)),
           Running(x), wire'[Peer(x)] = wire[Peer(x)], sent'[x] = sent[x], eof'[x] = eof[x],
           up'[x] = up[x],
           down'[x] # "ended" =>
               Flight(Now, sent[Peer(x)][Now], Ended(Peer(x)), dec'[x], reader'[x],
                      wire'[x], Up(Peer(x)))
    PROVE  \A y \in End : InFlightAt(y)'
<1>1. /\ Peer(x) \in End /\ Peer(Peer(x)) = x /\ \A y \in End : y = x \/ y = Peer(x)
  BY PeerFacts
<1>2. InFlightAt(x)
  BY <1>1 DEF IInv, InFlight, InFlightAt
<1>3. InFlightAt(x)'
  BY <1>1, <1>2, DirectionKept DEF Own
<1>4. InFlightAt(Peer(x))'
  <2>1. /\ Now' = Now /\ Here(x)' = Here(x) /\ Here(x)
    BY Views, RunningFacts
  <2>2. /\ Up(Peer(x))' = Up(Peer(x)) /\ Ended(Peer(x))' = Ended(Peer(x))
        /\ sent'[Peer(x)] = sent[Peer(x)]
    BY Views DEF Own
  <2>3. Down(x)' = down'[x] /\ Reader(x)' = reader'[x] /\ Dec(x)' = dec'[x]
    BY <2>1 DEF Down, Reader, Dec
  <2> QED
    BY <1>1, <2>1, <2>2, <2>3 DEF InFlightAt, Direction
<1> QED
  BY <1>1, <1>3, <1>4

LEMMA InFlightUp ==
    ASSUME IInv, NEW x \in End, UpStep(x)
    PROVE  \A y \in End : InFlightAt(y)'
<1> USE DEF still, runVars, codecVars, sockVars, dataVars
<1>0. Typed /\ PumpsAt(x) /\ Peer(x) \in End /\ Peer(x) # x /\ Ended(x) \in BOOLEAN
  BY PeerFacts DEF IInv, Ends, Ended
<1>1. /\ lease' = lease /\ reader' = reader /\ dec' = dec /\ down' = down
      /\ sent' = sent /\ eof' = eof
  BY DEF UpStep, ReadEnd, WriteFrame, WriteFin, UpFails
<1>2. Own(Peer(x))' = Own(Peer(x))
  BY <1>0, OtherEnd DEF Step
<1>3. up[x].at # "ended"
  <2>1. up[x].out # <<>> => up[x].at # "ended"
    BY <1>0 DEF PumpsAt
  <2> QED
    BY <2>1 DEF UpStep, ReadEnd, WriteFrame, WriteFin, UpFails
<1>4. Running(x) /\ lease[x] = Now
  BY <1>3, RunningFacts
<1>5. wire'[x] = wire[x]
  <2>1. CASE WriteFrame(x)
    BY <1>0, <2>1 DEF WriteFrame, Sends, Typed
  <2>2. CASE WriteFin(x)
    BY <1>0, <2>2 DEF WriteFin, Sends, Typed
  <2> QED
    BY <2>1, <2>2 DEF UpStep, ReadEnd, UpFails
<1>6. Ended(x)' = Ended(x)
  BY <1>1, Views
<1>7. SUFFICES ASSUME Down(Peer(x)) # "ended"
               PROVE  Flight(Now, sent[x][Now], Ended(x), Dec(Peer(x)), Reader(Peer(x)),
                             wire'[Peer(x)], up'[x])
  BY <1>1, <1>2, <1>4, <1>5, <1>6, OutgoingStep
<1> DEFINE s == sent[x][Now]
           e == Ended(x)
           d == Dec(Peer(x))
           r == Reader(Peer(x))
           w == wire[Peer(x)]
           u == up[x]
<1>8. /\ Flight(Now, s, e, d, r, w, u)
      /\ Now \in Lease /\ s \in Seq(Chunk) /\ d \in Decoder
      /\ r \in Reading /\ w \in Seq(Frames) /\ u \in Sender
  BY <1>3, <1>7, Outgoing
<1>9. CASE ReadEnd(x)
  <2>1. u.at = "read" /\ wire' = wire /\ local[x] = "eof"
    BY <1>9 DEF ReadEnd
  <2>2. e = TRUE
    BY <1>0, <1>4, <2>1 DEF PumpsAt, Ended
  <2>3. up'[x] = [at |-> "close", out |-> <<Unit(0, 0, s)>>]
    <3>1. up'[x] = [at |-> "close", out |-> <<LastUnit(x)>>]
      BY <1>0, <1>9 DEF ReadEnd, Typed
    <3> QED
      BY <1>0, <1>4, <3>1 DEF LastUnit, PumpsAt
  <2> HIDE DEF s, e, d, r, w, u
  <2>4. Flight(Now, s, TRUE, d, r, w, u)
    BY <1>8, <2>2
  <2>5. Flight(Now, s, TRUE, d, r, w, [at |-> "close", out |-> <<Unit(0, 0, s)>>])
    BY <1>8, <2>1, <2>4, FlightClose
  <2> QED
    BY <2>1, <2>2, <2>3, <2>5 DEF s, e, d, r, w
<1>10. CASE WriteFrame(x)
  <2> DEFINE n == IF Len(u.out) < FrameMax THEN Len(u.out) ELSE FrameMax
             v == up'[x]
  <2>1. u.out # <<>> /\ u.out \in Seq(AUnit)
    BY <1>8, <1>10 DEF WriteFrame, Sender
  <2>2. n \in 1..Len(u.out)
    <3>1. Len(u.out) \in Nat /\ Len(u.out) # 0 /\ FrameMax \in Nat /\ FrameMax # 0
      BY <2>1, SeqFacts, RelayAssumption
    <3> QED
      BY <3>1
  <2>3. wire'[Peer(x)] = Append(w, Frame("DATA", Now, SubSeq(u.out, 1, n)))
    BY <1>0, <1>4, <1>10 DEF WriteFrame, Sends, Typed
  <2>4. v \in Sender
    BY TypedStep DEF Step, Typed
  <2>5. v.out = SubSeq(u.out, n + 1, Len(u.out))
    BY <1>0, <1>10 DEF WriteFrame, Typed
  <2>6. v.at = IF v.out # <<>> THEN u.at ELSE IF u.at = "flush" THEN "read" ELSE "fin"
    <3> DEFINE rest == SubSeq(u.out, n + 1, Len(u.out))
               a == IF rest # <<>> THEN u.at ELSE IF u.at = "flush" THEN "read" ELSE "fin"
    <3>1. v = [at |-> a, out |-> rest]
      BY <1>0, <1>10 DEF WriteFrame, Typed
    <3>2. v.at = a /\ v.out = rest
      <4> HIDE DEF a, rest
      <4> QED
        BY <3>1
    <3> QED
      BY <3>2
  <2> HIDE DEF s, e, d, r, w, u, n, v
  <2>7. u.at # "ended"
    BY <1>3 DEF u
  <2>8. e \in BOOLEAN
    BY <1>0 DEF e
  <2>9. Flight(Now, s, e, d, r, Append(w, Frame("DATA", Now, SubSeq(u.out, 1, n))), v)
    BY <1>8, <2>1, <2>2, <2>4, <2>5, <2>6, <2>7, <2>8, FlightWrite
  <2> QED
    BY <2>3, <2>9 DEF s, e, d, r, v
<1>11. CASE WriteFin(x)
  <2>1. u.at = "fin" /\ up'[x] = NoUp
    BY <1>0, <1>11 DEF WriteFin, UpEnds, Typed
  <2>2. wire'[Peer(x)] = Append(w, Frame("FIN", Now, <<>>))
    BY <1>0, <1>4, <1>11 DEF WriteFin, Sends, Typed
  <2>3. e \in BOOLEAN
    BY <1>0
  <2> HIDE DEF s, e, d, r, w, u
  <2>4. Flight(Now, s, e, d, r, Append(w, Frame("FIN", Now, <<>>)), NoUp)
    BY <1>8, <2>1, <2>3, FlightFin
  <2> QED
    BY <2>1, <2>2, <2>4 DEF s, e, d, r
<1>12. CASE UpFails(x)
  <2>1. up'[x] = NoUp /\ wire' = wire
    BY <1>0, <1>12 DEF UpFails, UpEnds, Typed
  <2>2. e \in BOOLEAN
    BY <1>0
  <2> HIDE DEF s, e, d, r, w, u
  <2>3. Flight(Now, s, e, d, r, w, NoUp)
    BY <1>8, <2>2, FlightStops
  <2> QED
    BY <2>1, <2>3 DEF s, e, d, r, w
<1> QED
  BY <1>9, <1>10, <1>11, <1>12 DEF UpStep

LEMMA InFlightLocal ==
    ASSUME IInv, NEW x \in End, LocalStep(x)
    PROVE  \A y \in End : InFlightAt(y)'
<1> USE DEF still, runVars, codecVars, sockVars, dataVars
<1>0. Typed /\ PumpsAt(x) /\ Peer(x) \in End /\ Peer(x) # x /\ Ended(x) \in BOOLEAN
  BY PeerFacts DEF IInv, Ends, Ended
<1>1. lease' = lease /\ reader' = reader /\ dec' = dec /\ down' = down /\ wire' = wire
  BY DEF LocalStep, ReadLocal, LocalEnds
<1>2. Own(Peer(x))' = Own(Peer(x))
  BY <1>0, OtherEnd DEF Step
<1> DEFINE s == sent[x][Now]
           e == Ended(x)
           d == Dec(Peer(x))
           r == Reader(Peer(x))
           w == wire[Peer(x)]
           u == up[x]
<1>3. CASE ReadLocal(x)
  <2>1. up[x].at = "read" /\ Len(sent[x][lease[x]]) < MaxChunks /\ eof' = eof
    BY <1>3 DEF ReadLocal
  <2>2. Running(x) /\ lease[x] = Now /\ Now \in Lease
    BY <2>1, RunningFacts
  <2> DEFINE c == (lease[x] - 1) * MaxChunks + Len(sent[x][lease[x]]) + 1
  <2>3. c \in Chunk
    <3>1. Len(sent[x][lease[x]]) \in Nat
      BY <1>0, <2>2, SizeType DEF Typed
    <3> QED
      BY <2>1, <2>2, <3>1, ChunkType
  <2>4. /\ sent' = [sent EXCEPT ![x][lease[x]] = Append(@, c)]
        /\ up' = [up EXCEPT ![x] = [at |-> "flush", out |-> Block(c)]]
    BY <1>3 DEF ReadLocal
  <2> HIDE DEF c
  <2>5. sent'[x][Now] = Append(s, c)
    BY <1>0, <2>2, <2>4 DEF Typed
  <2>6. up'[x] = [at |-> "flush", out |-> Block(c)]
    BY <1>0, <2>4 DEF Typed
  <2>7. Ended(x)' = Ended(x)
    BY <1>1, <2>1, Views
  <2>8. SUFFICES ASSUME Down(Peer(x)) # "ended"
                 PROVE  Flight(Now, sent'[x][Now], Ended(x), Dec(Peer(x)), Reader(Peer(x)),
                               wire'[Peer(x)], up'[x])
    BY <1>1, <1>2, <2>2, <2>7, OutgoingStep
  <2>9. /\ Flight(Now, s, e, d, r, w, u)
        /\ s \in Seq(Chunk) /\ d \in Decoder /\ r \in Reading /\ w \in Seq(Frames) /\ u \in Sender
    BY <2>1, <2>8, Outgoing
  <2>10. e \in BOOLEAN /\ u.at = "read"
    BY <1>0, <2>1
  <2> HIDE DEF s, e, d, r, w, u
  <2>11. Flight(Now, Append(s, c), e, d, r, w, [at |-> "flush", out |-> Block(c)])
    BY <2>3, <2>9, <2>10, FlightRead
  <2> QED
    BY <1>1, <2>5, <2>6, <2>11 DEF e, d, r, w
<1>4. CASE LocalEnds(x)
  <2>1. Running(x) /\ up' = up /\ sent' = sent /\ eof' = [eof EXCEPT ![x] = @ \cup {lease[x]}]
    BY <1>4 DEF LocalEnds
  <2>2. Here(x) /\ lease[x] = Now /\ Now > 0 /\ Up(x) = up[x]
    BY <2>1, RunningFacts DEF Up
  <2>3. Ended(x)' = TRUE
    BY <1>0, <1>1, <2>1, <2>2 DEF Ended, Now, Typed
  <2>4. SUFFICES ASSUME Down(Peer(x)) # "ended"
                 PROVE  Flight(Now, sent[x][Now], TRUE, Dec(Peer(x)), Reader(Peer(x)),
                               wire[Peer(x)], up[x])
    BY <1>1, <1>2, <2>1, <2>3, OutgoingStep
  <2>5. Flight(Now, s, e, d, r, w, u)
    <3>1. Direction(x)
      BY <2>2, <2>4 DEF IInv, InFlight
    <3> QED
      BY <2>2, <3>1 DEF Direction
  <2> HIDE DEF s, e, d, r, w, u
  <2>6. Flight(Now, s, TRUE, d, r, w, u)
    BY <2>5, FlightEnds
  <2> QED
    BY <2>6 DEF s, d, r, w, u
<1> QED
  BY <1>3, <1>4 DEF LocalStep

LEMMA InFlightDown ==
    ASSUME IInv, NEW x \in End, DownStep(x)
    PROVE  \A y \in End : InFlightAt(y)'
<1> USE DEF still, runVars, codecVars, sockVars, dataVars
<1>0. Typed /\ Peer(x) \in End /\ Peer(x) # x /\ Ended(Peer(x)) \in BOOLEAN
  BY PeerFacts DEF IInv, Ended
<1>1. lease' = lease /\ up' = up /\ sent' = sent /\ eof' = eof
  BY DEF DownStep, Receives, Decode, WriteLocal, CopyEnds, Finish, HalfClose, DownFails
<1>2. Own(Peer(x))' = Own(Peer(x))
  BY <1>0, OtherEnd DEF Step
<1>3. down[x] # "ended"
  BY DEF DownStep, Receives, Decode, WriteLocal, CopyEnds, Finish, HalfClose, DownFails
<1>4. Running(x)
  BY <1>3, RunningFacts
<1>5. wire'[Peer(x)] = wire[Peer(x)]
  BY <1>0, <1>3 DEF DownStep, Receives, Decode, WriteLocal, CopyEnds, Finish, HalfClose, DownFails, Typed
<1>6. SUFFICES ASSUME down'[x] # "ended"
               PROVE  Flight(Now, sent[Peer(x)][Now], Ended(Peer(x)), dec'[x], reader'[x],
                             wire'[x], Up(Peer(x)))
  BY <1>1, <1>2, <1>4, <1>5, IncomingStep
<1> DEFINE s == sent[Peer(x)][Now]
           e == Ended(Peer(x))
           u == Up(Peer(x))
<1>7. /\ Flight(Now, s, e, dec[x], reader[x], wire[x], u)
      /\ s \in Seq(Chunk) /\ dec[x] \in Decoder /\ reader[x] \in Reading /\ wire[x] \in Seq(Frames)
  BY <1>3, Incoming
<1>8. CASE Receives(x)
  <2>1. dec' = dec
    BY <1>8 DEF Receives
  <2>2. Flight(Now, sent[Peer(x)][Now], Ended(Peer(x)), dec[x], reader'[x], wire'[x], Up(Peer(x)))
    BY <1>8, ReceivesGood
  <2> QED
    BY <2>1, <2>2
<1>9. CASE Decode(x)
  <2>1. wire' = wire
    BY <1>9 DEF Decode
  <2>2. Flight(Now, sent[Peer(x)][Now], Ended(Peer(x)), dec'[x], reader'[x], wire[x], Up(Peer(x)))
    BY <1>9, DecodeGood
  <2> QED
    BY <2>1, <2>2
<1>10. CASE Finish(x)
  <2>1. dec[x].whole /\ wire[x] # <<>> /\ dec' = dec
    BY <1>10, FinishGood DEF Finish
  <2>2. wire'[x] = Tail(wire[x])
    BY <1>0, <1>10 DEF Finish, Typed
  <2> DEFINE q == reader'[x]
             f == Head(wire[x])
             d == dec[x]
             r == reader[x]
             w == wire[x]
             y == wire'[x]
  <2>3. q \in Reading
    BY TypedStep DEF Step, Typed
  <2>4. q.pending = r.pending /\ q.fin
    <3>1. q = [r EXCEPT !.fin = TRUE]
      BY <1>0, <1>10 DEF Finish, Typed
    <3>2. r \in Reading
      BY <1>0 DEF Typed
    <3> QED
      BY <3>1, <3>2 DEF Reading
  <2>5. Pops(w, f, y) /\ d.whole /\ e \in BOOLEAN
    BY <1>0, <2>1, <2>2 DEF Pops
  <2>6. /\ Flight(Now, s, e, d, r, w, u) /\ s \in Seq(Chunk) /\ d \in Decoder /\ r \in Reading
        /\ w \in Seq(Frames)
    BY <1>7
  <2> HIDE DEF s, e, u, q, f, d, r, w, y
  <2>7. Flight(Now, s, e, d, q, y, u)
    BY <2>3, <2>4, <2>5, <2>6, FlightFinish
  <2> QED
    BY <2>1, <2>7 DEF s, e, u, q, d, y
<1>11. CASE WriteLocal(x) \/ CopyEnds(x) \/ HalfClose(x) \/ DownFails(x)
  <2>1. dec' = dec /\ reader' = reader /\ wire' = wire
    BY <1>11 DEF WriteLocal, CopyEnds, HalfClose, DownFails
  <2> QED
    BY <1>7, <2>1
<1> QED
  BY <1>8, <1>9, <1>10, <1>11 DEF DownStep

LEMMA InFlightWrong ==
    ASSUME IInv, NEW x \in End, GoesWrong(x)
    PROVE  \A y \in End : InFlightAt(y)'
<1> USE DEF still, runVars, codecVars, sockVars, dataVars
<1>0. Typed /\ Peer(x) \in End /\ Peer(x) # x /\ Ended(x) \in BOOLEAN
  BY PeerFacts DEF IInv, Ended
<1>1. lease' = lease /\ reader' = reader /\ dec' = dec /\ wire' = wire /\ sent' = sent /\ eof' = eof
  BY DEF GoesWrong, LocalResets, Forced, Cancelled, WriteTimesOut
<1>2. CASE up' = up /\ down' = down
  <2>1. ASSUME NEW y \in End PROVE InFlightAt(y)'
    <3>1. InFlightAt(y)
      BY DEF IInv, InFlight, InFlightAt
    <3> QED
      BY <1>1, <1>2, <3>1, DirectionKept
  <2> QED
    BY <2>1
<1>3. Own(Peer(x))' = Own(Peer(x))
  BY <1>0, OtherEnd DEF Step
<1>4. CASE up[x].at # "ended" /\ UpEnds(x, "io") /\ down' = down
  <2>1. Running(x) /\ up'[x] = NoUp
    BY <1>0, <1>4, RunningFacts DEF UpEnds, Typed
  <2>2. Ended(x)' = Ended(x)
    BY <1>1, Views
  <2>3. SUFFICES ASSUME Down(Peer(x)) # "ended"
                 PROVE  Flight(Now, sent[x][Now], Ended(x), Dec(Peer(x)), Reader(Peer(x)),
                               wire[Peer(x)], NoUp)
    BY <1>1, <1>3, <1>4, <2>1, <2>2, OutgoingStep
  <2> DEFINE s == sent[x][Now]
             e == Ended(x)
             d == Dec(Peer(x))
             r == Reader(Peer(x))
             w == wire[Peer(x)]
             u == up[x]
  <2>4. Flight(Now, s, e, d, r, w, u) /\ s \in Seq(Chunk)
    BY <1>4, <2>3, Outgoing
  <2>5. e \in BOOLEAN
    BY <1>0
  <2> HIDE DEF s, e, d, r, w, u
  <2>6. Flight(Now, s, e, d, r, w, NoUp)
    BY <2>4, <2>5, FlightStops
  <2> QED
    BY <2>6 DEF s, e, d, r, w
<1>5. CASE down[x] = "write" /\ DownEnds(x, "io") /\ up' = up
  <2>1. Running(x) /\ down'[x] = "ended"
    BY <1>0, <1>5, RunningFacts DEF DownEnds, Typed
  <2> QED
    BY <1>1, <1>3, <1>5, <2>1, IncomingStep
<1> QED
  BY <1>2, <1>4, <1>5 DEF GoesWrong, LocalResets, Forced, Cancelled, WriteTimesOut

LEMMA InFlightTake ==
    ASSUME IInv, NEW x \in End, TakeFirst(x) \/ TakeSecond(x)
    PROVE  \A y \in End : InFlightAt(y)'
<1> USE DEF still, runVars, codecVars, sockVars, dataVars
<1>1. CASE TakeFirst(x)
  <2>1. /\ lease' = lease /\ reader' = reader /\ dec' = dec /\ wire' = wire /\ sent' = sent
        /\ eof' = eof /\ up' = up /\ down' = down
    BY <1>1 DEF TakeFirst
  <2>2. ASSUME NEW y \in End PROVE InFlightAt(y)'
    <3>1. InFlightAt(y)
      BY DEF IInv, InFlight, InFlightAt
    <3> QED
      BY <2>1, <3>1, DirectionKept
  <2> QED
    BY <2>2
<1>2. CASE TakeSecond(x)
  <2>1. /\ lease' = lease /\ wire' = wire /\ sent' = sent /\ eof' = eof /\ up' = up /\ down' = down
        /\ Running(x)
    BY <1>2 DEF TakeSecond, Running
  <2>2. down[x] = "ended"
    BY <1>2, BothEnded
  <2>3. Own(Peer(x))' = Own(Peer(x))
    BY <1>2, PeerFacts, OtherEnd DEF Step, RunStep, IInv
  <2> QED
    BY <2>1, <2>2, <2>3, IncomingStep
<1> QED
  BY <1>1, <1>2

\* Both streams of a new lease are empty, and so is the connection.
LEMMA InFlightStart ==
    ASSUME IInv, NEW x \in End, Start(x)
    PROVE  \A y \in End : InFlightAt(y)'
<1>0. /\ Typed /\ S \in End /\ C \in End /\ S # C /\ Peer(S) = C /\ Peer(C) = S
      /\ End = {S, C}
  BY DEF IInv, End, S, C, Peer
<1>1. /\ up'[x] = NewUp /\ down'[x] = "copy" /\ reader'[x] = NewReader /\ dec'[x] = NewDec
  BY <1>0 DEF Start, Reset, Typed
<1>2. ASSUME NEW y \in End, y # x
      PROVE  /\ up'[y] = up[y] /\ down'[y] = down[y] /\ reader'[y] = reader[y] /\ dec'[y] = dec[y]
  BY <1>0, <1>2, OtherEnd DEF Own, Step, RunStep
<1>3. CASE x = C
  <2>1. /\ run[S] = Idle /\ run[C] = Idle /\ lease[C] \in Nat /\ lease[S] = lease[C]
        /\ lease'[C] = lease[C] + 1 /\ lease'[S] = lease[C] /\ lease' \in [End -> 0..MaxLease]
        /\ wire' = wire /\ sent' = sent
    BY <1>0, <1>3, StartFacts
  <2>2. Now' \in Lease /\ Now' > lease[C] /\ Now' > lease[S] /\ Now = lease[C]
    BY <1>0, <2>1 DEF Now, Lease
  <2>3. ASSUME NEW y \in End PROVE sent'[y][Now'] = <<>> /\ wire'[y] = <<>>
    <3>1. LeaseAt(y) /\ ClosedAt(y) /\ run[y] = Idle /\ lease[y] = Now /\ Now' > lease[y]
      BY <1>0, <2>1, <2>2 DEF IInv, Leases
    <3>2. sent[y][Now'] = <<>>
      BY <2>2, <3>1 DEF LeaseAt
    <3>3. wire[y] = <<>>
      BY <2>1, <2>2, <3>1 DEF LeaseAt, ClosedAt
    <3> QED
      BY <2>1, <3>2, <3>3
  <2>4. Here(C)' /\ ~Here(S)'
    BY <1>0, <2>1 DEF Here, Now
  <2>5. ASSUME NEW y \in End
        PROVE  Up(y)' = NewUp /\ Reader(y)' = NewReader /\ Dec(y)' = NewDec
    BY <1>0, <1>1, <1>3, <2>4 DEF Up, Reader, Dec
  <2>6. ASSUME NEW y \in End PROVE InFlightAt(y)'
    <3>1. Peer(y) \in End
      BY PeerFacts
    <3>2. /\ Up(y)' = NewUp /\ Reader(Peer(y))' = NewReader /\ Dec(Peer(y))' = NewDec
          /\ sent'[y][Now'] = <<>> /\ wire'[Peer(y)] = <<>>
      BY <2>3, <2>5, <3>1
    <3>3. Flight(Now', <<>>, Ended(y)', NewDec, NewReader, <<>>, NewUp)
      BY FlightStart
    <3> QED
      BY <3>2, <3>3 DEF InFlightAt, Direction
  <2> QED
    BY <2>6
<1>4. CASE x = S
  <2>1. /\ lease[C] = lease[S] + 1 /\ lease[S] \in Nat /\ lease'[C] = lease[C]
        /\ lease'[S] = lease[C] /\ wire' = wire /\ sent' = sent /\ eof' = eof
    BY <1>0, <1>4, StartFacts
  <2>2. /\ Now' = Now /\ Here(S)' /\ ~Here(S) /\ Here(C)' /\ Here(C)
    BY <2>1 DEF Now, Here
  <2>3. ASSUME NEW y \in End
        PROVE  /\ Up(y)' = Up(y) /\ Down(y)' = Down(y) /\ Reader(y)' = Reader(y) /\ Dec(y)' = Dec(y)
               /\ Ended(y)' = Ended(y)
    <3>1. CASE y = S
      BY <1>1, <1>4, <2>1, <2>2, <3>1 DEF Up, Down, Reader, Dec, Ended
    <3>2. CASE y = C
      BY <1>0, <1>2, <1>4, <2>1, <2>2, <3>2 DEF Up, Down, Reader, Dec, Ended
    <3> QED
      BY <1>0, <3>1, <3>2
  <2>4. ASSUME NEW y \in End PROVE InFlightAt(y)'
    <3>1. Peer(y) \in End /\ InFlightAt(y)
      BY PeerFacts DEF IInv, InFlight, InFlightAt
    <3>2. /\ Up(y)' = Up(y) /\ Ended(y)' = Ended(y) /\ Down(Peer(y))' = Down(Peer(y))
          /\ Reader(Peer(y))' = Reader(Peer(y)) /\ Dec(Peer(y))' = Dec(Peer(y))
      BY <2>3, <3>1
    <3> QED
      BY <2>1, <2>2, <3>1, <3>2 DEF InFlightAt, Direction
  <2> QED
    BY <2>4
<1> QED
  BY <1>0, <1>3, <1>4

LEMMA InFlightStep ==
    ASSUME IInv, NEW x \in End, Step(x)
    PROVE  InFlight'
<1>1. \A y \in End : InFlightAt(y)'
  BY InFlightUp, InFlightDown, InFlightLocal, InFlightWrong, InFlightTake, InFlightStart
  DEF Step, RunStep
<1> QED
  BY <1>1 DEF InFlight, InFlightAt

-----------------------------------------------------------------------------
(* What is delivered.                                                       *)

LEMMA FrontAppend ==
    ASSUME NEW q \in Seq(Chunk), NEW c \in Chunk
    PROVE  Append(q, c) # <<>> /\ Front(Append(q, c)) = q
<1> DEFINE p == Append(q, c)
           n == Len(q)
<1>1. /\ p \in Seq(Chunk) /\ Len(p) = n + 1 /\ n \in Nat /\ \A j \in 1..n : p[j] = q[j] /\ q[j] \in Chunk
  BY AppendFacts, SeqFacts
<1>2. Front(p) = SubSeq(p, 1, n)
  <2>1. Len(p) - 1 = n
    BY <1>1
  <2> QED
    BY <2>1 DEF Front
<1> HIDE DEF p, n
<1>3. \A j \in 1..n : p[j] \in Chunk
  BY <1>1
<1>4. /\ SubSeq(p, 1, n) \in Seq(Chunk) /\ Len(SubSeq(p, 1, n)) = (IF 1 <= n THEN n - 1 + 1 ELSE 0)
      /\ \A j \in 1..n - 1 + 1 : SubSeq(p, 1, n)[j] = p[1 + j - 1]
  BY <1>1, <1>3, SubSeqProperties
<1> DEFINE f == SubSeq(p, 1, n)
<1>5. Len(f) = n /\ \A j \in 1..n : f[j] = q[j]
  <2> HIDE DEF f
  <2>1. f \in Seq(Chunk) /\ Len(f) = (IF 1 <= n THEN n - 1 + 1 ELSE 0)
        /\ \A j \in 1..n - 1 + 1 : f[j] = p[1 + j - 1]
    BY <1>4 DEF f
  <2> QED
    BY <1>1, <2>1
<1>6. f \in Seq(Chunk) /\ Len(f) = Len(q) /\ \A j \in 1..Len(f) : f[j] = q[j]
  BY <1>4, <1>5 DEF n
<1>7. f = q
  <2> HIDE DEF f
  <2> QED
    BY <1>6, SeqEqual
<1>8. p # <<>>
  BY <1>1, SeqFacts
<1> QED
  BY <1>2, <1>7, <1>8 DEF p

LEMMA DeliveredKept ==
    ASSUME NEW y, lease' = lease, down'[y] = down[y], dec'[y] = dec[y], reader'[y] = reader[y],
           got'[y] = got[y], DeliveredAt(y)
    PROVE  DeliveredAt(y)'
<1>1. Now' = Now /\ Here(y)' = Here(y)
  BY Views
<1> QED
  BY <1>1 DEF DeliveredAt

LEMMA DeliveredStart ==
    ASSUME IInv, NEW x \in End, Start(x)
    PROVE  DeliveredAt(x)'
<1>0. Typed /\ LeaseAt(x)
  BY DEF IInv, Leases
<1>1. /\ down'[x] = "copy" /\ dec'[x] = NewDec /\ got' = got /\ lease'[x] = lease[x] + 1
      /\ lease[x] \in Nat /\ lease'[x] \in 0..MaxLease
  <2>1. lease[x] \in Nat
    BY <1>0, RelayAssumption DEF Typed
  <2>2. lease' \in [End -> 0..MaxLease]
    BY StartFacts
  <2> QED
    BY <1>0, <2>1, <2>2 DEF Start, Reset, Typed, dataVars
<1>2. lease'[x] \in Lease /\ lease'[x] > lease[x]
  BY <1>1, RelayAssumption DEF Lease
<1>3. got[x][lease'[x]] = <<>>
  BY <1>0, <1>2 DEF LeaseAt
<1>4. Here(x)' => Now' = lease'[x]
  BY DEF Here
<1>5. dec'[x].chunks = <<>>
  BY <1>1 DEF NewDec
<1> QED
  BY <1>1, <1>3, <1>4, <1>5 DEF DeliveredAt

LEMMA DeliveredDown ==
    ASSUME IInv, NEW x \in End, DownStep(x)
    PROVE  DeliveredAt(x)'
<1> USE DEF still, runVars, codecVars, sockVars, dataVars
<1>0. Typed /\ DeliveredAt(x)
  BY DEF IInv, Delivered
<1>1. lease' = lease /\ down[x] # "ended"
  BY DEF DownStep, Receives, Decode, WriteLocal, CopyEnds, Finish, HalfClose, DownFails
<1>2. Now' = Now /\ Now > 0 /\ Here(x) /\ lease[x] = Now /\ Now \in Lease
  BY <1>1, Views, RunningFacts
<1>3. down[x] # "write" => got[x][Now] = dec[x].chunks
  BY <1>0, <1>1, <1>2 DEF DeliveredAt
<1>g. ASSUME NEW p, DownGoes(x, p) PROVE down'[x] = p
  BY <1>0, <1>g DEF DownGoes, Typed
<1>4. CASE Receives(x)
  <2>1. down'[x] = "copy" /\ dec' = dec /\ got' = got /\ down[x] = "copy"
    BY <1>4, <1>g, ReceivesGood DEF Receives
  <2> QED
    BY <1>2, <1>3, <2>1 DEF DeliveredAt
<1>5. CASE Decode(x)
  <2> DEFINE v == Head(reader[x].pending)
  <2>1. got' = got /\ down[x] = "copy"
    BY <1>5 DEF Decode
  <2>2. /\ DownGoes(x, IF v.part = BlockUnits THEN "write" ELSE "copy")
        /\ Yields(dec[x], v, dec'[x])
    BY <1>5, DecodeGood
  <2> HIDE DEF v
  <2>3. down'[x] = IF v.part = BlockUnits THEN "write" ELSE "copy"
    BY <1>g, <2>2
  <2>4. CASE v.part = BlockUnits
    <3>1. /\ dec'[x].chunks = Append(dec[x].chunks, v.chunk) /\ v.chunk \in Chunk
          /\ ~dec'[x].whole /\ dec'[x].part = 0
      BY <2>2, <2>4 DEF Yields
    <3>2. dec[x].chunks \in Seq(Chunk)
      BY <1>0 DEF Typed, Decoder
    <3>3. dec'[x].chunks # <<>> /\ Front(dec'[x].chunks) = dec[x].chunks
      BY <3>1, <3>2, FrontAppend
    <3>4. down'[x] = "write" /\ got'[x][Now] = Front(dec'[x].chunks)
      BY <1>3, <2>1, <2>3, <2>4, <3>3
    <3> QED
      BY <1>2, <3>1, <3>3, <3>4 DEF DeliveredAt
  <2>5. CASE v.part # BlockUnits
    <3>1. dec'[x].chunks = dec[x].chunks /\ down'[x] = "copy"
      BY <2>2, <2>3, <2>5 DEF Yields
    <3> QED
      BY <1>2, <1>3, <2>1, <3>1 DEF DeliveredAt
  <2> QED
    BY <2>4, <2>5
<1>6. CASE WriteLocal(x)
  <2> DEFINE q == dec[x].chunks
  <2>1. /\ down[x] = "write" /\ down'[x] = "copy" /\ dec' = dec
        /\ got' = [got EXCEPT ![x][lease[x]] = Append(@, Last(q))]
    BY <1>6, <1>g DEF WriteLocal
  <2>2. q # <<>> /\ got[x][Now] = Front(q)
    BY <1>0, <1>2, <2>1 DEF DeliveredAt
  <2>3. Append(Front(q), Last(q)) = q
    BY <1>1, <2>2, Incoming, FlightChunk
  <2>4. got'[x][Now] = Append(got[x][Now], Last(q))
    BY <1>0, <1>2, <2>1 DEF Typed
  <2>5. got'[x][Now] = dec'[x].chunks
    BY <2>1, <2>2, <2>3, <2>4
  <2> QED
    BY <1>2, <2>1, <2>5 DEF DeliveredAt
<1>7. CASE CopyEnds(x)
  <2>1. /\ dec[x].whole /\ dec' = dec /\ reader' = reader /\ got' = got /\ down[x] = "copy"
        /\ DownGoes(x, IF reader[x].fin THEN "halfclose" ELSE "finish")
    BY <1>7, CopyEndsGood DEF CopyEnds
  <2>2. down'[x] = IF reader[x].fin THEN "halfclose" ELSE "finish"
    BY <1>g, <2>1
  <2> QED
    BY <1>2, <1>3, <2>1, <2>2 DEF DeliveredAt
<1>8. CASE Finish(x)
  <2>1. /\ dec[x].whole /\ dec' = dec /\ got' = got /\ down[x] = "finish" /\ down'[x] = "halfclose"
    BY <1>8, <1>g, FinishGood DEF Finish
  <2>2. reader'[x].fin
    <3>1. reader'[x] = [reader[x] EXCEPT !.fin = TRUE] /\ reader[x] \in Reading
      BY <1>0, <1>8 DEF Finish, Typed
    <3> QED
      BY <3>1 DEF Reading
  <2> QED
    BY <1>2, <1>3, <2>1, <2>2 DEF DeliveredAt
<1>9. CASE HalfClose(x) \/ DownFails(x)
  <2>1. down'[x] = "ended"
    BY <1>0, <1>9 DEF HalfClose, DownFails, DownEnds, Typed
  <2> QED
    BY <2>1 DEF DeliveredAt
<1> QED
  BY <1>4, <1>5, <1>6, <1>7, <1>8, <1>9 DEF DownStep

LEMMA DeliveredStep ==
    ASSUME IInv, NEW x \in End, Step(x)
    PROVE  Delivered'
<1> USE DEF still, runVars, codecVars, sockVars, dataVars
<1>0. Typed /\ DeliveredAt(x)
  BY DEF IInv, Delivered
<1>1. DeliveredAt(x)'
  <2>1. CASE UpStep(x) \/ TakeFirst(x) \/ LocalStep(x)
    <3>1. lease' = lease /\ down' = down /\ dec' = dec /\ reader' = reader /\ got' = got
      BY <2>1 DEF UpStep, ReadEnd, WriteFrame, WriteFin, UpFails, TakeFirst, LocalStep, ReadLocal,
                  LocalEnds
    <3> QED
      BY <1>0, <3>1, DeliveredKept
  <2>2. CASE TakeSecond(x)
    <3>1. down'[x] = "ended"
      BY <2>2, BothEnded DEF TakeSecond
    <3> QED
      BY <3>1 DEF DeliveredAt
  <2>3. CASE GoesWrong(x)
    <3>1. lease' = lease /\ dec' = dec /\ reader' = reader /\ got' = got
      BY <2>3 DEF GoesWrong, LocalResets, Forced, Cancelled, WriteTimesOut
    <3>2. down' = down \/ down'[x] = "ended"
      BY <1>0, <2>3 DEF GoesWrong, LocalResets, Forced, Cancelled, WriteTimesOut, DownEnds, Typed
    <3>3. CASE down' = down
      BY <1>0, <3>1, <3>3, DeliveredKept
    <3>4. CASE down'[x] = "ended"
      BY <3>4 DEF DeliveredAt
    <3> QED
      BY <3>2, <3>3, <3>4
  <2> QED
    BY <2>1, <2>2, <2>3, DeliveredDown, DeliveredStart DEF Step, RunStep
<1>2. ASSUME NEW y \in End, y # x PROVE DeliveredAt(y)'
  <2>1. /\ lease'[y] = lease[y] /\ down'[y] = down[y] /\ dec'[y] = dec[y] /\ reader'[y] = reader[y]
        /\ got'[y] = got[y] /\ DeliveredAt(y)
    BY <1>0, <1>2, OtherEnd DEF Own, IInv, Delivered
  <2>2. CASE Start(x) /\ x = C
    <3>1. y = S /\ lease'[S] = lease[C] /\ lease'[C] = lease[C] + 1 /\ lease[C] \in Nat
      BY <1>2, <2>2, StartFacts DEF End, S, C
    <3>2. ~Here(y)'
      BY <3>1 DEF Here, Now
    <3> QED
      BY <3>2 DEF DeliveredAt
  <2>3. CASE Start(x) /\ x = S
    <3>1. lease'[C] = lease[C]
      BY <2>3, StartFacts DEF S, C
    <3> QED
      BY <2>1, <3>1 DEF DeliveredAt, Here, Now
  <2>4. CASE Moves(x)
    BY <2>1, <2>4, MovesFacts, DeliveredKept
  <2> QED
    BY <2>2, <2>3, <2>4 DEF Step, RunStep, Moves, End
<1> QED
  BY <1>1, <1>2 DEF Delivered

-----------------------------------------------------------------------------
(* The invariant.                                                           *)

LEMMA InitIInv == Init => IInv
<1> SUFFICES ASSUME Init PROVE IInv
  OBVIOUS
<1>0. Typed
  BY InitTyped
<1>1. Len(<<>>) = 0 /\ S \in End /\ C \in End
  BY EmptySeq DEF End
<1>2. /\ \A x \in End : /\ lease[x] = 0 /\ run[x] = Idle /\ first[x] = "ok" /\ results[x] = <<>>
                        /\ up[x] = NoUp /\ down[x] = "ended" /\ wire[x] = <<>> /\ over[x] = {}
                        /\ eof[x] = {}
                        /\ \A l \in Lease : sent[x][l] = <<>> /\ got[x][l] = <<>>
  BY DEF Init
<1>3. Now = 0 /\ lease[S] = 0
  BY <1>1, <1>2 DEF Now
<1>4. Fit
  BY <1>1, <1>2, RelayAssumption DEF Fit, Fits
<1>5. Leases
  <2>1. Order
    BY <1>3 DEF Order, Now
  <2>2. ASSUME NEW x \in End PROVE LeaseAt(x)
    BY <1>2 DEF LeaseAt, Lease
  <2>3. ASSUME NEW x \in End PROVE ClosedAt(x)
    BY <1>2 DEF ClosedAt
  <2> QED
    BY <2>1, <2>2, <2>3 DEF Leases
<1>6. Ends
  <2>1. ASSUME NEW x \in End PROVE PumpsAt(x) /\ NoCodecAt(x)
    <3>1. ~Running(x) /\ NoUp.at = "ended" /\ NoUp.out = <<>>
      BY <1>2 DEF Running, Idle, NoUp
    <3> QED
      BY <1>1, <1>2, <3>1 DEF PumpsAt, NoCodecAt
  <2> QED
    BY <2>1 DEF Ends
<1>7. InFlight /\ Delivered
  BY <1>3 DEF InFlight, Delivered, DeliveredAt
<1> QED
  BY <1>0, <1>4, <1>5, <1>6, <1>7 DEF IInv

LEMMA StepIInv ==
    ASSUME IInv, NEW x \in End, Step(x)
    PROVE  IInv'
<1>1. Typed' /\ Fit' /\ Order' /\ InFlight' /\ Delivered'
  BY TypedStep, FitStep, OrderStep, InFlightStep, DeliveredStep
<1>2. ASSUME NEW y \in End PROVE PumpsAt(y)' /\ NoCodecAt(y)' /\ LeaseAt(y)' /\ ClosedAt(y)'
  BY AtEndStep, ClosedStep DEF AtEnd
<1>3. Leases' /\ Ends'
  BY <1>1, <1>2 DEF Leases, Ends
<1> QED
  BY <1>1, <1>3 DEF IInv

LEMMA SameIInv ==
    ASSUME IInv, UNCHANGED vars
    PROVE  IInv'
<1> USE DEF vars, runVars, codecVars, sockVars, dataVars
<1>1. Typed' /\ Fit' /\ Order'
  BY DEF IInv, Leases, Typed, Fit, Order
<1>2. ASSUME NEW y \in End PROVE PumpsAt(y)' /\ NoCodecAt(y)' /\ LeaseAt(y)' /\ ClosedAt(y)'
  <2>1. PumpsAt(y) /\ NoCodecAt(y) /\ LeaseAt(y) /\ ClosedAt(y)
    BY DEF IInv, Leases, Ends
  <2>2. Own(y)' = Own(y)
    BY DEF Own
  <2>3. Now' = Now /\ Here(Peer(y))' = Here(Peer(y))
    BY Views
  <2>4. ClosedAt(y)'
    BY <2>1, <2>3 DEF ClosedAt
  <2> QED
    BY <2>1, <2>2, <2>4, OwnKept
<1>3. ASSUME NEW y \in End PROVE InFlightAt(y)' /\ DeliveredAt(y)'
  <2>1. InFlightAt(y) /\ DeliveredAt(y)
    BY DEF IInv, InFlight, InFlightAt, Delivered
  <2> QED
    BY <2>1, DirectionKept, DeliveredKept
<1>4. Leases' /\ Ends' /\ InFlight' /\ Delivered'
  BY <1>1, <1>2, <1>3 DEF Leases, Ends, InFlight, InFlightAt, Delivered
<1> QED
  BY <1>1, <1>4 DEF IInv

\* At every moment each direction of the lease under way is one compressed stream,
\* cut into what the decoder has taken, the reader holds, the frames carry and the
\* pump has still to write.
THEOREM RelayInvariant == Spec => []IInv
<1>1. Init => IInv
  BY InitIInv
<1>2. IInv /\ [Next]_vars => IInv'
  BY StepIInv, SameIInv DEF Next, Step, Quiet
<1> QED
  BY <1>1, <1>2, PTL DEF Spec

\* errorsCh holds two results at most.
LEMMA ResultsBound ==
    ASSUME IInv, NEW x \in End
    PROVE  Len(results[x]) <= 2
<1>1. PumpsAt(x) /\ results[x] \in Seq(Result)
  BY DEF IInv, Ends, Typed
<1>2. Len(results[x]) \in Nat
  BY <1>1, SeqFacts
<1> DEFINE a == Count(up[x].at = "ended")
           b == Count(down[x] = "ended")
           c == Count(run[x] = "second")
<1>3. a \in 0..1 /\ b \in 0..1 /\ c \in 0..1
  BY DEF Count
<1>4. Running(x) => Len(results[x]) + c = a + b
  BY <1>1 DEF PumpsAt
<1>5. ~Running(x) => Len(results[x]) = 0
  BY <1>1 DEF PumpsAt
<1> HIDE DEF a, b, c
<1>6. ASSUME NEW n \in Nat, NEW i \in 0..1, NEW j \in 0..1, NEW k \in 0..1, n + k = i + j
      PROVE  n <= 2
  BY <1>6
<1>7. CASE Running(x)
  BY <1>2, <1>3, <1>4, <1>6, <1>7
<1>8. CASE ~Running(x)
  BY <1>5, <1>8
<1> QED
  BY <1>7, <1>8

\* Every variable of the relay keeps its type, the frames under way never exceed the
\* socket buffers nor a frame its maximum, and errorsCh never blocks a pump
\* (relay.go's channel of two results).
THEOREM RelayTypeOK == Spec => []TypeOK
<1>1. IInv => TypeOK
  <2> SUFFICES ASSUME IInv PROVE TypeOK
    OBVIOUS
  <2>1. Typed /\ Fit
    BY DEF IInv
  <2>2. ASSUME NEW x \in End
        PROVE  /\ results[x] \in Seq(Result) /\ Len(results[x]) <= 2
               /\ up[x].at \in {"read", "flush", "close", "fin", "ended"}
               /\ wire[x] \in Seq(Frames) /\ Len(wire[x]) <= WireMax
               /\ \A i \in DOMAIN wire[x] : Len(wire[x][i].units) <= FrameMax
    <3>1. /\ results[x] \in Seq(Result) /\ wire[x] \in Seq(Frames) /\ up[x] \in Sender
          /\ Fits(wire[x])
      BY <2>1 DEF Typed, Fit
    <3>2. DOMAIN wire[x] = 1..Len(wire[x])
      BY <3>1, LenProperties
    <3>3. up[x].at \in {"read", "flush", "close", "fin", "ended"}
      BY <3>1 DEF Sender
    <3> QED
      BY <3>1, <3>2, <3>3, ResultsBound DEF Fits
  <2> QED
    BY <2>1, <2>2 DEF TypeOK, Typed
<1> QED
  BY <1>1, RelayInvariant, PTL

\* No pump ever reports an error of the codec or a frame of another lease, whatever
\* failed in the leases before and however the two ends interleave: Reset and the
\* end of a stream leave nothing behind.
THEOREM RelayNoCodecError == Spec => []NoCodecError
<1>1. IInv => NoCodecError
  <2> SUFFICES ASSUME IInv, NEW x \in End
               PROVE  first[x] # "codec" /\ \A i \in DOMAIN results[x] : results[x][i] # "codec"
    BY DEF NoCodecError
  <2>1. NoCodecAt(x) /\ results[x] \in Seq(Result)
    BY DEF IInv, Ends, Typed
  <2>2. DOMAIN results[x] = 1..Len(results[x])
    BY <2>1, LenProperties
  <2> QED
    BY <2>1, <2>2 DEF NoCodecAt
<1> QED
  BY <1>1, RelayInvariant, PTL

-----------------------------------------------------------------------------
(* The relay implements Duplex.                                             *)

\* Data of a lease moves only after both ends have seen every earlier one end.
LEMMA BegunNow ==
    ASSUME IInv
    PROVE  Abs!Begun(Now)
<1> SUFFICES ASSUME NEW x \in End, NEW k \in Lease, k < Now PROVE k \in over[x]
  BY DEF Abs!Begun
<1>1. Order /\ LeaseAt(x) /\ Typed
  BY DEF IInv, Leases
<1>a. S \in End /\ C \in End /\ lease \in [End -> 0..MaxLease] /\ MaxLease \in Nat
  BY <1>1, RelayAssumption DEF Typed, End
<1>2. k \in Nat /\ k > 0 /\ lease[x] \in Nat /\ lease[S] \in Nat /\ lease[C] \in Nat
  BY <1>a DEF Lease
<1>3. CASE k < lease[x]
  BY <1>1, <1>3 DEF LeaseAt
<1>4. CASE ~(k < lease[x])
  <2>1. x = S /\ lease[S] = k /\ lease[S] # lease[C]
    BY <1>1, <1>2, <1>4 DEF Order, Now, End
  <2>2. run[x] = Idle /\ lease[x] > 0
    BY <1>1, <1>2, <2>1 DEF Order
  <2> QED
    BY <1>1, <2>1, <2>2 DEF LeaseAt
<1> QED
  BY <1>3, <1>4

LEMMA ReadSends ==
    ASSUME IInv, NEW x \in End, ReadLocal(x)
    PROVE  \E c \in Chunk : Abs!Send(x, Now, c)
<1> USE DEF still, runVars, codecVars, sockVars, dataVars
<1>0. Typed /\ PumpsAt(x)
  BY DEF IInv, Ends
<1>1. up[x].at = "read" /\ Len(sent[x][lease[x]]) < MaxChunks /\ local[x] = "open"
  BY DEF ReadLocal
<1>2. Running(x) /\ lease[x] = Now /\ Now \in Lease
  BY <1>1, RunningFacts
<1> DEFINE c == (lease[x] - 1) * MaxChunks + Len(sent[x][lease[x]]) + 1
<1>3. c \in Chunk
  <2>1. Len(sent[x][lease[x]]) \in Nat
    BY <1>0, <1>2, SizeType DEF Typed
  <2> QED
    BY <1>1, <1>2, <2>1, ChunkType
<1>4. /\ sent' = [sent EXCEPT ![x][lease[x]] = Append(@, c)]
      /\ UNCHANGED <<got, eof, over>>
  BY DEF ReadLocal
<1> HIDE DEF c
<1>5. Now \notin eof[x]
  BY <1>0, <1>1, <1>2 DEF PumpsAt
<1>6. Abs!Send(x, Now, c)
  BY <1>2, <1>4, <1>5, BegunNow DEF Abs!Send
<1> QED
  BY <1>3, <1>6

LEMMA LocalSendsEnd ==
    ASSUME IInv, NEW x \in End, LocalEnds(x)
    PROVE  Now \in Lease /\ Abs!SendEnd(x, Now)
<1> USE DEF still, runVars, codecVars, sockVars, dataVars
<1>0. PumpsAt(x)
  BY DEF IInv, Ends
<1>1. /\ Running(x) /\ local[x] = "open" /\ eof' = [eof EXCEPT ![x] = @ \cup {lease[x]}]
      /\ UNCHANGED <<sent, got, over>>
  BY DEF LocalEnds
<1>2. lease[x] = Now /\ Now \in Lease
  BY <1>1, RunningFacts
<1>3. Now \notin eof[x]
  BY <1>0, <1>1, <1>2 DEF PumpsAt
<1> QED
  BY <1>1, <1>2, <1>3, BegunNow DEF Abs!SendEnd

LEMMA NotOver ==
    ASSUME IInv, NEW x \in End, down[x] # "ended"
    PROVE  Now \notin over[x]
  BY DEF IInv, Leases, ClosedAt

LEMMA WriteReceives ==
    ASSUME IInv, NEW x \in End, WriteLocal(x)
    PROVE  Now \in Lease /\ Abs!Receive(x, Peer(x), Now)
<1> USE DEF still, runVars, codecVars, sockVars, dataVars
<1> DEFINE q == dec[x].chunks
           s == sent[Peer(x)][Now]
<1>0. Typed /\ DeliveredAt(x) /\ Peer(x) # x
  BY PeerFacts DEF IInv, Delivered
<1>1. /\ down[x] = "write" /\ got' = [got EXCEPT ![x][lease[x]] = Append(@, Last(q))]
      /\ UNCHANGED <<sent, eof, over>>
  BY DEF WriteLocal
<1>2. lease[x] = Now /\ Now \in Lease /\ Now > 0 /\ Here(x)
  BY <1>1, RunningFacts
<1>3. q # <<>> /\ got[x][Now] = Front(q)
  BY <1>0, <1>1, <1>2 DEF DeliveredAt
<1>4. /\ Len(Front(q)) = Len(q) - 1 /\ Len(q) <= Len(s) /\ Last(q) = s[Len(q)] /\ Len(q) >= 1
  BY <1>1, <1>3, Incoming, FlightChunk
<1>5. Len(q) \in Nat /\ Len(s) \in Nat
  <2>1. q \in Seq(Chunk) /\ s \in Seq(Chunk)
    BY <1>1, Incoming DEF Decoder
  <2> QED
    BY <2>1, SeqFacts
<1> HIDE DEF q, s
<1>6. Len(got[x][Now]) < Len(s) /\ Len(got[x][Now]) + 1 = Len(q)
  BY <1>3, <1>4, <1>5
<1>7. Last(q) = s[Len(got[x][Now]) + 1]
  BY <1>4, <1>6
<1>8. got' = [got EXCEPT ![x][Now] = Append(@, s[Len(@) + 1])]
  BY <1>1, <1>2, <1>7
<1> QED
  BY <1>0, <1>1, <1>2, <1>6, <1>8, NotOver DEF Abs!Receive, s

LEMMA HalfCloseReceivesEnd ==
    ASSUME IInv, NEW x \in End, HalfClose(x)
    PROVE  Now \in Lease /\ Abs!ReceiveEnd(x, Peer(x), Now)
<1> USE DEF still, runVars, codecVars, sockVars, dataVars
<1> DEFINE s == sent[Peer(x)][Now]
<1>0. DeliveredAt(x) /\ Peer(x) # x /\ Ended(Peer(x)) \in BOOLEAN
  BY PeerFacts DEF IInv, Delivered, Ended
<1>1. /\ down[x] = "halfclose" /\ over' = [over EXCEPT ![x] = @ \cup {lease[x]}]
      /\ UNCHANGED <<sent, got, eof>>
  BY DEF HalfClose
<1>2. lease[x] = Now /\ Now \in Lease /\ Now > 0 /\ Here(x)
  BY <1>1, RunningFacts
<1>3. reader[x].fin /\ got[x][Now] = dec[x].chunks
  BY <1>0, <1>1, <1>2 DEF DeliveredAt
<1>4. dec[x].chunks = s /\ Ended(Peer(x))
  BY <1>0, <1>1, <1>3, Incoming, FlightWhole
<1>5. Now \in eof[Peer(x)] /\ got[x][Now] = sent[Peer(x)][Now]
  BY <1>3, <1>4 DEF Ended
<1> QED
  BY <1>0, <1>1, <1>2, <1>5, NotOver DEF Abs!ReceiveEnd

\* What reaches the local peers through compression, framing, the sockets and the
\* reuse of a connection is what Duplex allows: chunks sent, in order and once, an
\* end only after all of them, and nothing of a lease before the last one is over.
THEOREM RelayImplementsDuplex == Spec => ImplementsDuplex
<1> USE DEF still, runVars, codecVars, sockVars, dataVars
<1>1. Init => Abs!Init
  BY DEF Init, Abs!Init
<1>2. ASSUME IInv, NEW x \in End, Step(x) PROVE Abs!Next \/ UNCHANGED Abs!vars
  <2>0. Peer(x) \in End
    BY PeerFacts
  <2>1. CASE ReadLocal(x)
    <3>1. Now \in Lease
      BY <1>2, <2>1, RunningFacts DEF ReadLocal
    <3> QED
      BY <1>2, <2>1, <3>1, ReadSends DEF Abs!Next
  <2>2. CASE LocalEnds(x)
    BY <1>2, <2>2, LocalSendsEnd DEF Abs!Next
  <2>3. CASE WriteLocal(x)
    BY <1>2, <2>0, <2>3, WriteReceives DEF Abs!Next
  <2>4. CASE HalfClose(x)
    BY <1>2, <2>0, <2>4, HalfCloseReceivesEnd DEF Abs!Next
  <2>5. CASE UNCHANGED dataVars
    BY <2>5 DEF Abs!vars
  <2>6. UpStep(x) \/ RunStep(x) \/ GoesWrong(x) => UNCHANGED dataVars
    BY DEF UpStep, ReadEnd, WriteFrame, WriteFin, UpFails, RunStep, Start, TakeFirst, TakeSecond,
           GoesWrong, LocalResets, Forced, Cancelled, WriteTimesOut
  <2>7. DownStep(x) => UNCHANGED dataVars \/ WriteLocal(x) \/ HalfClose(x)
    BY DEF DownStep, Receives, Decode, CopyEnds, Finish, DownFails
  <2> QED
    BY <1>2, <2>1, <2>2, <2>3, <2>4, <2>5, <2>6, <2>7 DEF Step, LocalStep
<1>3. ASSUME UNCHANGED vars PROVE UNCHANGED Abs!vars
  BY <1>3 DEF vars, Abs!vars
<1>4. IInv /\ [Next]_vars => [Abs!Next]_(Abs!vars)
  BY <1>2, <1>3 DEF Next, Step, Quiet
<1> QED
  BY <1>1, <1>4, RelayInvariant, PTL DEF Spec, ImplementsDuplex, Abs!Spec
=============================================================================
