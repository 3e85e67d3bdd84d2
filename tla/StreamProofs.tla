---------------------------- MODULE StreamProofs ----------------------------
(***************************************************************************)
(* The noise connection implements Channel, for any length of a header, a  *)
(* payload and a record, any number of frames and any damage to the        *)
(* records.                                                                *)
(***************************************************************************)
EXTENDS Stream, SequenceTheorems, TLAPS

Record == [n : Nat, bytes : Seq(AByte), intact : BOOLEAN]
Typed ==
    /\ sent \in Seq(0..MaxPayload) /\ Len(sent) <= MaxFrames
    /\ received \in Seq(0..Garbled) /\ calls \in Seq(Seq(AByte))
    /\ pending \in Seq(AByte) /\ Len(pending) <= Chunk /\ buf \in Seq(AByte)
    /\ sendN \in Nat /\ recvN \in Nat /\ faults \in 0..MaxFaults
    /\ open \in [{W, R} -> BOOLEAN] /\ failed \in BOOLEAN

-----------------------------------------------------------------------------
(* The bytes of a connection: all that WriteFrame was given, one frame      *)
(* after another.                                                           *)

\* q is what str holds after a up to z.
Part(str, q, a, z) ==
    /\ a \in Nat /\ z = a + Len(q) /\ z <= Len(str)
    /\ \A j \in 1..Len(q) : q[j] = str[a + j]

\* str is the frames of the lengths s; off says where each ends.
Laid(s, str, off) ==
    /\ str \in Seq(AByte) /\ off \in [0..Len(s) -> Nat]
    /\ off[0] = 0 /\ off[Len(s)] = Len(str)
    /\ \A f \in 1..Len(s) : Part(str, Bytes(f, s[f]), off[f - 1], off[f])

\* Of n records written the record i is what str holds after cut[i] up to
\* cut[i + 1]; those under way that are intact are among them.
Intact(r, n, str, cut) ==
    r.intact => r.n \in 0..n - 1 /\ Part(str, r.bytes, cut[r.n], cut[r.n + 1])
Sound(n, str, cut) ==
    {r \in Record : Len(r.bytes) \in 1..Chunk /\ Intact(r, n, str, cut)}
Recorded(w, n, str, cut) ==
    /\ cut \in [0..n -> Nat] /\ cut[0] = 0
    /\ w \in Seq(Sound(n, str, cut))

\* What WriteFrame has still to write is the rest of str after a.
Unwritten(q, str, a) ==
    \/ Len(q) = 0 /\ a = Len(str)
    \/ Len(q) = 1 /\ q[1] # <<>> /\ Part(str, q[1], a, Len(str))
    \/ Len(q) = 2 /\ q[1] # <<>> /\ q[2] # <<>>
       /\ \E m \in Nat : Part(str, q[1], a, m) /\ Part(str, q[2], m, Len(str))

\* What ReadFrame has of its frame, from a, and what is pending, up to z.
Partial(b, p, str, a, z) == \E m \in Nat : Part(str, b, a, m) /\ Part(str, p, m, z)
Begun(b, s, k) == b # <<>> => k < Len(s) /\ Len(b) <= Header + s[k + 1]

Carries(str, off, cut) ==
    /\ Laid(sent, str, off) /\ Recorded(wire, sendN, str, cut)
    /\ Unwritten(calls, str, cut[sendN])
    /\ recvN <= sendN /\ Len(received) <= Len(sent)
    /\ Partial(buf, pending, str, off[Len(received)], cut[recvN])
    /\ Begun(buf, sent, Len(received))
IInv == Typed /\ \E str, off, cut : Carries(str, off, cut)

-----------------------------------------------------------------------------
(* Lemmas about the parts of a sequence.                                    *)

LEMMA SeqFacts ==
    ASSUME NEW T, NEW q \in Seq(T)
    PROVE  /\ Len(q) \in Nat /\ \A j \in 1..Len(q) : q[j] \in T
           /\ q = <<>> <=> Len(q) = 0
  BY ElementOfSeq, LenProperties, EmptySeq

LEMMA AppendFacts ==
    ASSUME NEW T, NEW q \in Seq(T), NEW v \in T
    PROVE  /\ Append(q, v) \in Seq(T) /\ Len(Append(q, v)) = Len(q) + 1
           /\ \A j \in 1..Len(q) : Append(q, v)[j] = q[j]
           /\ Append(q, v)[Len(q) + 1] = v
  BY AppendProperties, LenProperties

LEMMA TailFacts ==
    ASSUME NEW T, NEW q \in Seq(T), q # <<>>
    PROVE  /\ Head(q) \in T /\ Head(q) = q[1]
           /\ Tail(q) \in Seq(T) /\ Len(Tail(q)) = Len(q) - 1 /\ Len(q) >= 1
           /\ \A j \in 1..Len(q) - 1 : Tail(q)[j] = q[j + 1]
  BY SeqFacts, HeadTailProperties, LenProperties

LEMMA ConcatFacts ==
    ASSUME NEW T, NEW q \in Seq(T), NEW p \in Seq(T)
    PROVE  /\ q \o p \in Seq(T) /\ Len(q \o p) = Len(q) + Len(p)
           /\ \A j \in 1..Len(q) : (q \o p)[j] = q[j]
           /\ \A j \in 1..Len(p) : (q \o p)[Len(q) + j] = p[j]
<1>1. Len(q) \in Nat /\ Len(p) \in Nat
  BY SeqFacts
<1>2. /\ q \o p \in Seq(T) /\ Len(q \o p) = Len(q) + Len(p)
      /\ \A i \in 1..Len(q) + Len(p) : (q \o p)[i] = IF i <= Len(q) THEN q[i] ELSE p[i - Len(q)]
  BY ConcatProperties
<1>3. ASSUME NEW j \in 1..Len(q) PROVE (q \o p)[j] = q[j]
  BY <1>1, <1>2
<1>4. ASSUME NEW j \in 1..Len(p) PROVE (q \o p)[Len(q) + j] = p[j]
  <2>1. /\ Len(q) + j \in 1..Len(q) + Len(p) /\ ~(Len(q) + j <= Len(q))
        /\ Len(q) + j - Len(q) = j
    BY <1>1
  <2> QED
    BY <1>2, <2>1
<1> QED
  BY <1>2, <1>3, <1>4

\* The first n elements and the others.
LEMMA SplitFacts ==
    ASSUME NEW T, NEW q \in Seq(T), NEW n \in 0..Len(q)
    PROVE  /\ SubSeq(q, 1, n) \in Seq(T) /\ Len(SubSeq(q, 1, n)) = n
           /\ \A j \in 1..n : SubSeq(q, 1, n)[j] = q[j]
           /\ SubSeq(q, n + 1, Len(q)) \in Seq(T) /\ Len(SubSeq(q, n + 1, Len(q))) = Len(q) - n
           /\ \A j \in 1..Len(q) - n : SubSeq(q, n + 1, Len(q))[j] = q[n + j]
<1> DEFINE f == SubSeq(q, 1, n)
           g == SubSeq(q, n + 1, Len(q))
<1>1. Len(q) \in Nat /\ n \in Nat /\ n <= Len(q) /\ \A j \in 1..Len(q) : q[j] \in T
  BY SeqFacts
<1>2. f \in Seq(T) /\ Len(f) = n /\ \A j \in 1..n : f[j] = q[j]
  <2>1. \A i \in 1..n : q[i] \in T
    BY <1>1
  <2>2. /\ f \in Seq(T) /\ Len(f) = (IF 1 <= n THEN n - 1 + 1 ELSE 0)
        /\ \A i \in 1..n - 1 + 1 : f[i] = q[1 + i - 1]
    BY <1>1, <2>1, SubSeqProperties
  <2> HIDE DEF f
  <2> QED
    BY <1>1, <2>2
<1>3. g \in Seq(T) /\ Len(g) = Len(q) - n /\ \A j \in 1..Len(q) - n : g[j] = q[n + j]
  <2> DEFINE a == n + 1
             b == Len(q)
  <2>1. a \in Int /\ b \in Int /\ \A i \in a..b : q[i] \in T
    BY <1>1
  <2>2. /\ g \in Seq(T) /\ Len(g) = (IF a <= b THEN b - a + 1 ELSE 0)
        /\ \A i \in 1..b - a + 1 : g[i] = q[a + i - 1]
    BY <2>1, SubSeqProperties
  <2>3. b - a + 1 = b - n /\ (~(a <= b) => b - n = 0)
    BY <1>1
  <2>4. ASSUME NEW j \in 1..b - n PROVE g[j] = q[n + j]
    <3>1. j \in Nat /\ a + j - 1 = n + j
      BY <1>1
    <3>2. j \in 1..b - a + 1
      BY <2>3, <2>4
    <3> QED
      BY <2>2, <3>1, <3>2
  <2> HIDE DEF g
  <2> QED
    BY <2>2, <2>3, <2>4
<1> QED
  BY <1>2, <1>3

LEMMA BytesFacts ==
    ASSUME NEW f \in 1..MaxFrames, NEW n \in 0..MaxPayload
    PROVE  /\ Bytes(f, n) \in Seq(AByte) /\ Len(Bytes(f, n)) = Header + n
           /\ \A i \in 1..Header + n : Bytes(f, n)[i] = Byte(f, i, n)
<1>1. Header \in Nat /\ MaxPayload \in Nat /\ Header + n \in Nat
  BY StreamAssumption
<1>2. ASSUME NEW i \in 1..Header + n PROVE Byte(f, i, n) \in AByte
  <2>1. i \in 1..Header + MaxPayload
    BY <1>1
  <2> QED
    BY <2>1 DEF Byte, AByte
<1>3. Bytes(f, n) \in [1..Header + n -> AByte]
  BY <1>2 DEF Bytes
<1>4. Bytes(f, n) \in Seq(AByte)
  BY <1>1, <1>3, IsASeq
<1>5. Len(Bytes(f, n)) = Header + n
  BY <1>1, <1>3, <1>4, LenProperties
<1> QED
  BY <1>4, <1>5 DEF Bytes

LEMMA PartNone ==
    ASSUME NEW str \in Seq(AByte), NEW a \in 0..Len(str)
    PROVE  Part(str, <<>>, a, a)
<1>1. Len(<<>>) = 0 /\ Len(str) \in Nat
  BY EmptySeq, SeqFacts
<1> QED
  BY <1>1 DEF Part

\* What was written is not changed by what is written next.
LEMMA PartGrows ==
    ASSUME NEW str \in Seq(AByte), NEW t \in Seq(AByte), NEW q \in Seq(AByte), NEW a, NEW z,
           Part(str, q, a, z)
    PROVE  Part(str \o t, q, a, z)
<1>1. /\ Len(str) \in Nat /\ Len(t) \in Nat /\ Len(q) \in Nat /\ Len(str \o t) = Len(str) + Len(t)
      /\ \A j \in 1..Len(str) : (str \o t)[j] = str[j]
  BY ConcatFacts, SeqFacts
<1>2. a \in Nat /\ z = a + Len(q) /\ z <= Len(str)
  BY DEF Part
<1>3. ASSUME NEW j \in 1..Len(q) PROVE q[j] = (str \o t)[a + j]
  <2>1. a + j \in 1..Len(str)
    BY <1>1, <1>2
  <2> QED
    BY <1>1, <2>1 DEF Part
<1> QED
  BY <1>1, <1>2, <1>3 DEF Part

LEMMA PartSplit ==
    ASSUME NEW str \in Seq(AByte), NEW q \in Seq(AByte), NEW a, NEW z, Part(str, q, a, z),
           NEW n \in 0..Len(q)
    PROVE  /\ Part(str, SubSeq(q, 1, n), a, a + n)
           /\ Part(str, SubSeq(q, n + 1, Len(q)), a + n, z)
<1> DEFINE f == SubSeq(q, 1, n)
           g == SubSeq(q, n + 1, Len(q))
<1>1. /\ Len(f) = n /\ (\A j \in 1..n : f[j] = q[j])
      /\ Len(g) = Len(q) - n /\ \A j \in 1..Len(q) - n : g[j] = q[n + j]
  BY SplitFacts
<1>2. /\ a \in Nat /\ z = a + Len(q) /\ z <= Len(str) /\ Len(q) \in Nat /\ Len(str) \in Nat
      /\ n \in Nat /\ n <= Len(q) /\ \A j \in 1..Len(q) : q[j] = str[a + j]
  BY SeqFacts DEF Part
<1> HIDE DEF f, g
<1>3. ASSUME NEW j \in 1..n PROVE f[j] = str[a + j]
  BY <1>1, <1>2
<1>4. ASSUME NEW j \in 1..Len(q) - n PROVE g[j] = str[a + n + j]
  <2>1. n + j \in 1..Len(q) /\ a + (n + j) = a + n + j
    BY <1>2
  <2> QED
    BY <1>1, <1>2, <2>1
<1>5. Part(str, f, a, a + n)
  BY <1>1, <1>2, <1>3 DEF Part
<1>6. Part(str, g, a + n, z)
  BY <1>1, <1>2, <1>4 DEF Part
<1> QED
  BY <1>5, <1>6 DEF f, g

LEMMA PartJoin ==
    ASSUME NEW str \in Seq(AByte), NEW q \in Seq(AByte), NEW p \in Seq(AByte), NEW a, NEW m, NEW z,
           Part(str, q, a, m), Part(str, p, m, z)
    PROVE  Part(str, q \o p, a, z)
<1>1. /\ Len(q) \in Nat /\ Len(p) \in Nat /\ Len(q \o p) = Len(q) + Len(p)
      /\ \A j \in 1..Len(q) : (q \o p)[j] = q[j]
      /\ \A j \in 1..Len(p) : (q \o p)[Len(q) + j] = p[j]
  BY ConcatFacts, SeqFacts
<1>2. /\ a \in Nat /\ m = a + Len(q) /\ z = m + Len(p) /\ z <= Len(str)
      /\ \A j \in 1..Len(q) : q[j] = str[a + j]
      /\ \A j \in 1..Len(p) : p[j] = str[m + j]
  BY DEF Part
<1> DEFINE r == q \o p
<1> HIDE DEF r
<1>3. /\ Len(r) = Len(q) + Len(p) /\ (\A j \in 1..Len(q) : r[j] = q[j])
      /\ \A j \in 1..Len(p) : r[Len(q) + j] = p[j]
  BY <1>1 DEF r
<1>4. ASSUME NEW j \in 1..Len(r) PROVE r[j] = str[a + j]
  <2>1. CASE j \in 1..Len(q)
    BY <1>2, <1>3, <2>1
  <2>2. CASE j - Len(q) \in 1..Len(p)
    <3> DEFINE i == j - Len(q)
    <3>1. Len(q) + i = j /\ m + i = a + j
      BY <1>1, <1>2
    <3>2. i \in 1..Len(p)
      BY <2>2
    <3> HIDE DEF i
    <3>3. r[Len(q) + i] = p[i] /\ p[i] = str[m + i]
      BY <1>2, <1>3, <3>2
    <3> QED
      BY <3>1, <3>3
  <2>3. j \in 1..Len(q) \/ j - Len(q) \in 1..Len(p)
    BY <1>1, <1>3
  <2> QED
    BY <2>1, <2>2, <2>3
<1>5. z = a + Len(r)
  BY <1>1, <1>2, <1>3
<1> QED
  BY <1>2, <1>4, <1>5 DEF Part, r

-----------------------------------------------------------------------------
(* What a Write, a Read and damage do to the parts.                         *)

\* A frame is added to the stream.
LEMMA LaidMore ==
    ASSUME NEW s \in Seq(0..MaxPayload), Len(s) < MaxFrames, NEW str, NEW off,
           Laid(s, str, off), NEW n \in 0..MaxPayload
    PROVE  LET b == Bytes(Len(s) + 1, n)
               t == str \o b
               g == [i \in 0..Len(s) + 1 |-> IF i <= Len(s) THEN off[i] ELSE Len(t)]
           IN  /\ Laid(Append(s, n), t, g) /\ \A i \in 0..Len(s) : g[i] = off[i]
               /\ str \in Seq(AByte) /\ b \in Seq(AByte) /\ Len(b) = Header + n
               /\ Part(t, b, Len(str), Len(t))
<1> DEFINE b == Bytes(Len(s) + 1, n)
           t == str \o b
           g == [i \in 0..Len(s) + 1 |-> IF i <= Len(s) THEN off[i] ELSE Len(t)]
           v == Append(s, n)
<1>1. /\ str \in Seq(AByte) /\ off \in [0..Len(s) -> Nat] /\ off[0] = 0 /\ off[Len(s)] = Len(str)
      /\ \A f \in 1..Len(s) : Part(str, Bytes(f, s[f]), off[f - 1], off[f])
  BY DEF Laid
<1>2. /\ Len(s) \in Nat /\ Len(str) \in Nat /\ MaxFrames \in Nat /\ Header \in Nat
      /\ \A i \in 1..Len(s) : s[i] \in 0..MaxPayload
  BY <1>1, SeqFacts, StreamAssumption
<1>3. b \in Seq(AByte) /\ Len(b) = Header + n
  <2>1. Len(s) + 1 \in 1..MaxFrames
    BY <1>2
  <2> QED
    BY <2>1, BytesFacts
<1>4. /\ t \in Seq(AByte) /\ Len(t) = Len(str) + Len(b) /\ Len(t) \in Nat
      /\ \A j \in 1..Len(b) : t[Len(str) + j] = b[j]
  BY <1>1, <1>3, ConcatFacts, SeqFacts
<1>5. Len(v) = Len(s) + 1 /\ v[Len(s) + 1] = n /\ \A i \in 1..Len(s) : v[i] = s[i]
  BY AppendFacts
<1>6. Part(t, b, Len(str), Len(t))
  <2> HIDE DEF t, b
  <2> QED
    BY <1>2, <1>4 DEF Part
<1>g. /\ g[Len(s) + 1] = Len(t) /\ (\A i \in 0..Len(s) : g[i] = off[i])
      /\ g \in [0..Len(s) + 1 -> Nat]
  <2> HIDE DEF t
  <2>1. Len(s) + 1 \in 0..Len(s) + 1 /\ ~(Len(s) + 1 <= Len(s))
    BY <1>2
  <2>2. ASSUME NEW i \in 0..Len(s) PROVE i \in 0..Len(s) + 1 /\ i <= Len(s)
    BY <1>2
  <2>3. ASSUME NEW i \in 0..Len(s) + 1, i <= Len(s) PROVE off[i] \in Nat
    <3>1. i \in 0..Len(s)
      BY <1>2, <2>3
    <3> QED
      BY <1>1, <3>1
  <2> QED
    BY <1>4, <2>1, <2>2, <2>3
<1> HIDE DEF g
<1>7. ASSUME NEW f \in 1..Len(s) + 1 PROVE Part(t, Bytes(f, v[f]), g[f - 1], g[f])
  <2>1. CASE f \in 1..Len(s)
    <3>1. f - 1 \in 0..Len(s) /\ f \in 0..Len(s) /\ f \in 1..MaxFrames
      BY <1>2, <2>1
    <3>2. g[f - 1] = off[f - 1] /\ g[f] = off[f] /\ v[f] = s[f] /\ s[f] \in 0..MaxPayload
      BY <1>2, <1>5, <1>g, <2>1, <3>1
    <3>3. Bytes(f, s[f]) \in Seq(AByte)
      BY <3>1, <3>2, BytesFacts
    <3>4. Part(t, Bytes(f, s[f]), off[f - 1], off[f])
      BY <1>1, <1>3, <2>1, <3>3, PartGrows
    <3> QED
      BY <3>2, <3>4
  <2>2. CASE f = Len(s) + 1
    <3>1. f - 1 = Len(s) /\ Len(s) \in 0..Len(s)
      BY <1>2, <2>2
    <3>2. g[f - 1] = Len(str) /\ g[f] = Len(t) /\ v[f] = n
      BY <1>1, <1>5, <1>g, <2>2, <3>1
    <3> QED
      BY <1>6, <2>2, <3>2
  <2> QED
    BY <1>2, <2>1, <2>2
<1>8. g[0] = 0 /\ g[Len(v)] = Len(t) /\ g \in [0..Len(v) -> Nat]
  <2>1. 0 \in 0..Len(s)
    BY <1>2
  <2> QED
    BY <1>1, <1>5, <1>g, <2>1
<1>9. Laid(v, t, g)
  BY <1>4, <1>5, <1>7, <1>8 DEF Laid
<1> QED
  BY <1>1, <1>3, <1>6, <1>9, <1>g DEF g

LEMMA RecordedGrows ==
    ASSUME NEW w, NEW n \in Nat, NEW str \in Seq(AByte), NEW cut, Recorded(w, n, str, cut),
           NEW t \in Seq(AByte)
    PROVE  Recorded(w, n, str \o t, cut)
<1>1. ASSUME NEW r \in Sound(n, str, cut) PROVE r \in Sound(n, str \o t, cut)
  <2>1. r \in Record /\ Len(r.bytes) \in 1..Chunk /\ Intact(r, n, str, cut) /\ r.bytes \in Seq(AByte)
    BY DEF Sound, Record
  <2>2. Intact(r, n, str \o t, cut)
    BY <2>1, PartGrows DEF Intact
  <2> QED
    BY <2>1, <2>2 DEF Sound
<1>2. w \in Seq(Sound(n, str \o t, cut))
  BY <1>1, SeqMonotonic DEF Recorded
<1> QED
  BY <1>2 DEF Recorded

\* A record is written: v, the record n, whose bytes end at z.
Fresh(v, n, q) == v \in Record /\ v.n = n /\ v.bytes = q /\ v.intact = TRUE
Further(g, cut, n, z) == g[n + 1] = z /\ \A i \in 0..n : g[i] = cut[i]
LEMMA RecordedMore ==
    ASSUME NEW w, NEW n \in Nat, NEW str \in Seq(AByte), NEW cut, Recorded(w, n, str, cut),
           NEW q \in Seq(AByte), NEW z \in Nat, Part(str, q, cut[n], z), Len(q) \in 1..Chunk,
           NEW v, Fresh(v, n, q)
    PROVE  \E g : Recorded(Append(w, v), n + 1, str, g) /\ Further(g, cut, n, z)
<1> DEFINE g == [i \in 0..n + 1 |-> IF i <= n THEN cut[i] ELSE z]
<1>1. cut \in [0..n -> Nat] /\ cut[0] = 0 /\ w \in Seq(Sound(n, str, cut))
  BY DEF Recorded
<1>g. g \in [0..n + 1 -> Nat] /\ g[n + 1] = z /\ \A i \in 0..n : g[i] = cut[i]
  <2>1. n + 1 \in 0..n + 1 /\ ~(n + 1 <= n)
    OBVIOUS
  <2>2. ASSUME NEW i \in 0..n PROVE i \in 0..n + 1 /\ i <= n
    OBVIOUS
  <2>3. ASSUME NEW i \in 0..n + 1, i <= n PROVE cut[i] \in Nat
    <3>1. i \in 0..n
      BY <2>3
    <3> QED
      BY <1>1, <3>1
  <2> QED
    BY <2>1, <2>2, <2>3
<1> HIDE DEF g
<1>2. ASSUME NEW r \in Sound(n, str, cut) PROVE r \in Sound(n + 1, str, g)
  <2>1. r \in Record /\ Len(r.bytes) \in 1..Chunk /\ Intact(r, n, str, cut)
    BY DEF Sound
  <2>2. Intact(r, n + 1, str, g)
    <3> SUFFICES ASSUME r.intact
                 PROVE  r.n \in 0..n + 1 - 1 /\ Part(str, r.bytes, g[r.n], g[r.n + 1])
      BY DEF Intact
    <3>1. r.n \in 0..n - 1 /\ Part(str, r.bytes, cut[r.n], cut[r.n + 1])
      BY <2>1 DEF Intact
    <3>2. r.n \in 0..n + 1 - 1 /\ r.n \in 0..n /\ r.n + 1 \in 0..n
      BY <3>1
    <3> QED
      BY <1>g, <3>1, <3>2
  <2> QED
    BY <2>1, <2>2 DEF Sound
<1>3. v \in Sound(n + 1, str, g)
  <2>1. v.n = n /\ v.bytes = q /\ v.intact = TRUE /\ v \in Record
    BY DEF Fresh
  <2>2. n \in 0..n + 1 - 1 /\ n \in 0..n
    OBVIOUS
  <2>3. Part(str, q, g[n], g[n + 1])
    BY <1>g, <2>2
  <2>4. Intact(v, n + 1, str, g)
    BY <2>1, <2>2, <2>3 DEF Intact
  <2> QED
    BY <2>1, <2>4 DEF Sound
<1>4. w \in Seq(Sound(n + 1, str, g))
  BY <1>1, <1>2, SeqMonotonic
<1>5. Append(w, v) \in Seq(Sound(n + 1, str, g))
  BY <1>3, <1>4, AppendFacts
<1>6. g[0] = 0
  <2>1. 0 \in 0..n
    OBVIOUS
  <2> QED
    BY <1>1, <1>g, <2>1
<1>7. Recorded(Append(w, v), n + 1, str, g)
  BY <1>5, <1>6, <1>g DEF Recorded
<1> QED
  BY <1>7, <1>g DEF Further

\* Records are lost, repeated and changed; none is forged.
LEMMA RecordedLess ==
    ASSUME NEW w, NEW n \in Nat, NEW str, NEW cut, Recorded(w, n, str, cut), w # <<>>
    PROVE  /\ Recorded(Tail(w), n, str, cut) /\ Head(w) \in Sound(n, str, cut)
  BY TailFacts DEF Recorded

LEMMA RecordedTorn ==
    ASSUME NEW w, NEW n \in Nat, NEW str, NEW cut, Recorded(w, n, str, cut),
           NEW r \in Record, Len(r.bytes) \in 1..Chunk, ~r.intact
    PROVE  Recorded(Append(w, r), n, str, cut)
<1>1. r \in Sound(n, str, cut)
  BY DEF Sound, Intact
<1> QED
  BY <1>1, AppendFacts DEF Recorded

LEMMA RecordedDamaged ==
    ASSUME NEW w, NEW n \in Nat, NEW str, NEW cut, Recorded(w, n, str, cut), NEW i \in DOMAIN w,
           NEW v, \/ v \in {[w EXCEPT ![i].intact = FALSE], InsertAt(w, i, w[i])}
                  \/ i < Len(w) /\ v = RemoveAt(w, i)
    PROVE  Recorded(v, n, str, cut)
<1> DEFINE T == Sound(n, str, cut)
<1>1. w \in Seq(T) /\ cut \in [0..n -> Nat] /\ cut[0] = 0
  BY DEF Recorded
<1>t. \A r \in T : r \in Record /\ Len(r.bytes) \in 1..Chunk
  BY DEF Sound
<1>s. ASSUME NEW r \in Record, Len(r.bytes) \in 1..Chunk, ~r.intact PROVE r \in T
  BY <1>s DEF Sound, Intact
<1> HIDE DEF T
<1>2. /\ DOMAIN w = 1..Len(w) /\ Len(w) \in Nat /\ w[i] \in T
      /\ \A j \in 1..Len(w) : w[j] \in T
  BY <1>1, LenProperties, ElementOfSeq
<1>3. CASE v = [w EXCEPT ![i].intact = FALSE]
  <2> DEFINE r == [w[i] EXCEPT !.intact = FALSE]
  <2>1. v = [w EXCEPT ![i] = r]
    BY <1>3
  <2>2. w[i] \in Record /\ Len(w[i].bytes) \in 1..Chunk
    BY <1>2, <1>t
  <2>3. r \in Record /\ r.bytes = w[i].bytes /\ r.intact = FALSE
    BY <2>2 DEF Record
  <2> HIDE DEF r
  <2>4. r \in T
    BY <1>s, <2>2, <2>3
  <2> QED
    BY <1>1, <1>2, <2>1, <2>4, ExceptSeq DEF Recorded, T
<1>4. CASE v = InsertAt(w, i, w[i])
  <2>1. i - 1 \in 0..Len(w) /\ i - 1 + 1 = i
    BY <1>2
  <2> DEFINE a == SubSeq(w, 1, i - 1)
             b == SubSeq(w, i, Len(w))
  <2>2. a \in Seq(T) /\ b \in Seq(T)
    BY <1>1, <2>1, SplitFacts
  <2>3. <<w[i]>> \in Seq(T)
    BY <1>2
  <2>4. v = a \o <<w[i]>> \o b
    BY <1>4 DEF InsertAt
  <2> HIDE DEF a, b
  <2>5. a \o <<w[i]>> \in Seq(T)
    BY <2>2, <2>3, ConcatFacts
  <2>6. v \in Seq(T)
    BY <2>2, <2>4, <2>5, ConcatFacts
  <2> QED
    BY <1>1, <2>6 DEF Recorded, T
<1>5. CASE v = RemoveAt(w, i)
  <2>1. i - 1 \in 0..Len(w) /\ i \in 0..Len(w)
    BY <1>2
  <2> DEFINE a == SubSeq(w, 1, i - 1)
             b == SubSeq(w, i + 1, Len(w))
  <2>2. a \in Seq(T) /\ b \in Seq(T)
    BY <1>1, <2>1, SplitFacts
  <2>3. v = a \o b
    BY <1>5 DEF RemoveAt
  <2> HIDE DEF a, b
  <2>4. v \in Seq(T)
    BY <2>2, <2>3, ConcatFacts
  <2> QED
    BY <1>1, <2>4 DEF Recorded, T
<1> QED
  BY <1>3, <1>4, <1>5

\* WriteFrame gives Write the header and the payload.
Given(b, n) ==
    <<SubSeq(b, 1, Header)>> \o (IF n = 0 THEN <<>> ELSE <<SubSeq(b, Header + 1, Header + n)>>)
LEMMA UnwrittenFrame ==
    ASSUME NEW t \in Seq(AByte), NEW b \in Seq(AByte), NEW a \in Nat, Part(t, b, a, Len(t)),
           NEW n \in Nat, Len(b) = Header + n
    PROVE  Unwritten(Given(b, n), t, a) /\ Given(b, n) \in Seq(Seq(AByte))
<1> DEFINE q == Given(b, n)
<1> HIDE DEF q
<1>1. Header \in Nat /\ Header > 0 /\ Header \in 0..Len(b)
  BY StreamAssumption
<1> DEFINE h == SubSeq(b, 1, Header)
           p == SubSeq(b, Header + 1, Header + n)
           m == a + Header
<1>2. /\ h \in Seq(AByte) /\ Len(h) = Header /\ p \in Seq(AByte) /\ Len(p) = n
  BY <1>1, SplitFacts
<1>3. Part(t, h, a, m) /\ Part(t, p, m, Len(t)) /\ m \in Nat
  <2>1. /\ Part(t, SubSeq(b, 1, Header), a, a + Header)
        /\ Part(t, SubSeq(b, Header + 1, Len(b)), a + Header, Len(t))
    BY <1>1, PartSplit
  <2>2. a + Header \in Nat
    BY <1>1
  <2> QED
    BY <2>1, <2>2
<1> HIDE DEF h, p
<1>4. h # <<>> /\ (n # 0 => p # <<>>)
  BY <1>1, <1>2, SeqFacts
<1>5. CASE n = 0
  <2>1. q = <<h>>
    <3>1. q = <<h>> \o <<>>
      BY <1>5 DEF h, q, Given
    <3>2. <<h>> \in Seq(Seq(AByte))
      BY <1>2
    <3> QED
      BY <3>1, <3>2, ConcatEmptySeq
  <2>2. Len(q) = 1 /\ q[1] = h /\ q \in Seq(Seq(AByte))
    BY <1>2, <2>1
  <2>3. m = Len(t)
    BY <1>2, <1>3, <1>5 DEF Part
  <2> QED
    BY <1>3, <1>4, <2>2, <2>3 DEF Unwritten, q
<1>6. CASE n # 0
  <2>1. q = <<h>> \o <<p>>
    BY <1>6 DEF h, p, q, Given
  <2>2. <<h>> \in Seq(Seq(AByte)) /\ <<p>> \in Seq(Seq(AByte))
    BY <1>2
  <2>3. /\ q \in Seq(Seq(AByte)) /\ Len(q) = Len(<<h>>) + Len(<<p>>)
        /\ \A j \in 1..Len(<<h>>) : q[j] = <<h>>[j]
        /\ \A j \in 1..Len(<<p>>) : q[Len(<<h>>) + j] = <<p>>[j]
    BY <2>1, <2>2, ConcatFacts
  <2>4. Len(<<h>>) = 1 /\ Len(<<p>>) = 1 /\ <<h>>[1] = h /\ <<p>>[1] = p
    OBVIOUS
  <2>a. /\ Len(q) = 1 + 1 /\ (\A j \in 1..1 : q[j] = <<h>>[j])
        /\ \A j \in 1..1 : q[1 + j] = <<p>>[j]
    BY <2>3, <2>4
  <2>b. q[1] = <<h>>[1] /\ q[1 + 1] = <<p>>[1]
    BY <2>a
  <2>5. Len(q) = 2 /\ q[1] = h /\ q[2] = p
    <3>1. 1 + 1 = 2
      OBVIOUS
    <3> QED
      BY <2>4, <2>a, <2>b, <3>1
  <2> QED
    BY <1>3, <1>4, <1>6, <2>3, <2>5 DEF Unwritten, q
<1> QED
  BY <1>5, <1>6

\* Write takes the first n bytes of what is left.
Rest(q, n) ==
    LET rest == SubSeq(Head(q), n + 1, Len(Head(q)))
    IN  IF rest = <<>> THEN Tail(q) ELSE <<rest>> \o Tail(q)
LEMMA UnwrittenRest ==
    ASSUME NEW t \in Seq(AByte), NEW q \in Seq(Seq(AByte)), NEW a, Unwritten(q, t, a), q # <<>>,
           NEW n \in 1..Len(Head(q))
    PROVE  /\ Part(t, SubSeq(Head(q), 1, n), a, a + n) /\ a + n \in Nat
           /\ Unwritten(Rest(q, n), t, a + n) /\ Rest(q, n) \in Seq(Seq(AByte))
<1> DEFINE h == Head(q)
           u == Tail(q)
           rest == SubSeq(h, n + 1, Len(h))
           p == Rest(q, n)
<1> HIDE DEF p
<1>1. /\ h \in Seq(AByte) /\ h = q[1] /\ u \in Seq(Seq(AByte)) /\ Len(u) = Len(q) - 1 /\ Len(q) >= 1
      /\ \A j \in 1..Len(q) - 1 : u[j] = q[j + 1]
  BY TailFacts
<1>2. Len(q) \in Nat /\ Len(h) \in Nat /\ n \in 0..Len(h) /\ n \in Nat
  BY <1>1, SeqFacts
<1>3. PICK m : /\ Part(t, h, a, m) /\ h # <<>>
               /\ \/ Len(q) = 1 /\ m = Len(t)
                  \/ Len(q) = 2 /\ q[2] # <<>> /\ m \in Nat /\ Part(t, q[2], m, Len(t))
  <2>1. Len(q) # 0 /\ h = q[1]
    BY <1>1, <1>2
  <2> HIDE DEF h
  <2> QED
    BY <2>1 DEF Unwritten
<1>4. /\ Part(t, SubSeq(h, 1, n), a, a + n) /\ Part(t, rest, a + n, m)
      /\ rest \in Seq(AByte) /\ a + n \in Nat
  <2>1. Part(t, SubSeq(h, 1, n), a, a + n) /\ Part(t, SubSeq(h, n + 1, Len(h)), a + n, m)
    BY <1>1, <1>2, <1>3, PartSplit
  <2>2. SubSeq(h, n + 1, Len(h)) \in Seq(AByte)
    BY <1>1, <1>2, SplitFacts
  <2> QED
    BY <2>1, <2>2 DEF Part
<1>p. p = IF rest = <<>> THEN u ELSE <<rest>> \o u
  BY DEF p, Rest
<1> HIDE DEF h, u, rest
<1>5. CASE rest = <<>>
  <2>1. p = u
    BY <1>5, <1>p
  <2>2. m = a + n
    BY <1>4, <1>5, EmptySeq DEF Part
  <2>3. CASE Len(q) = 1
    <3>1. Len(p) = 0 /\ a + n = Len(t)
      BY <1>1, <1>3, <2>1, <2>2, <2>3
    <3> QED
      BY <1>1, <1>3, <1>4, <2>1, <3>1 DEF Unwritten, h, p
  <2>4. CASE Len(q) = 2
    <3>1. Len(p) = 1 /\ p[1] = q[2] /\ q[2] # <<>> /\ Part(t, q[2], a + n, Len(t))
      BY <1>1, <1>3, <2>1, <2>2, <2>4
    <3> QED
      BY <1>1, <1>3, <1>4, <2>1, <3>1 DEF Unwritten, h, p
  <2> QED
    BY <1>3, <2>3, <2>4
<1>6. CASE rest # <<>>
  <2>1. p = <<rest>> \o u
    BY <1>6, <1>p
  <2>2. <<rest>> \in Seq(Seq(AByte)) /\ Len(<<rest>>) = 1 /\ <<rest>>[1] = rest
    BY <1>4
  <2>3. /\ p \in Seq(Seq(AByte)) /\ Len(p) = 1 + Len(u) /\ p[1] = rest
        /\ \A j \in 1..Len(u) : p[1 + j] = u[j]
    <3>1. /\ p \in Seq(Seq(AByte)) /\ Len(p) = Len(<<rest>>) + Len(u)
          /\ \A j \in 1..Len(<<rest>>) : p[j] = <<rest>>[j]
          /\ \A j \in 1..Len(u) : p[Len(<<rest>>) + j] = u[j]
      BY <1>1, <2>1, <2>2, ConcatFacts
    <3> QED
      BY <2>2, <3>1
  <2>4. CASE Len(q) = 1
    <3>1. Len(p) = 1 /\ p[1] = rest /\ Part(t, rest, a + n, Len(t))
      BY <1>1, <1>3, <1>4, <2>3, <2>4
    <3> QED
      BY <1>1, <1>3, <1>4, <1>6, <2>3, <3>1 DEF Unwritten, h, p
  <2>5. CASE Len(q) = 2
    <3>1. 1 \in 1..Len(u) /\ u[1] = q[2]
      BY <1>1, <2>5
    <3>2. Len(p) = 2 /\ p[1] = rest /\ p[2] = q[2]
      BY <1>1, <2>3, <2>5, <3>1
    <3> QED
      BY <1>1, <1>3, <1>4, <1>6, <2>3, <2>5, <3>2 DEF Unwritten, h, p
  <2> QED
    BY <1>3, <2>4, <2>5
<1> QED
  BY <1>5, <1>6

-----------------------------------------------------------------------------
(* Every step keeps the invariant.                                          *)

Kept == Typed' /\ \E str, off, cut : Carries(str, off, cut)'

LEMMA Lengths ==
    ASSUME Typed
    PROVE  /\ {Len(sent), Len(received), Len(calls), Len(pending), Len(buf)} \subseteq Nat
           /\ {Header, MaxPayload, Chunk, Tag, MaxFrames, MaxFaults} \subseteq Nat
           /\ Header > 0 /\ Chunk > 0
  BY SeqFacts, StreamAssumption DEF Typed

LEMMA FrameWritten ==
    ASSUME Typed, NEW str, NEW off, NEW cut, Carries(str, off, cut),
           NEW n \in 0..MaxPayload, WriteFrame(n)
    PROVE  Kept
<1> DEFINE b == Bytes(Len(sent) + 1, n)
<1>1. /\ calls = <<>> /\ Len(sent) < MaxFrames /\ sent' = Append(sent, n) /\ calls' = Given(b, n)
      /\ UNCHANGED <<sendN, wire, recvN, pending, buf, received, failed, open, faults>>
  BY DEF WriteFrame, Given, readVars
<1>2. /\ Laid(sent, str, off) /\ Recorded(wire, sendN, str, cut) /\ Unwritten(calls, str, cut[sendN])
      /\ recvN <= sendN /\ Len(received) <= Len(sent) /\ Begun(buf, sent, Len(received))
      /\ Partial(buf, pending, str, off[Len(received)], cut[recvN])
  BY DEF Carries
<1>3. PICK t, g :
         /\ Laid(sent', t, g) /\ (\A i \in 0..Len(sent) : g[i] = off[i])
         /\ str \in Seq(AByte) /\ b \in Seq(AByte) /\ Len(b) = Header + n /\ t = str \o b
         /\ Part(t, b, Len(str), Len(t))
  <2> DEFINE u == str \o b
             h == [i \in 0..Len(sent) + 1 |-> IF i <= Len(sent) THEN off[i] ELSE Len(u)]
  <2>1. sent \in Seq(0..MaxPayload)
    BY DEF Typed
  <2>2. /\ Laid(Append(sent, n), u, h) /\ (\A i \in 0..Len(sent) : h[i] = off[i])
        /\ str \in Seq(AByte) /\ b \in Seq(AByte) /\ Len(b) = Header + n
        /\ Part(u, b, Len(str), Len(u))
    BY <1>1, <1>2, <2>1, LaidMore
  <2> HIDE DEF h, b
  <2> QED
    BY <1>1, <2>2
<1> HIDE DEF b
<1>4. t \in Seq(AByte) /\ Len(str) \in Nat
  BY <1>3, ConcatFacts, SeqFacts
<1>5. Recorded(wire', sendN', t, cut)
  <2>1. Recorded(wire, sendN, t, cut)
    BY <1>2, <1>3, RecordedGrows DEF Typed
  <2> QED
    BY <1>1, <2>1
<1>6. Unwritten(calls', t, cut[sendN']) /\ calls' \in Seq(Seq(AByte))
  <2>1. cut[sendN] = Len(str)
    <3>1. Len(calls) = 0
      BY <1>1, EmptySeq
    <3> QED
      BY <1>2, <3>1 DEF Unwritten
  <2>2. n \in Nat
    BY Lengths
  <2>3. Unwritten(Given(b, n), t, Len(str)) /\ Given(b, n) \in Seq(Seq(AByte))
    BY <1>3, <1>4, <2>2, UnwrittenFrame
  <2> QED
    BY <1>1, <2>1, <2>3
<1>7. Partial(buf', pending', t, g[Len(received')], cut[recvN'])
  <2>1. g[Len(received)] = off[Len(received)]
    <3>1. Len(received) \in 0..Len(sent)
      BY <1>2, Lengths
    <3> QED
      BY <1>3, <3>1
  <2>2. PICK m \in Nat : Part(str, buf, off[Len(received)], m) /\ Part(str, pending, m, cut[recvN])
    BY <1>2 DEF Partial
  <2>3. Part(t, buf, off[Len(received)], m) /\ Part(t, pending, m, cut[recvN])
    BY <1>3, <2>2, PartGrows DEF Typed
  <2>4. Partial(buf, pending, t, g[Len(received)], cut[recvN])
    BY <2>1, <2>3 DEF Partial
  <2> QED
    BY <1>1, <2>4
<1>8. /\ Len(sent') = Len(sent) + 1 /\ sent' \in Seq(0..MaxPayload)
      /\ \A i \in 1..Len(sent) : sent'[i] = sent[i]
  BY <1>1, AppendFacts DEF Typed
<1>9. Begun(buf', sent', Len(received'))
  <2>1. SUFFICES ASSUME buf # <<>>
                 PROVE  Len(received) < Len(sent') /\ Len(buf) <= Header + sent'[Len(received) + 1]
    BY <1>1 DEF Begun
  <2>2. Len(received) < Len(sent) /\ Len(buf) <= Header + sent[Len(received) + 1]
    BY <1>2, <2>1 DEF Begun
  <2>3. Len(received) + 1 \in 1..Len(sent) /\ Len(received) < Len(sent) + 1
    BY <2>2, Lengths
  <2> QED
    BY <1>8, <2>2, <2>3
<1>10. recvN' <= sendN' /\ Len(received') <= Len(sent')
  <2>1. Len(received) <= Len(sent) + 1
    BY <1>2, Lengths
  <2> QED
    BY <1>1, <1>2, <1>8, <2>1
<1>11. Carries(t, g, cut)'
  BY <1>3, <1>5, <1>6, <1>7, <1>9, <1>10 DEF Carries
<1>12. Typed'
  <2>1. Len(sent') <= MaxFrames
    BY <1>1, <1>8, Lengths
  <2> QED
    BY <1>1, <1>6, <1>8, <2>1 DEF Typed
<1> QED
  BY <1>11, <1>12 DEF Kept

LEMMA RecordFits ==
    ASSUME Typed, NEW str, NEW a, Unwritten(calls, str, a), calls # <<>>
    PROVE  /\ RecordSize \in 1..Len(Head(calls)) /\ RecordSize \in 1..Chunk
           /\ Head(calls) \in Seq(AByte)
           /\ SubSeq(Head(calls), 1, RecordSize) \in Seq(AByte)
           /\ Len(SubSeq(Head(calls), 1, RecordSize)) = RecordSize
<1> DEFINE h == Head(calls)
<1>1. h \in Seq(AByte) /\ h = calls[1] /\ Len(calls) >= 1
  BY TailFacts DEF Typed
<1>2. h # <<>>
  <2>1. Len(calls) # 0
    BY <1>1, Lengths
  <2> HIDE DEF h
  <2> QED
    BY <1>1, <2>1 DEF Unwritten
<1>3. Len(h) \in Nat /\ Len(h) # 0
  BY <1>1, <1>2, SeqFacts
<1>4. RecordSize = IF Len(h) < Chunk THEN Len(h) ELSE Chunk
  BY DEF RecordSize
<1> HIDE DEF h
<1>5. RecordSize \in 1..Len(h) /\ RecordSize \in 1..Chunk /\ RecordSize \in 0..Len(h)
  BY <1>3, <1>4, Lengths
<1>6. SubSeq(h, 1, RecordSize) \in Seq(AByte) /\ Len(SubSeq(h, 1, RecordSize)) = RecordSize
  BY <1>1, <1>5, SplitFacts
<1> QED
  BY <1>1, <1>5, <1>6 DEF h

LEMMA RecordWritten ==
    ASSUME Typed, NEW str, NEW off, NEW cut, Carries(str, off, cut), WriteRecord
    PROVE  Kept
<1> DEFINE k == RecordSize
           q == SubSeq(Head(calls), 1, k)
           z == cut[sendN] + k
<1>1. /\ calls # <<>> /\ wire' = Append(wire, [n |-> sendN, bytes |-> q, intact |-> TRUE])
      /\ sendN' = sendN + 1 /\ calls' = Rest(calls, k)
      /\ UNCHANGED <<sent, recvN, pending, buf, received, failed, open, faults>>
  BY DEF WriteRecord, Rest, NextRecord, readVars
<1>2. /\ Laid(sent, str, off) /\ Recorded(wire, sendN, str, cut) /\ Unwritten(calls, str, cut[sendN])
      /\ recvN <= sendN /\ Len(received) <= Len(sent) /\ Begun(buf, sent, Len(received))
      /\ Partial(buf, pending, str, off[Len(received)], cut[recvN])
  BY DEF Carries
<1>3. str \in Seq(AByte) /\ sendN \in Nat /\ recvN \in Nat /\ calls \in Seq(Seq(AByte))
  BY <1>2 DEF Laid, Typed
<1>4. /\ k \in 1..Len(Head(calls)) /\ k \in 1..Chunk /\ q \in Seq(AByte) /\ Len(q) = k
  BY <1>1, <1>2, RecordFits
<1>5. /\ Part(str, q, cut[sendN], z) /\ z \in Nat
      /\ Unwritten(Rest(calls, k), str, z) /\ Rest(calls, k) \in Seq(Seq(AByte))
  BY <1>1, <1>2, <1>3, <1>4, UnwrittenRest
<1> HIDE DEF k, q, z
<1>6. PICK g : Recorded(wire', sendN', str, g) /\ Further(g, cut, sendN, z)
  <2> DEFINE v == [n |-> sendN, bytes |-> q, intact |-> TRUE]
  <2>1. v \in Record /\ v.n = sendN /\ v.bytes = q /\ v.intact = TRUE
    BY <1>3, <1>4 DEF Record
  <2>2. wire' = Append(wire, v) /\ sendN' = sendN + 1
    BY <1>1
  <2> HIDE DEF v
  <2>3. Fresh(v, sendN, q)
    BY <2>1 DEF Fresh
  <2>4. \E g : Recorded(Append(wire, v), sendN + 1, str, g) /\ Further(g, cut, sendN, z)
    <3>1. /\ sendN \in Nat /\ str \in Seq(AByte) /\ Recorded(wire, sendN, str, cut)
          /\ q \in Seq(AByte) /\ z \in Nat /\ Part(str, q, cut[sendN], z) /\ Len(q) \in 1..Chunk
      BY <1>2, <1>3, <1>4, <1>5
    <3> QED
      BY <2>3, <3>1, RecordedMore
  <2> QED
    BY <2>2, <2>4
<1>f. g[sendN + 1] = z /\ \A i \in 0..sendN : g[i] = cut[i]
  BY <1>6 DEF Further
<1>7. g[recvN] = cut[recvN]
  <2>1. recvN \in 0..sendN
    BY <1>2, <1>3
  <2> QED
    BY <1>f, <2>1
<1>8. Carries(str, off, g)'
  <2>1. Unwritten(calls', str, g[sendN'])
    BY <1>1, <1>5, <1>f
  <2>2. Partial(buf', pending', str, off[Len(received')], g[recvN'])
    BY <1>1, <1>2, <1>7
  <2>3. recvN' <= sendN'
    BY <1>1, <1>2, <1>3
  <2> QED
    BY <1>1, <1>2, <1>6, <2>1, <2>2, <2>3 DEF Carries
<1>9. Typed'
  BY <1>1, <1>3, <1>5 DEF Typed
<1> QED
  BY <1>8, <1>9 DEF Kept

\* Steps that leave the bytes where they are.
LEMMA Unmoved ==
    ASSUME Typed, NEW str, NEW off, NEW cut, Carries(str, off, cut),
           UNCHANGED <<sent, calls, sendN, recvN, pending, buf, received>>,
           Recorded(wire', sendN, str, cut),
           open' \in [{W, R} -> BOOLEAN], failed' \in BOOLEAN, faults' \in 0..MaxFaults
    PROVE  Kept
<1>1. Typed'
  BY DEF Typed
<1>2. Carries(str, off, cut)'
  BY DEF Carries
<1> QED
  BY <1>1, <1>2 DEF Kept

LEMMA WriteFailed ==
    ASSUME Typed, NEW str, NEW off, NEW cut, Carries(str, off, cut), WriteFails
    PROVE  Kept
<1>1. /\ calls # <<>> /\ (~open[R] \/ faults < MaxFaults)
      /\ faults' = (IF open[R] THEN faults + 1 ELSE faults) /\ open' = [open EXCEPT ![W] = FALSE]
      /\ wire' \in {wire, Append(wire, [NextRecord EXCEPT !.intact = FALSE])}
      /\ UNCHANGED <<sent, calls, sendN, recvN, pending, buf, received, failed>>
  BY DEF WriteFails, writeVars, readVars
<1>2. Recorded(wire, sendN, str, cut) /\ Unwritten(calls, str, cut[sendN])
  BY DEF Carries
<1>3. Recorded(wire', sendN, str, cut)
  <2> DEFINE v == [NextRecord EXCEPT !.intact = FALSE]
             q == SubSeq(Head(calls), 1, RecordSize)
  <2>1. q \in Seq(AByte) /\ Len(q) \in 1..Chunk
    BY <1>1, <1>2, RecordFits
  <2>2. NextRecord \in Record /\ NextRecord.bytes = q
    BY <2>1 DEF NextRecord, Record, Typed
  <2> HIDE DEF q
  <2>3. v \in Record /\ v.bytes = NextRecord.bytes /\ v.intact = FALSE
    BY <2>2 DEF Record
  <2> HIDE DEF v
  <2>4. Recorded(Append(wire, v), sendN, str, cut)
    BY <1>2, <2>1, <2>2, <2>3, RecordedTorn DEF Typed
  <2>5. wire' = wire \/ wire' = Append(wire, v)
    BY <1>1 DEF v
  <2> QED
    BY <1>2, <2>4, <2>5
<1>4. open' \in [{W, R} -> BOOLEAN] /\ failed' \in BOOLEAN
  BY <1>1 DEF Typed
<1>5. faults' \in 0..MaxFaults
  <2>1. faults \in 0..MaxFaults /\ MaxFaults \in Nat
    BY StreamAssumption DEF Typed
  <2> QED
    BY <1>1, <2>1
<1> QED
  BY <1>1, <1>3, <1>4, <1>5, Unmoved

LEMMA ReadFailed ==
    ASSUME Typed, NEW str, NEW off, NEW cut, Carries(str, off, cut),
           Fails, UNCHANGED faults \/ (faults < MaxFaults /\ faults' = faults + 1)
    PROVE  Kept
<1>1. UNCHANGED <<sent, calls, sendN, wire, recvN, pending, buf, received>>
  BY DEF Fails, writeVars
<1>2. open' \in [{W, R} -> BOOLEAN] /\ failed' \in BOOLEAN
  BY DEF Fails, Typed
<1>3. faults' \in 0..MaxFaults
  BY StreamAssumption DEF Typed
<1>4. Recorded(wire', sendN, str, cut)
  BY <1>1 DEF Carries
<1> QED
  BY <1>1, <1>2, <1>3, <1>4, Unmoved

LEMMA Closed ==
    ASSUME Typed, NEW str, NEW off, NEW cut, Carries(str, off, cut), NEW e \in {W, R}, Close(e)
    PROVE  Kept
<1>1. UNCHANGED <<sent, calls, sendN, wire, recvN, pending, buf, received, failed>>
  BY DEF Close, writeVars, readVars
<1>2. open' \in [{W, R} -> BOOLEAN] /\ failed' \in BOOLEAN
  BY <1>1 DEF Close, Typed
<1>3. faults' \in 0..MaxFaults
  BY StreamAssumption DEF Close, Fault, Typed
<1>4. Recorded(wire', sendN, str, cut)
  BY <1>1 DEF Carries
<1> QED
  BY <1>1, <1>2, <1>3, <1>4, Unmoved

LEMMA Damaged ==
    ASSUME Typed, NEW str, NEW off, NEW cut, Carries(str, off, cut), Damage
    PROVE  Kept
<1>1. UNCHANGED <<sent, calls, sendN, recvN, pending, buf, received, failed, open>>
  BY DEF Damage, writeVars, readVars
<1>2. open' \in [{W, R} -> BOOLEAN] /\ failed' \in BOOLEAN
  BY <1>1 DEF Typed
<1>3. faults' \in 0..MaxFaults
  BY StreamAssumption DEF Damage, Fault, Typed
<1>4. Recorded(wire', sendN, str, cut)
  <2>1. PICK i \in DOMAIN wire :
          \/ wire' \in {[wire EXCEPT ![i].intact = FALSE], InsertAt(wire, i, wire[i])}
          \/ i < Len(wire) /\ wire' = RemoveAt(wire, i)
    BY DEF Damage
  <2>2. Recorded(wire, sendN, str, cut) /\ sendN \in Nat
    BY DEF Carries, Typed
  <2> QED
    BY <2>1, <2>2, RecordedDamaged
<1> QED
  BY <1>1, <1>2, <1>3, <1>4, Unmoved

\* noiseConn.Read: the record that Good lets pass is the next one.
LEMMA RecordRead ==
    ASSUME Typed, NEW str, NEW off, NEW cut, Carries(str, off, cut), ReadRecord
    PROVE  Kept
<1> DEFINE r == Head(wire)
<1>1. /\ pending = <<>> /\ wire # <<>> /\ r.intact /\ r.n = recvN /\ pending' = r.bytes
      /\ recvN' = recvN + 1 /\ wire' = Tail(wire)
      /\ UNCHANGED <<sent, calls, sendN, buf, received, failed, open, faults>>
  BY DEF ReadRecord, Nothing, Good, writeVars
<1>2. /\ Laid(sent, str, off) /\ Recorded(wire, sendN, str, cut) /\ Unwritten(calls, str, cut[sendN])
      /\ recvN <= sendN /\ Len(received) <= Len(sent) /\ Begun(buf, sent, Len(received))
      /\ Partial(buf, pending, str, off[Len(received)], cut[recvN])
  BY DEF Carries
<1>3. Recorded(wire', sendN, str, cut) /\ r \in Sound(sendN, str, cut)
  <2>1. Recorded(Tail(wire), sendN, str, cut) /\ Head(wire) \in Sound(sendN, str, cut)
    BY <1>1, <1>2, RecordedLess DEF Typed
  <2> QED
    BY <1>1, <2>1
<1> HIDE DEF r
<1>4. /\ r.bytes \in Seq(AByte) /\ Len(r.bytes) \in 1..Chunk /\ recvN \in 0..sendN - 1
      /\ Part(str, r.bytes, cut[recvN], cut[recvN + 1])
  BY <1>1, <1>3 DEF Sound, Intact, Record
<1>5. Partial(buf', pending', str, off[Len(received')], cut[recvN'])
  <2>1. PICK m \in Nat : Part(str, buf, off[Len(received)], m) /\ Part(str, pending, m, cut[recvN])
    BY <1>2 DEF Partial
  <2>2. m = cut[recvN]
    BY <1>1, <2>1, EmptySeq DEF Part
  <2>3. Partial(buf, r.bytes, str, off[Len(received)], cut[recvN + 1])
    BY <1>4, <2>1, <2>2 DEF Partial
  <2> QED
    BY <1>1, <2>3
<1>6. recvN' <= sendN' /\ recvN' \in Nat
  BY <1>1, <1>4 DEF Typed
<1>7. Carries(str, off, cut)'
  BY <1>1, <1>2, <1>3, <1>5, <1>6 DEF Carries
<1>8. Len(pending') <= Chunk
  BY <1>1, <1>4, StreamAssumption
<1>9. Typed'
  BY <1>1, <1>4, <1>6, <1>8 DEF Typed
<1> QED
  BY <1>7, <1>9 DEF Kept

\* What ReadFrame is reading is the frame after the last it returned, which WriteFrame
\* was given: it reads the length out of that frame's header.
LEMMA FrameRead ==
    ASSUME Typed, NEW str, NEW off, NEW cut, Carries(str, off, cut),
           buf # <<>> \/ pending # <<>>
    PROVE  LET f == Len(received) + 1
           IN  /\ Len(received) < Len(sent) /\ f \in 1..Len(sent) /\ f \in 1..MaxFrames
               /\ sent[f] \in 0..MaxPayload /\ off[f] = off[f - 1] + (Header + sent[f])
               /\ Len(buf) <= Header + sent[f]
               /\ \A j \in 1..Len(buf) : buf[j] = Byte(f, j, sent[f])
               /\ Missing = IF Len(buf) < Header THEN Header - Len(buf)
                            ELSE Header + sent[f] - Len(buf)
<1> DEFINE k == Len(received)
           f == k + 1
<1>1. /\ Laid(sent, str, off) /\ k <= Len(sent) /\ Begun(buf, sent, k)
      /\ Partial(buf, pending, str, off[k], cut[recvN])
  BY DEF Carries
<1>2. /\ str \in Seq(AByte) /\ off \in [0..Len(sent) -> Nat] /\ off[Len(sent)] = Len(str)
      /\ \A i \in 1..Len(sent) : Part(str, Bytes(i, sent[i]), off[i - 1], off[i])
  BY <1>1 DEF Laid
<1>3. /\ k \in Nat /\ Len(sent) \in Nat /\ Len(buf) \in Nat /\ Len(pending) \in Nat
      /\ Header \in Nat /\ MaxFrames \in Nat /\ MaxPayload \in Nat /\ Len(str) \in Nat /\ Header > 0
  BY <1>2, Lengths, SeqFacts
<1>4. PICK m \in Nat : Part(str, buf, off[k], m) /\ Part(str, pending, m, cut[recvN])
  BY <1>1 DEF Partial
<1>5. /\ off[k] \in Nat /\ m = off[k] + Len(buf) /\ m + Len(pending) <= Len(str)
      /\ \A j \in 1..Len(buf) : buf[j] = str[off[k] + j]
  BY <1>4 DEF Part
<1> HIDE DEF k
<1>6. k < Len(sent)
  <2>1. Len(buf) # 0 \/ Len(pending) # 0
    BY SeqFacts DEF Typed
  <2>2. off[k] # Len(str)
    BY <1>3, <1>5, <2>1
  <2>3. k # Len(sent)
    BY <1>2, <2>2
  <2> QED
    BY <1>1, <1>3, <2>3
<1>7. f \in 1..Len(sent) /\ f - 1 = k /\ f \in 1..MaxFrames
  BY <1>3, <1>6 DEF Typed
<1>8. sent[f] \in 0..MaxPayload
  BY <1>7, SeqFacts DEF Typed
<1>9. /\ Len(Bytes(f, sent[f])) = Header + sent[f]
      /\ \A j \in 1..Header + sent[f] : Bytes(f, sent[f])[j] = Byte(f, j, sent[f])
  BY <1>7, <1>8, BytesFacts
<1>10. Part(str, Bytes(f, sent[f]), off[k], off[f])
  BY <1>2, <1>7
<1>11. Len(buf) <= Header + sent[f]
  <2>1. CASE buf = <<>>
    <3>1. Len(buf) = 0
      BY <2>1, EmptySeq
    <3> QED
      BY <1>3, <1>8, <3>1
  <2>2. CASE buf # <<>>
    BY <1>1, <2>2 DEF Begun
  <2> QED
    BY <2>1, <2>2
<1>12. ASSUME NEW j \in 1..Len(buf) PROVE buf[j] = Byte(f, j, sent[f])
  <2>1. j \in 1..Header + sent[f]
    BY <1>3, <1>8, <1>11
  <2>2. Bytes(f, sent[f])[j] = str[off[k] + j]
    BY <1>9, <1>10, <2>1 DEF Part
  <2> QED
    BY <1>5, <1>9, <2>1, <2>2
<1>13. off[f] = off[k] + (Header + sent[f])
  BY <1>9, <1>10 DEF Part
<1>14. Missing = IF Len(buf) < Header THEN Header - Len(buf) ELSE Header + sent[f] - Len(buf)
  <2>1. CASE Len(buf) < Header
    BY <2>1 DEF Missing
  <2>2. CASE ~(Len(buf) < Header)
    <3>1. Header \in 1..Len(buf)
      BY <1>3, <2>2
    <3>2. buf[Header] = Byte(f, Header, sent[f])
      BY <1>12, <3>1
    <3>3. buf[Header].size = sent[f]
      BY <3>2 DEF Byte
    <3> QED
      BY <2>2, <3>3 DEF Missing
  <2> QED
    BY <2>1, <2>2
<1> QED
  BY <1>6, <1>7, <1>8, <1>11, <1>12, <1>13, <1>14 DEF k

\* Read copies no more than ReadFrame wants.
LEMMA Taken ==
    ASSUME Typed, NEW str, NEW off, NEW cut, Carries(str, off, cut), Take
    PROVE  Kept
<1> DEFINE n == IF Len(pending) < Missing THEN Len(pending) ELSE Missing
           p == SubSeq(pending, 1, n)
           f == Len(received) + 1
<1>1. /\ pending # <<>> /\ Missing > 0
      /\ buf' = buf \o p /\ pending' = SubSeq(pending, n + 1, Len(pending))
      /\ UNCHANGED <<sent, calls, sendN, wire, recvN, received, failed, open, faults>>
  BY DEF Take, writeVars
<1>2. /\ Len(received) < Len(sent) /\ sent[f] \in 0..MaxPayload /\ Len(buf) <= Header + sent[f]
      /\ Missing = IF Len(buf) < Header THEN Header - Len(buf) ELSE Header + sent[f] - Len(buf)
  BY <1>1, FrameRead
<1>3. n \in 0..Len(pending) /\ n \in Nat /\ Len(buf) + n <= Header + sent[f]
  <2>1. Len(buf) \in Nat /\ Len(pending) \in Nat /\ Header \in Nat /\ MaxPayload \in Nat
    BY Lengths
  <2> HIDE DEF f
  <2>2. Missing \in Nat /\ Len(buf) + Missing <= Header + sent[f]
    <3> DEFINE size == sent[f]
               got == Len(buf)
    <3>1. got \in Nat /\ size \in Nat /\ got <= Header + size
      BY <1>2, <2>1
    <3>2. Missing = IF got < Header THEN Header - got ELSE Header + size - got
      BY <1>2
    <3> HIDE DEF size, got
    <3>3. Missing \in Nat /\ got + Missing <= Header + size
      BY <2>1, <3>1, <3>2
    <3> QED
      BY <3>3 DEF size, got
  <2>3. n \in 0..Len(pending) /\ n \in Nat /\ n <= Missing
    BY <2>1, <2>2
  <2> HIDE DEF n
  <2>4. sent[f] \in Nat
    BY <1>2, <2>1
  <2>5. Len(buf) + n <= Header + sent[f]
    BY <2>1, <2>2, <2>3, <2>4
  <2> QED
    BY <2>3, <2>5
<1> HIDE DEF n
<1>4. PICK m \in Nat : Part(str, buf, off[Len(received)], m) /\ Part(str, pending, m, cut[recvN])
  BY DEF Carries, Partial
<1>5. buf \in Seq(AByte) /\ pending \in Seq(AByte) /\ str \in Seq(AByte) /\ Len(pending) <= Chunk
  BY DEF Typed, Carries, Laid
<1>6. /\ Part(str, p, m, m + n) /\ Part(str, pending', m + n, cut[recvN])
      /\ p \in Seq(AByte) /\ Len(p) = n
      /\ pending' \in Seq(AByte) /\ Len(pending') = Len(pending) - n
  <2>1. /\ Part(str, p, m, m + n)
        /\ Part(str, SubSeq(pending, n + 1, Len(pending)), m + n, cut[recvN])
    BY <1>3, <1>4, <1>5, PartSplit
  <2>2. /\ p \in Seq(AByte) /\ Len(p) = n /\ SubSeq(pending, n + 1, Len(pending)) \in Seq(AByte)
        /\ Len(SubSeq(pending, n + 1, Len(pending))) = Len(pending) - n
    BY <1>3, <1>5, SplitFacts
  <2> QED
    BY <1>1, <2>1, <2>2
<1> HIDE DEF p
<1>7. /\ Part(str, buf', off[Len(received)], m + n) /\ m + n \in Nat
      /\ buf' \in Seq(AByte) /\ Len(buf') = Len(buf) + n
  <2>1. Part(str, buf \o p, off[Len(received)], m + n)
    BY <1>4, <1>5, <1>6, PartJoin
  <2>2. buf \o p \in Seq(AByte) /\ Len(buf \o p) = Len(buf) + n
    BY <1>5, <1>6, ConcatFacts
  <2>3. m + n \in Nat
    BY <1>3
  <2> QED
    BY <1>1, <2>1, <2>2, <2>3
<1>8. Partial(buf', pending', str, off[Len(received')], cut[recvN'])
  BY <1>1, <1>6, <1>7 DEF Partial
<1>9. Begun(buf', sent', Len(received'))
  <2>1. Len(buf') <= Header + sent[Len(received) + 1]
    BY <1>3, <1>7
  <2> QED
    BY <1>1, <1>2, <2>1 DEF Begun
<1>10. Carries(str, off, cut)'
  BY <1>1, <1>8, <1>9 DEF Carries
<1>11. Len(pending') <= Chunk
  <2>1. Len(pending) \in Nat /\ Chunk \in Nat
    BY Lengths
  <2>2. Len(pending) - n <= Chunk
    BY <1>3, <1>5, <2>1
  <2> QED
    BY <1>6, <2>2
<1>12. Typed'
  BY <1>1, <1>6, <1>7, <1>11 DEF Typed
<1> QED
  BY <1>10, <1>12 DEF Kept

\* What ReadFrame returns is the next of the frames written.
LEMMA Delivers ==
    ASSUME Typed, NEW str, NEW off, NEW cut, Carries(str, off, cut), Deliver
    PROVE  LET f == Len(received) + 1
           IN  /\ Len(received) < Len(sent) /\ f \in 1..Len(sent)
               /\ received' = Append(received, sent[f]) /\ sent[f] \in 0..MaxPayload
               /\ Len(buf) = Header + sent[f] /\ off[f] = off[f - 1] + Len(buf)
<1> DEFINE f == Len(received) + 1
<1>1. Missing = 0 /\ received' = Append(received, Result)
  BY DEF Deliver
<1>2. /\ Len(buf) \in Nat /\ Header \in Nat /\ Header > 0 /\ MaxPayload \in Nat /\ buf \in Seq(AByte)
  BY Lengths DEF Typed
<1>3. buf # <<>>
  <2> SUFFICES ASSUME buf = <<>> PROVE FALSE
    OBVIOUS
  <2>1. Len(buf) = 0
    BY EmptySeq
  <2>2. Missing = Header - Len(buf)
    BY <1>2, <2>1 DEF Missing
  <2> QED
    BY <1>1, <1>2, <2>1, <2>2
<1>4. /\ Len(received) < Len(sent) /\ f \in 1..Len(sent) /\ f \in 1..MaxFrames
      /\ sent[f] \in 0..MaxPayload /\ off[f] = off[f - 1] + (Header + sent[f])
      /\ \A j \in 1..Len(buf) : buf[j] = Byte(f, j, sent[f])
      /\ Missing = IF Len(buf) < Header THEN Header - Len(buf) ELSE Header + sent[f] - Len(buf)
  BY <1>3, FrameRead
<1> HIDE DEF f
<1>5. Len(buf) = Header + sent[f]
  BY <1>1, <1>2, <1>4
<1>6. buf = Bytes(f, sent[f])
  <2>1. /\ Bytes(f, sent[f]) \in Seq(AByte) /\ Len(Bytes(f, sent[f])) = Header + sent[f]
        /\ \A j \in 1..Header + sent[f] : Bytes(f, sent[f])[j] = Byte(f, j, sent[f])
    BY <1>4, BytesFacts
  <2>2. \A j \in 1..Len(buf) : buf[j] = Bytes(f, sent[f])[j]
    BY <1>4, <1>5, <2>1
  <2> QED
    BY <1>2, <1>5, <2>1, <2>2, SeqEqual
<1>7. Result = sent[f]
  <2>1. 1 \in 1..Len(buf)
    BY <1>2, <1>4, <1>5
  <2>2. buf[1] = Byte(f, 1, sent[f])
    BY <1>4, <2>1
  <2>3. buf[1].frame = f /\ buf[1].size = sent[f]
    BY <2>2 DEF Byte
  <2> QED
    BY <1>6, <2>3 DEF Result
<1> QED
  BY <1>1, <1>4, <1>5, <1>7 DEF f

LEMMA FrameDelivered ==
    ASSUME Typed, NEW str, NEW off, NEW cut, Carries(str, off, cut), Deliver
    PROVE  Kept
<1> DEFINE f == Len(received) + 1
<1>1. /\ Len(received) < Len(sent) /\ f \in 1..Len(sent)
      /\ received' = Append(received, sent[f]) /\ sent[f] \in 0..MaxPayload
      /\ off[f] = off[f - 1] + Len(buf)
  BY Delivers
<1>2. /\ buf' = <<>>
      /\ UNCHANGED <<sent, calls, sendN, wire, recvN, pending, failed, open, faults>>
  BY DEF Deliver, writeVars
<1>3. received' \in Seq(0..Garbled) /\ Len(received') = f
  <2>1. sent[f] \in 0..Garbled
    BY <1>1, StreamAssumption DEF Garbled
  <2> QED
    BY <1>1, <2>1, AppendFacts DEF Typed
<1>4. Partial(buf', pending', str, off[Len(received')], cut[recvN'])
  <2>1. PICK m \in Nat : Part(str, buf, off[Len(received)], m) /\ Part(str, pending, m, cut[recvN])
    BY DEF Carries, Partial
  <2>2. m = off[f]
    <3>1. f - 1 = Len(received)
      BY Lengths
    <3> QED
      BY <1>1, <2>1, <3>1 DEF Part
  <2>3. str \in Seq(AByte) /\ m \in 0..Len(str)
    <3>1. str \in Seq(AByte) /\ buf \in Seq(AByte)
      BY DEF Typed, Carries, Laid
    <3>2. m <= Len(str) /\ Len(str) \in Nat
      BY <2>1, <3>1, SeqFacts DEF Part
    <3> QED
      BY <3>1, <3>2
  <2>4. Part(str, <<>>, m, m)
    BY <2>3, PartNone
  <2>5. Partial(<<>>, pending, str, off[f], cut[recvN])
    BY <2>1, <2>2, <2>4 DEF Partial
  <2> QED
    BY <1>2, <1>3, <2>5
<1>5. Begun(buf', sent', Len(received'))
  BY <1>2 DEF Begun
<1>6. Len(received') <= Len(sent')
  BY <1>1, <1>2, <1>3, Lengths
<1>7. Carries(str, off, cut)'
  BY <1>2, <1>4, <1>5, <1>6 DEF Carries
<1>8. Typed'
  <2>1. buf' \in Seq(AByte)
    BY <1>2, EmptySeq
  <2> QED
    BY <1>2, <1>3, <2>1 DEF Typed
<1> QED
  BY <1>7, <1>8 DEF Kept

-----------------------------------------------------------------------------
(* The theorems.                                                            *)

LEMMA InitCarries ==
    ASSUME Init
    PROVE  IInv
<1> DEFINE none == [i \in 0..0 |-> 0]
<1>1. \A T : <<>> \in Seq(T) /\ Len(<<>>) = 0
  BY EmptySeq
<1>2. Typed
  <2>1. Chunk \in Nat /\ MaxFrames \in Nat /\ MaxFaults \in Nat
    BY StreamAssumption
  <2>2. open \in [{W, R} -> BOOLEAN] /\ failed \in BOOLEAN
    BY DEF Init
  <2>3. sendN \in Nat /\ recvN \in Nat /\ faults \in 0..MaxFaults
    BY <2>1 DEF Init
  <2>4. Len(sent) <= MaxFrames /\ Len(pending) <= Chunk
    BY <1>1, <2>1 DEF Init
  <2>5. /\ sent \in Seq(0..MaxPayload) /\ received \in Seq(0..Garbled)
        /\ calls \in Seq(Seq(AByte)) /\ pending \in Seq(AByte) /\ buf \in Seq(AByte)
    BY <1>1 DEF Init
  <2> QED
    BY <2>2, <2>3, <2>4, <2>5 DEF Typed
<1>3. none \in [0..0 -> Nat] /\ none[0] = 0
  OBVIOUS
<1> HIDE DEF none
<1>4. Laid(sent, <<>>, none)
  BY <1>1, <1>3 DEF Init, Laid
<1>5. Recorded(wire, sendN, <<>>, none)
  BY <1>1, <1>3 DEF Init, Recorded
<1>6. Unwritten(calls, <<>>, none[sendN])
  BY <1>1, <1>3 DEF Init, Unwritten
<1>7. Partial(buf, pending, <<>>, none[Len(received)], none[recvN])
  <2>1. Part(<<>>, <<>>, 0, 0)
    BY <1>1 DEF Part
  <2> QED
    BY <1>1, <1>3, <2>1 DEF Init, Partial
<1>8. Begun(buf, sent, Len(received)) /\ recvN <= sendN /\ Len(received) <= Len(sent)
  BY <1>1 DEF Init, Begun
<1>9. Carries(<<>>, none, none)
  BY <1>4, <1>5, <1>6, <1>7, <1>8 DEF Carries
<1> QED
  BY <1>2, <1>9 DEF IInv

LEMMA NextCarries ==
    ASSUME IInv, [Next]_vars
    PROVE  IInv'
<1> SUFFICES Kept
  BY DEF Kept, IInv
<1>1. Typed
  BY DEF IInv
<1>2. PICK str, off, cut : Carries(str, off, cut)
  BY DEF IInv
<1>3. CASE \E n \in 0..MaxPayload : WriteFrame(n)
  BY <1>1, <1>2, <1>3, FrameWritten
<1>4. CASE WriteRecord
  BY <1>1, <1>2, <1>4, RecordWritten
<1>5. CASE WriteFails
  BY <1>1, <1>2, <1>5, WriteFailed
<1>6. CASE ReadRecord
  BY <1>1, <1>2, <1>6, RecordRead
<1>7. CASE ReadFails \/ ReadTimesOut
  <2>1. Fails /\ (UNCHANGED faults \/ (faults < MaxFaults /\ faults' = faults + 1))
    BY <1>7 DEF ReadFails, ReadTimesOut
  <2> QED
    BY <1>1, <1>2, <2>1, ReadFailed
<1>8. CASE Take
  BY <1>1, <1>2, <1>8, Taken
<1>9. CASE Deliver
  BY <1>1, <1>2, <1>9, FrameDelivered
<1>10. CASE \E e \in {W, R} : Close(e)
  BY <1>1, <1>2, <1>10, Closed
<1>11. CASE Damage
  BY <1>1, <1>2, <1>11, Damaged
<1>12. CASE Finished \/ UNCHANGED vars
  <2>1. UNCHANGED <<sent, calls, sendN, wire, recvN, pending, buf, received, failed, open, faults>>
    BY <1>12 DEF Finished, vars, writeVars, readVars
  <2>2. Carries(str, off, cut)'
    BY <1>2, <2>1 DEF Carries
  <2>3. Typed'
    BY <1>1, <2>1 DEF Typed
  <2> QED
    BY <2>2, <2>3 DEF Kept
<1> QED
  BY <1>3, <1>4, <1>5, <1>6, <1>7, <1>8, <1>9, <1>10, <1>11, <1>12 DEF Next

\* At every moment the bytes that noiseConn has written, has under way and has read are
\* consecutive parts of the frames given to WriteFrame, laid one after another.
THEOREM StreamInvariant == Spec => []IInv
<1>1. Init => IInv
  BY InitCarries
<1>2. IInv /\ [Next]_vars => IInv'
  BY NextCarries
<1> QED
  BY <1>1, <1>2, PTL DEF Spec

\* A record under way and what noiseConn keeps pending fit the arrays plain and cipher
\* (Chunk), a frame that is read fits readBuf, and no record is read before it is written.
THEOREM StreamTypeOK == Spec => []TypeOK
<1>1. IInv => TypeOK
  <2> SUFFICES ASSUME IInv PROVE TypeOK
    OBVIOUS
  <2>1. Typed
    BY DEF IInv
  <2>2. PICK str, off, cut : Carries(str, off, cut)
    BY DEF IInv
  <2>3. ASSUME NEW i \in DOMAIN wire
        PROVE  wire[i].bytes \in Seq(AByte) /\ Len(wire[i].bytes) \in 1..Chunk
    <3>1. wire \in Seq(Sound(sendN, str, cut))
      BY <2>2 DEF Carries, Recorded
    <3>2. wire[i] \in Sound(sendN, str, cut)
      BY <3>1, ElementOfSeq, LenProperties
    <3> QED
      BY <3>2 DEF Sound, Record
  <2>4. Len(buf) <= Header + MaxPayload
    <3>1. CASE buf = <<>>
      <4>1. Len(buf) = 0
        BY <3>1, EmptySeq
      <4> QED
        BY <4>1, StreamAssumption
    <3>2. CASE buf # <<>>
      <4> DEFINE f == Len(received) + 1
      <4>1. sent[f] \in 0..MaxPayload /\ Len(buf) <= Header + sent[f]
        BY <2>1, <2>2, <3>2, FrameRead
      <4>2. Len(buf) \in Nat /\ Header \in Nat /\ MaxPayload \in Nat
        BY <2>1, Lengths
      <4> HIDE DEF f
      <4> QED
        BY <4>1, <4>2
    <3> QED
      BY <3>1, <3>2
  <2>5. recvN \in 0..sendN
    BY <2>1, <2>2 DEF Typed, Carries
  <2> QED
    BY <2>1, <2>3, <2>4, <2>5 DEF Typed, TypeOK
<1> QED
  BY <1>1, StreamInvariant, PTL

-----------------------------------------------------------------------------
(* A stream that nothing disturbs.                                          *)

\* The records under way are those written and not yet read, in order, and both ends are open.
Undisturbed ==
    faults = 0 =>
        /\ ~failed /\ open[W] /\ open[R]
        /\ Len(wire) = sendN - recvN
        /\ \A i \in 1..Len(wire) : wire[i].intact /\ wire[i].n = recvN + i - 1

\* A record given to TCP is the next in number.
LEMMA WriteUndisturbed ==
    ASSUME IInv, Undisturbed, WriteRecord
    PROVE  Undisturbed'
<1> SUFFICES ASSUME faults = 0 PROVE Undisturbed'
  BY DEF WriteRecord, Undisturbed
<1> DEFINE v == NextRecord
<1>1. /\ wire' = Append(wire, v) /\ sendN' = sendN + 1
      /\ UNCHANGED <<recvN, failed, open, faults>>
  BY DEF WriteRecord, readVars
<1>2. v.intact /\ v.n = sendN
  BY DEF NextRecord
<1> HIDE DEF v
<1>3. sendN \in Nat /\ recvN \in Nat
  BY DEF IInv, Typed
<1>4. PICK T : wire \in Seq(T)
  BY DEF IInv, Carries, Recorded
<1>5. wire \in Seq(T \cup {v})
  BY <1>4, SeqMonotonic
<1>6. /\ Len(wire) \in Nat /\ Len(wire') = Len(wire) + 1 /\ wire'[Len(wire) + 1] = v
      /\ \A j \in 1..Len(wire) : wire'[j] = wire[j]
  BY <1>1, <1>5, AppendFacts, SeqFacts
<1> QED
  BY <1>1, <1>2, <1>3, <1>6 DEF Undisturbed

\* A record read is the first of those under way.
LEMMA ReadUndisturbed ==
    ASSUME IInv, Undisturbed, ReadRecord
    PROVE  Undisturbed'
<1> SUFFICES ASSUME faults = 0 PROVE Undisturbed'
  BY DEF ReadRecord, Undisturbed
<1>1. /\ wire # <<>> /\ wire' = Tail(wire) /\ recvN' = recvN + 1
      /\ UNCHANGED <<sendN, failed, open, faults>>
  BY DEF ReadRecord, writeVars
<1>2. sendN \in Nat /\ recvN \in Nat
  BY DEF IInv, Typed
<1>3. PICK T : wire \in Seq(T)
  BY DEF IInv, Carries, Recorded
<1>4. /\ Len(wire) \in Nat /\ Len(wire) >= 1 /\ Len(wire') = Len(wire) - 1
      /\ \A j \in 1..Len(wire) - 1 : wire'[j] = wire[j + 1]
  BY <1>1, <1>3, TailFacts, SeqFacts
<1>5. ASSUME NEW i \in 1..Len(wire')
      PROVE  wire'[i].intact /\ wire'[i].n = recvN' + i - 1
  <2>1. i \in 1..Len(wire) - 1 /\ i + 1 \in 1..Len(wire) /\ recvN + (i + 1) - 1 = recvN + 1 + i - 1
    BY <1>2, <1>4
  <2> QED
    BY <1>1, <1>4, <2>1 DEF Undisturbed
<1> QED
  BY <1>1, <1>2, <1>4, <1>5 DEF Undisturbed

\* noiseConn.Read refuses no record, and no end of the stream, of a stream undisturbed.
LEMMA NoneRefused ==
    ASSUME IInv, Undisturbed, ReadFails
    PROVE  faults # 0
<1> SUFFICES ASSUME faults = 0 PROVE FALSE
  OBVIOUS
<1>1. open[W] /\ open[R]
  BY DEF Undisturbed
<1>2. wire # <<>> /\ ~Good(Head(wire))
  BY <1>1 DEF ReadFails
<1>3. PICK str, off, cut : Carries(str, off, cut)
  BY DEF IInv
<1>4. wire \in Seq(Sound(sendN, str, cut))
  BY <1>3 DEF Carries, Recorded
<1>5. Head(wire) = wire[1] /\ Head(wire) \in Sound(sendN, str, cut) /\ Len(wire) >= 1 /\ Len(wire) \in Nat
  BY <1>2, <1>4, TailFacts, SeqFacts
<1>6. Len(Head(wire).bytes) \in 1..Chunk
  BY <1>5 DEF Sound
<1>7. 1 \in 1..Len(wire) /\ recvN \in Nat /\ recvN + 1 - 1 = recvN
  BY <1>5 DEF IInv, Typed
<1>8. Head(wire).intact /\ Head(wire).n = recvN
  BY <1>5, <1>7 DEF Undisturbed
<1>9. LengthOK(Len(Head(wire).bytes) + Tag)
  BY <1>6, StreamAssumption DEF LengthOK
<1> QED
  BY <1>2, <1>8, <1>9 DEF Good

\* As long as no fault, deadline or close disturbs a stream, the records under way are the
\* next ones, whole and in order, and ReadFrame does not fail: no check of noiseConn.Read
\* or readFull refuses a sound stream.
THEOREM StreamUndisturbed == Spec => []Undisturbed
<1>1. Init => Undisturbed
  <2> SUFFICES ASSUME Init PROVE Undisturbed
    OBVIOUS
  <2>1. Len(wire) = 0 /\ sendN = 0 /\ recvN = 0 /\ ~failed /\ open[W] /\ open[R]
    BY EmptySeq DEF Init
  <2> QED
    BY <2>1 DEF Undisturbed
<1>2. ASSUME IInv, Undisturbed, [Next]_vars PROVE Undisturbed'
  <2>0. faults \in Nat
    BY <1>2 DEF IInv, Typed
  <2>1. CASE UNCHANGED <<wire, sendN, recvN, failed, open, faults>>
    BY <1>2, <2>1 DEF Undisturbed
  <2>2. CASE faults' > 0
    BY <2>2 DEF Undisturbed
  <2>3. CASE \E n \in 0..MaxPayload : WriteFrame(n)
    BY <2>1, <2>3 DEF WriteFrame, readVars
  <2>4. CASE Take \/ Deliver \/ Finished \/ UNCHANGED vars
    BY <2>1, <2>4 DEF Take, Deliver, Finished, vars, writeVars, readVars
  <2>5. CASE ReadTimesOut \/ (\E e \in {W, R} : Close(e)) \/ Damage
    <3>1. faults' = faults + 1
      BY <2>5 DEF ReadTimesOut, Close, Damage, Fault
    <3> QED
      BY <2>0, <2>2, <3>1
  <2>6. CASE WriteFails
    <3>1. faults' = IF open[R] THEN faults + 1 ELSE faults
      BY <2>6 DEF WriteFails
    <3>2. open[R] \/ faults # 0
      BY <1>2 DEF Undisturbed
    <3> QED
      BY <2>0, <2>2, <3>1, <3>2
  <2>7. CASE ReadFails
    <3>1. faults' = faults /\ faults # 0
      BY <1>2, <2>7, NoneRefused DEF ReadFails
    <3> QED
      BY <2>0, <2>2, <3>1
  <2> QED
    BY <1>2, <2>3, <2>4, <2>5, <2>6, <2>7, WriteUndisturbed, ReadUndisturbed DEF Next
<1> QED
  BY <1>1, <1>2, StreamInvariant, PTL DEF Spec

\* Frames arrive whole, in order and once, and none after an error, whatever the lengths
\* of header, payload and record and whatever happens to the records under way:
\* ReadFrame over noiseConn.Read gives back what WriteFrame gave to noiseConn.Write,
\* and fails only when the network, a deadline or a close has disturbed the stream.
THEOREM StreamImplementsChannel == Spec => ImplementsChannel
<1>1. Init => Ch!Init
  BY DEF Init, Ch!Init
<1>2. ASSUME IInv, Undisturbed', Next PROVE Ch!Next \/ UNCHANGED Ch!vars
  <2>1. CASE \E n \in 0..MaxPayload : WriteFrame(n)
    <3>1. PICK n \in 0..MaxPayload : WriteFrame(n)
      BY <2>1
    <3>2. Ch!Send(n)
      BY <3>1 DEF WriteFrame, readVars, Ch!Send
    <3> QED
      BY <3>2 DEF Ch!Next
  <2>2. CASE Deliver
    <3>1. PICK str, off, cut : Carries(str, off, cut)
      BY <1>2 DEF IInv
    <3>2. Len(received) < Len(sent) /\ received' = Append(received, sent[Len(received) + 1])
      BY <1>2, <2>2, <3>1, Delivers DEF IInv
    <3>3. ~failed /\ UNCHANGED <<sent, failed, faults>>
      BY <2>2 DEF Deliver, writeVars
    <3>4. Ch!Deliver
      BY <3>2, <3>3 DEF Ch!Deliver
    <3> QED
      BY <3>4 DEF Ch!Next
  <2>3. CASE ReadFails \/ ReadTimesOut
    <3>1. ~failed /\ failed' = TRUE /\ UNCHANGED <<sent, received>>
      BY <2>3 DEF ReadFails, ReadTimesOut, Waiting, Fails, writeVars
    <3>2. faults' > 0
      <4>1. faults \in Nat /\ (faults' = faults \/ faults' = faults + 1)
        BY <1>2, <2>3 DEF IInv, Typed, ReadFails, ReadTimesOut
      <4>2. faults' # 0
        BY <1>2, <3>1 DEF Undisturbed
      <4> QED
        BY <4>1, <4>2
    <3>3. Ch!Break
      BY <3>1, <3>2 DEF Ch!Break
    <3> QED
      BY <3>3 DEF Ch!Next
  <2>4. CASE WriteRecord \/ ReadRecord \/ Take \/ Finished
    BY <2>4 DEF WriteRecord, ReadRecord, Take, Finished, vars, writeVars, readVars, Ch!vars
  <2>5. CASE WriteFails \/ (\E e \in {W, R} : Close(e)) \/ Damage
    <3>1. UNCHANGED <<sent, received, failed>> /\ (faults' = faults \/ faults' = faults + 1)
      BY <2>5 DEF WriteFails, Close, Damage, Fault, writeVars, readVars
    <3>2. faults \in Nat
      BY <1>2 DEF IInv, Typed
    <3>3. ((faults' > 0) = (faults > 0)) \/ (~(faults > 0) /\ (faults' > 0) = TRUE)
      BY <3>1, <3>2
    <3> QED
      BY <3>1, <3>3 DEF Ch!Next, Ch!Disturb, Ch!vars
  <2> QED
    BY <1>2, <2>1, <2>2, <2>3, <2>4, <2>5 DEF Next
<1>3. ASSUME UNCHANGED vars PROVE UNCHANGED Ch!vars
  BY <1>3 DEF vars, writeVars, readVars, Ch!vars
<1>4. IInv /\ Undisturbed' /\ [Next]_vars => [Ch!Next]_(Ch!vars)
  BY <1>2, <1>3
<1> QED
  BY <1>1, <1>4, StreamInvariant, StreamUndisturbed, PTL DEF Spec, ImplementsChannel, Ch!Spec
=============================================================================
