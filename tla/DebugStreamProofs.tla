------------------------- MODULE DebugStreamProofs -------------------------
(***************************************************************************)
(* What DebugStream promises for any number of debuggers, samples, calls   *)
(* and connections, and for all sizes of headers, samples and buffers.     *)
(* Here: its types with what each step does to the connections, and the    *)
(* argument about positions that DebugStreamPlotProofs builds on.          *)
(*                                                                         *)
(* The bytes of the records sent over a connection stand one behind the    *)
(* other; what the analyzer has plotted, what lies in its buffer, what     *)
(* lies in the kernel's, and what the debugger still owes are four pieces  *)
(* of that line without a gap.                                             *)
(***************************************************************************)
EXTENDS DebugStream, Integers, SequenceTheorems, TLAPS

-----------------------------------------------------------------------------
(* Sequences.                                                              *)

(* A sequence cut behind its first k elements.                             *)
LEMMA CutSequence ==
    ASSUME NEW S, NEW s \in Seq(S), NEW k \in 0..Len(s)
    PROVE  /\ SubSeq(s, 1, k) \in Seq(S)
           /\ Len(SubSeq(s, 1, k)) = k
           /\ \A i \in 1..k : SubSeq(s, 1, k)[i] = s[i]
           /\ SubSeq(s, k + 1, Len(s)) \in Seq(S)
           /\ Len(SubSeq(s, k + 1, Len(s))) = Len(s) - k
           /\ \A i \in 1..(Len(s) - k) : SubSeq(s, k + 1, Len(s))[i] = s[k + i]
<1>1. Len(s) \in Nat /\ k \in Nat
  BY LenProperties
<1>2. \A i \in 1..Len(s) : s[i] \in S
  BY ElementOfSeq
<1>3. /\ SubSeq(s, 1, k) \in Seq(S)
      /\ Len(SubSeq(s, 1, k)) = IF 1 <= k THEN k - 1 + 1 ELSE 0
      /\ \A i \in 1..(k - 1 + 1) : SubSeq(s, 1, k)[i] = s[1 + i - 1]
  <2>1. \A i \in 1..k : s[i] \in S
    BY <1>1, <1>2
  <2> QED BY <1>1, <2>1, SubSeqProperties
<1>4. /\ SubSeq(s, k + 1, Len(s)) \in Seq(S)
      /\ Len(SubSeq(s, k + 1, Len(s))) =
             IF k + 1 <= Len(s) THEN Len(s) - (k + 1) + 1 ELSE 0
      /\ \A i \in 1..(Len(s) - (k + 1) + 1) :
             SubSeq(s, k + 1, Len(s))[i] = s[k + 1 + i - 1]
  <2>1. \A i \in (k + 1)..Len(s) : s[i] \in S
    BY <1>1, <1>2
  <2> QED BY <1>1, <2>1, SubSeqProperties
<1>5. /\ Len(SubSeq(s, 1, k)) = k
      /\ \A i \in 1..k : SubSeq(s, 1, k)[i] = s[i]
  BY <1>1, <1>3
<1>6. /\ Len(SubSeq(s, k + 1, Len(s))) = Len(s) - k
      /\ \A i \in 1..(Len(s) - k) : SubSeq(s, k + 1, Len(s))[i] = s[k + i]
  BY <1>1, <1>4
<1> QED BY <1>3, <1>4, <1>5, <1>6

(* Elements moved from the front of one sequence to the end of another.    *)
LEMMA MoveFront ==
    ASSUME NEW S, NEW s \in Seq(S), NEW t \in Seq(S), NEW k \in 0..Len(t)
    PROVE  (s \o SubSeq(t, 1, k)) \o SubSeq(t, k + 1, Len(t)) = s \o t
<1> DEFINE a == SubSeq(t, 1, k)
           b == SubSeq(t, k + 1, Len(t))
<1>1. /\ a \in Seq(S) /\ b \in Seq(S) /\ Len(t) \in Nat /\ k \in Nat
      /\ Len(a) = k /\ Len(b) = Len(t) - k
      /\ \A i \in 1..k : a[i] = t[i]
      /\ \A i \in 1..(Len(t) - k) : b[i] = t[k + i]
  BY CutSequence, LenProperties
<1> HIDE DEF a, b
<1>2. a \o b = t
  <2>1. /\ a \o b \in Seq(S) /\ Len(a \o b) = Len(a) + Len(b)
        /\ \A i \in 1..(Len(a) + Len(b)) :
              (a \o b)[i] = IF i <= Len(a) THEN a[i] ELSE b[i - Len(a)]
    BY <1>1, ConcatProperties
  <2>2. Len(a \o b) = Len(t)
    BY <1>1, <2>1
  <2>3. ASSUME NEW i \in 1..Len(a \o b)
        PROVE  (a \o b)[i] = t[i]
    <3>1. CASE i <= k
      BY <1>1, <2>1, <2>2, <3>1
    <3>2. CASE i > k
      <4>1. i - k \in 1..(Len(t) - k) /\ k + (i - k) = i
        BY <1>1, <2>2, <3>2
      <4>2. (a \o b)[i] = b[i - k]
        BY <1>1, <2>1, <2>2, <3>2
      <4>3. b[i - k] = t[k + (i - k)]
        BY <1>1, <4>1
      <4> QED BY <4>1, <4>2, <4>3
    <3> QED BY <1>1, <3>1, <3>2
  <2> QED BY <2>1, <2>2, <2>3, SeqEqual
<1>3. (s \o a) \o b = s \o (a \o b)
  BY <1>1, ConcatAssociative
<1> QED BY <1>2, <1>3 DEF a, b

(* Elements dropped from the front of the first of two sequences.          *)
LEMMA DropFront ==
    ASSUME NEW S, NEW s \in Seq(S), NEW t \in Seq(S), NEW k \in 0..Len(s)
    PROVE  /\ SubSeq(s \o t, 1, k) = SubSeq(s, 1, k)
           /\ SubSeq(s, k + 1, Len(s)) \o t = SubSeq(s \o t, k + 1, Len(s \o t))
<1> DEFINE w == s \o t
           a == SubSeq(s, k + 1, Len(s))
           b == SubSeq(w, k + 1, Len(w))
<1>1. /\ Len(s) \in Nat /\ Len(t) \in Nat /\ k \in Nat
      /\ w \in Seq(S) /\ Len(w) = Len(s) + Len(t)
      /\ \A i \in 1..(Len(s) + Len(t)) :
            w[i] = IF i <= Len(s) THEN s[i] ELSE t[i - Len(s)]
  BY LenProperties, ConcatProperties
<1> HIDE DEF w
<1>2. k \in 0..Len(w)
  BY <1>1
<1>3. /\ SubSeq(s, 1, k) \in Seq(S) /\ Len(SubSeq(s, 1, k)) = k
      /\ \A i \in 1..k : SubSeq(s, 1, k)[i] = s[i]
      /\ a \in Seq(S) /\ Len(a) = Len(s) - k
      /\ \A i \in 1..(Len(s) - k) : a[i] = s[k + i]
  BY CutSequence
<1>4. /\ SubSeq(w, 1, k) \in Seq(S) /\ Len(SubSeq(w, 1, k)) = k
      /\ \A i \in 1..k : SubSeq(w, 1, k)[i] = w[i]
      /\ b \in Seq(S) /\ Len(b) = Len(w) - k
      /\ \A i \in 1..(Len(w) - k) : b[i] = w[k + i]
  BY <1>1, <1>2, CutSequence
<1> HIDE DEF a, b
<1>5. SubSeq(w, 1, k) = SubSeq(s, 1, k)
  <2>1. \A i \in 1..k : SubSeq(w, 1, k)[i] = SubSeq(s, 1, k)[i]
    <3> SUFFICES ASSUME NEW i \in 1..k
                 PROVE  SubSeq(w, 1, k)[i] = SubSeq(s, 1, k)[i]
      OBVIOUS
    <3>1. i \in 1..(Len(s) + Len(t)) /\ i <= Len(s)
      BY <1>1
    <3> QED BY <1>1, <1>3, <1>4, <3>1
  <2> QED BY <1>3, <1>4, <2>1, SeqEqual
<1>6. a \o t = b
  <2>1. /\ a \o t \in Seq(S) /\ Len(a \o t) = Len(a) + Len(t)
        /\ \A i \in 1..(Len(a) + Len(t)) :
              (a \o t)[i] = IF i <= Len(a) THEN a[i] ELSE t[i - Len(a)]
    BY <1>3, ConcatProperties
  <2>2. Len(a \o t) = Len(b)
    BY <1>1, <1>3, <1>4, <2>1
  <2>3. ASSUME NEW i \in 1..Len(a \o t)
        PROVE  (a \o t)[i] = b[i]
    <3>1. /\ i \in 1..(Len(w) - k) /\ k + i \in 1..(Len(s) + Len(t))
          /\ i \in 1..(Len(a) + Len(t))
      BY <1>1, <1>3, <1>4, <2>1, <2>2
    <3>2. b[i] = w[k + i]
      BY <1>4, <3>1
    <3>3. CASE i <= Len(a)
      <4>1. i \in 1..(Len(s) - k) /\ k + i <= Len(s)
        BY <1>1, <1>3, <3>1, <3>3
      <4> QED BY <1>1, <1>3, <2>1, <3>1, <3>2, <3>3, <4>1
    <3>4. CASE ~ (i <= Len(a))
      <4>1. ~ (k + i <= Len(s)) /\ i - Len(a) = k + i - Len(s)
        BY <1>1, <1>3, <3>1, <3>4
      <4> QED BY <1>1, <2>1, <3>1, <3>2, <3>4, <4>1
    <3> QED BY <3>3, <3>4
  <2> QED BY <1>4, <2>1, <2>2, <2>3, SeqEqual
<1> QED BY <1>5, <1>6 DEF a, b, w

(* A function on 1..n is a sequence.                                       *)
LEMMA FunctionIsSeq ==
    ASSUME NEW S, NEW n \in Nat, NEW f \in [1..n -> S]
    PROVE  f \in Seq(S) /\ Len(f) = n
<1>1. f \in Seq(S)
  BY SeqDef
<1>2. DOMAIN f = 1..n /\ DOMAIN f = 1..Len(f) /\ Len(f) \in Nat
  BY <1>1, LenProperties
<1> QED BY <1>1, <1>2

-----------------------------------------------------------------------------
(* The bytes of a record.                                                  *)

Size(samples) == Len(samples) * SampleBytes

Encoded(samples) == Header(Size(samples)) \o Bytes(samples)

EncodedLen(samples) == HeaderBytes + Size(samples)

LEMMA SizesAreNumbers ==
    HeaderBytes \in Nat \ {0} /\ SampleBytes \in Nat \ {0}
    /\ SocketBuffer \in Nat /\ MaxSamples \in Nat /\ MaxConnections \in Nat
BY SizesAssumption

(* The lengths a header may hold.                                          *)
LEMMA LengthOfRecord ==
    ASSUME NEW samples \in Seq(1..MaxSamples), Len(samples) <= MaxSamples
    PROVE  /\ Size(samples) \in Nat
           /\ Size(samples) \in Lengths
<1>1. Len(samples) \in 0..MaxSamples
  BY LenProperties, SizesAreNumbers
<1>2. SampleBytes * Len(samples) = Len(samples) * SampleBytes
  BY <1>1, SizesAreNumbers
<1>3. Len(samples) * SampleBytes \in Nat
  BY <1>1, SizesAreNumbers
<1> QED BY <1>1, <1>2, <1>3 DEF Size, Lengths

LEMMA SizeIsNumber ==
    ASSUME NEW samples \in Seq(1..MaxSamples)
    PROVE  /\ Size(samples) \in Nat
           /\ samples # <<>> => Size(samples) > 0
           /\ samples = <<>> => Size(samples) = 0
<1>1. Len(samples) \in Nat /\ (samples # <<>> => Len(samples) > 0)
      /\ (samples = <<>> => Len(samples) = 0)
  BY LenProperties, EmptySeq
<1>2. \A m, n \in Nat : m * n \in Nat
  OBVIOUS
<1>3. \A m, n \in Nat : m > 0 /\ n > 0 => m * n > 0
  OBVIOUS
<1>4. \A n \in Nat : 0 * n = 0
  OBVIOUS
<1> QED BY <1>1, <1>2, <1>3, <1>4, SizesAreNumbers DEF Size

(* A header is told from every other length's.                             *)
LEMMA HeaderFacts ==
    ASSUME NEW l \in Nat
    PROVE  /\ Header(l) \in Seq(Piece)
           /\ Len(Header(l)) = HeaderBytes
           /\ \A j \in 1..HeaderBytes : Header(l)[j] = <<"header", l, j>>
           /\ \A m \in Nat : Header(m) = Header(l) => m = l
<1>1. \A j \in 1..HeaderBytes : <<"header", l, j>> \in Piece
  BY SizesAreNumbers DEF Piece
<1>2. Header(l) \in [1..HeaderBytes -> Piece]
  BY <1>1 DEF Header
<1>3. Header(l) \in Seq(Piece) /\ Len(Header(l)) = HeaderBytes
  BY <1>2, SizesAreNumbers, FunctionIsSeq
<1>4. \A m \in Nat : Header(m)[1] = <<"header", m, 1>>
  BY SizesAreNumbers DEF Header
<1>5. \A m \in Nat : Header(m) = Header(l) => m = l
  BY <1>4
<1> QED BY <1>3, <1>5 DEF Header

LEMMA DivisionBound ==
    ASSUME NEW a \in Nat, NEW b \in Nat, NEW n \in Nat, n > 0, a < b * n
    PROVE  a \div n < b
<1> DEFINE d == a \div n
<1>1. a = n * d + (a % n) /\ a % n \in Nat /\ d \in Nat
  OBVIOUS
<1> HIDE DEF d
<1> SUFFICES ASSUME ~ (d < b) PROVE FALSE
  BY DEF d
<1>2. d * n >= b * n
  BY <1>1
<1>3. d * n = n * d /\ n * d \in Nat /\ b * n \in Nat
  BY <1>1
<1> QED BY <1>1, <1>2, <1>3

LEMMA BytesFacts ==
    ASSUME NEW samples \in Seq(1..MaxSamples)
    PROVE  Bytes(samples) \in Seq(Piece) /\ Len(Bytes(samples)) = Size(samples)
<1>1. Size(samples) \in Nat /\ Len(samples) \in Nat
  BY SizeIsNumber, LenProperties
<1>2. ASSUME NEW j \in 1..Size(samples)
      PROVE  <<"sample", samples[(j - 1) \div SampleBytes + 1],
               ((j - 1) % SampleBytes) + 1>> \in Piece
  <2> DEFINE q == (j - 1) \div SampleBytes
             r == (j - 1) % SampleBytes
  <2>1. j - 1 \in Nat /\ j - 1 < Len(samples) * SampleBytes
    BY <1>1 DEF Size
  <2>2. q \in Nat /\ r \in Nat
    BY <2>1, SizesAreNumbers
  <2>3. q < Len(samples)
    <3>1. /\ Len(samples) \in Nat /\ SampleBytes \in Nat /\ SampleBytes > 0
          /\ j - 1 \in Nat /\ j - 1 < Len(samples) * SampleBytes
      BY <2>1, <1>1, SizesAreNumbers
    <3>2. \A a, b, n \in Nat : n > 0 /\ a < b * n => a \div n < b
      BY DivisionBound
    <3> QED BY <3>1, <3>2
  <2>4. q + 1 \in 1..Len(samples)
    BY <1>1, <2>2, <2>3
  <2>5. samples[q + 1] \in Nat
    BY <2>4, ElementOfSeq, SizesAreNumbers
  <2> QED BY <2>2, <2>5 DEF Piece
<1>3. Bytes(samples) \in [1..Size(samples) -> Piece]
  BY <1>2 DEF Bytes, Size
<1> QED BY <1>1, <1>3, FunctionIsSeq

LEMMA EncodedFacts ==
    ASSUME NEW samples \in Seq(1..MaxSamples)
    PROVE  /\ Encoded(samples) \in Seq(Piece)
           /\ Len(Encoded(samples)) = EncodedLen(samples)
           /\ EncodedLen(samples) \in Nat /\ EncodedLen(samples) > 0
           /\ \A j \in 1..HeaderBytes :
                 Encoded(samples)[j] = Header(Size(samples))[j]
           /\ \A j \in 1..Size(samples) :
                 Encoded(samples)[HeaderBytes + j] = Bytes(samples)[j]
<1> DEFINE h == Header(Size(samples))
           b == Bytes(samples)
<1>1. /\ Size(samples) \in Nat /\ h \in Seq(Piece) /\ Len(h) = HeaderBytes
      /\ b \in Seq(Piece) /\ Len(b) = Size(samples)
  BY SizeIsNumber, HeaderFacts, BytesFacts
<1> HIDE DEF h, b
<1>2. /\ h \o b \in Seq(Piece) /\ Len(h \o b) = Len(h) + Len(b)
      /\ \A i \in 1..(Len(h) + Len(b)) :
            (h \o b)[i] = IF i <= Len(h) THEN h[i] ELSE b[i - Len(h)]
  BY <1>1, ConcatProperties
<1>3. Encoded(samples) = h \o b
  BY DEF Encoded, h, b
<1>4. /\ Len(Encoded(samples)) = EncodedLen(samples)
      /\ EncodedLen(samples) \in Nat /\ EncodedLen(samples) > 0
  BY <1>1, <1>2, <1>3, SizesAreNumbers DEF EncodedLen
<1>5. \A j \in 1..HeaderBytes : Encoded(samples)[j] = h[j]
  BY <1>1, <1>2, <1>3, SizesAreNumbers
<1>6. ASSUME NEW j \in 1..Size(samples)
      PROVE  Encoded(samples)[HeaderBytes + j] = b[j]
  <2> DEFINE n == HeaderBytes + j
  <2>1. n \in 1..(Len(h) + Len(b)) /\ ~ (n <= Len(h)) /\ n - Len(h) = j
    BY <1>1, SizesAreNumbers
  <2> HIDE DEF n
  <2>2. (h \o b)[n] = b[n - Len(h)]
    BY <1>2, <2>1
  <2>3. Encoded(samples)[n] = b[j]
    BY <1>3, <2>1, <2>2
  <2> QED BY <2>3 DEF n
<1> QED BY <1>2, <1>3, <1>4, <1>5, <1>6 DEF h, b

-----------------------------------------------------------------------------
(* The line of bytes of a connection: where in it each record begins.      *)

Layout(from, records) ==
    /\ from \in [1..(Len(records) + 1) -> Nat]
    /\ \A k \in 1..Len(records) :
          from[k + 1] = from[k] + EncodedLen(records[k].samples)
    /\ \A k, l \in 1..(Len(records) + 1) : k <= l => from[k] <= from[l]

(* How far the analyzer has come in it, p records being plotted and the    *)
(* next one's header read or not.                                          *)
Base(from, p, st) == from[p + 1] + (IF st = "READ_DATA" THEN HeaderBytes ELSE 0)

(* From there on the bytes b are on their way, and so many are owed.       *)
Flow(records, b, p, st, length, from, owed) ==
    /\ Layout(from, records)
    /\ p \in 0..Len(records)
    /\ owed \in Nat
    /\ Base(from, p, st) + Len(b) + owed = from[Len(records) + 1]
    /\ \A k \in 1..Len(records) : \A j \in 1..EncodedLen(records[k].samples) :
          LET i == from[k] + j - Base(from, p, st)
          IN  i \in 1..Len(b) => b[i] = Encoded(records[k].samples)[j]
    /\ st = "READ_DATA" => p < Len(records) /\ length = Size(records[p + 1].samples)

(* What the operators are about.                                           *)
LEMMA RecordFacts ==
    ASSUME NEW records \in Seq(Record), NEW k \in 1..Len(records)
    PROVE  /\ records[k] \in Record
           /\ records[k].samples \in Seq(1..MaxSamples)
           /\ Len(records[k].samples) <= MaxSamples
           /\ records[k].clear \in BOOLEAN
           /\ Size(records[k].samples) \in Nat
           /\ EncodedLen(records[k].samples) \in Nat \ {0}
           /\ EncodedLen(records[k].samples)
                  = HeaderBytes + Size(records[k].samples)
<1>1. records[k] \in Record
  BY ElementOfSeq
<1>2. /\ records[k].samples \in Seq(1..MaxSamples) /\ records[k].clear \in BOOLEAN
      /\ Len(records[k].samples) <= MaxSamples
  BY <1>1 DEF Record
<1> QED BY <1>1, <1>2, SizeIsNumber, EncodedFacts DEF EncodedLen

LEMMA BaseIsNumber ==
    ASSUME NEW records \in Seq(Record), NEW from, NEW p \in 0..Len(records),
           NEW st, Layout(from, records)
    PROVE  /\ Len(records) \in Nat /\ p \in Nat
           /\ from[p + 1] \in Nat
           /\ from[Len(records) + 1] \in Nat
           /\ Base(from, p, st) \in Nat
<1>1. Len(records) \in Nat /\ p \in Nat /\ p + 1 \in 1..(Len(records) + 1)
      /\ Len(records) + 1 \in 1..(Len(records) + 1)
  BY LenProperties
<1>2. from[p + 1] \in Nat /\ from[Len(records) + 1] \in Nat
  BY <1>1 DEF Layout
<1> QED BY <1>1, <1>2, SizesAreNumbers DEF Base

LEMMA PositionFacts ==
    ASSUME NEW records \in Seq(Record), NEW from, Layout(from, records),
           NEW k \in 1..Len(records)
    PROVE  /\ from[k] \in Nat /\ from[k + 1] \in Nat
           /\ EncodedLen(records[k].samples) \in Nat \ {0}
           /\ from[k + 1] = from[k] + EncodedLen(records[k].samples)
           /\ \A m \in 1..Len(records) : m < k => from[m + 1] <= from[k]
<1>1. Len(records) \in Nat /\ k \in Nat
  BY LenProperties
<1>2. k \in 1..(Len(records) + 1) /\ k + 1 \in 1..(Len(records) + 1)
  BY <1>1
<1>3. from[k] \in Nat /\ from[k + 1] \in Nat
  BY <1>2 DEF Layout
<1>4. ASSUME NEW m \in 1..Len(records), m < k
      PROVE  from[m + 1] <= from[k]
  <2>1. m + 1 \in 1..(Len(records) + 1) /\ m + 1 <= k
    BY <1>1, <1>4
  <2> QED BY <1>2, <2>1 DEF Layout
<1>5. EncodedLen(records[k].samples) \in Nat \ {0}
  BY RecordFacts
<1>6. from[k + 1] = from[k] + EncodedLen(records[k].samples)
  BY DEF Layout
<1> QED BY <1>3, <1>4, <1>5, <1>6

(* A new connection.                                                       *)
LEMMA FlowStarts ==
    ASSUME NEW length
    PROVE  \E from : Flow(<<>>, <<>>, 0, "READ_HEADER", length, from, 0)
<1> DEFINE g == [k \in 1..1 |-> 0]
<1>1. Len(<<>>) = 0
  BY EmptySeq
<1>2. Layout(g, <<>>)
  BY <1>1 DEF Layout
<1>3. Flow(<<>>, <<>>, 0, "READ_HEADER", length, g, 0)
  BY <1>1, <1>2 DEF Flow, Base
<1> QED BY <1>3

(* analyze_samples() owes the bytes of one record more.                    *)
LEMMA FlowCalls ==
    ASSUME NEW records \in Seq(Record), NEW r \in Record, NEW b \in Seq(Piece),
           NEW p \in Nat, NEW st, NEW length \in Nat, NEW from,
           Flow(records, b, p, st, length, from, 0)
    PROVE  \E g : Flow(Append(records, r), b, p, st, length, g,
                       EncodedLen(r.samples))
<1> DEFINE n == Len(records)
           e == EncodedLen(r.samples)
           g == [k \in 1..(n + 2) |-> IF k <= n + 1 THEN from[k] ELSE from[n + 1] + e]
           new == Append(records, r)
<1>1. /\ n \in Nat /\ p \in 0..n /\ Layout(from, records) /\ Len(b) \in Nat
      /\ from[n + 1] \in Nat
      /\ Base(from, p, st) \in Nat
      /\ Base(from, p, st) + Len(b) = from[n + 1]
  BY BaseIsNumber, LenProperties DEF Flow
<1>2. e \in Nat \ {0}
  BY EncodedFacts DEF Record
<1>3. /\ new \in Seq(Record) /\ Len(new) = n + 1
      /\ \A k \in 1..n : new[k] = records[k]
      /\ new[n + 1] = r
  BY <1>1, AppendProperties
<1> HIDE DEF n, e, new
<1>4. /\ \A k \in 1..(n + 1) : g[k] = from[k] /\ g[k] \in Nat
      /\ g[n + 2] = from[n + 1] + e
      /\ g \in [1..(n + 2) -> Nat]
  <2>1. \A k \in 1..(n + 1) : from[k] \in Nat
    BY <1>1 DEF Layout, n
  <2> QED BY <1>1, <1>2, <2>1
<1> HIDE DEF g
<1>5. Layout(g, new)
  <2>1. g \in [1..(Len(new) + 1) -> Nat]
    BY <1>1, <1>3, <1>4
  <2>2. ASSUME NEW k \in 1..Len(new)
        PROVE  g[k + 1] = g[k] + EncodedLen(new[k].samples)
    <3>1. CASE k <= n
      <4>1. k \in 1..n /\ k + 1 \in 1..(n + 1) /\ k \in 1..(n + 1)
        BY <1>1, <1>3, <3>1
      <4>2. from[k + 1] = from[k] + EncodedLen(records[k].samples)
        BY <4>1, <1>1 DEF Layout, n
      <4> QED BY <1>3, <1>4, <4>1, <4>2
    <3>2. CASE k = n + 1
      <4>1. k + 1 = n + 2 /\ k \in 1..(n + 1)
        BY <1>1, <3>2
      <4> QED BY <1>3, <1>4, <3>2, <4>1 DEF e
    <3> QED BY <1>1, <1>3, <3>1, <3>2
  <2>3. ASSUME NEW k \in 1..(Len(new) + 1), NEW l \in 1..(Len(new) + 1), k <= l
        PROVE  g[k] <= g[l]
    <3>1. CASE l <= n + 1
      <4>1. k \in 1..(n + 1) /\ l \in 1..(n + 1)
        BY <1>1, <1>3, <2>3, <3>1
      <4>2. from[k] <= from[l]
        BY <1>1, <2>3, <4>1 DEF Layout, n
      <4> QED BY <1>4, <4>1, <4>2
    <3>2. CASE l = n + 2 /\ k <= n + 1
      <4>1. k \in 1..(n + 1) /\ n + 1 \in 1..(n + 1)
        BY <1>1, <3>2
      <4>2. from[k] <= from[n + 1]
        BY <1>1, <4>1 DEF Layout, n
      <4> QED BY <1>1, <1>2, <1>4, <3>2, <4>1, <4>2
    <3>3. CASE l = n + 2 /\ k = n + 2
      BY <1>1, <1>2, <1>4, <3>3
    <3> QED BY <1>1, <1>3, <2>3, <3>1, <3>2, <3>3
  <2> QED BY <2>1, <2>2, <2>3 DEF Layout
<1>6. Base(g, p, st) = Base(from, p, st)
  <2>1. p + 1 \in 1..(n + 1)
    BY <1>1
  <2> QED BY <1>4, <2>1 DEF Base
<1>7. ASSUME NEW k \in 1..Len(new), NEW j \in 1..EncodedLen(new[k].samples),
             g[k] + j - Base(g, p, st) \in 1..Len(b)
      PROVE  b[g[k] + j - Base(g, p, st)] = Encoded(new[k].samples)[j]
  <2>1. CASE k <= n
    <3>1. k \in 1..n /\ k \in 1..(n + 1) /\ new[k] = records[k] /\ g[k] = from[k]
      BY <1>1, <1>3, <1>4, <2>1
    <3>2. /\ j \in 1..EncodedLen(records[k].samples)
          /\ from[k] + j - Base(from, p, st) \in 1..Len(b)
      BY <1>6, <1>7, <3>1
    <3>3. b[from[k] + j - Base(from, p, st)]
              = Encoded(records[k].samples)[j]
      BY <3>1, <3>2 DEF Flow, n
    <3> QED BY <1>6, <3>1, <3>3
  <2>2. CASE k = n + 1
    <3>1. g[k] = from[n + 1] /\ EncodedLen(new[k].samples) \in Nat
      BY <1>1, <1>2, <1>3, <1>4, <2>2 DEF e
    <3> QED BY <1>1, <1>6, <1>7, <3>1
  <2> QED BY <1>1, <1>3, <2>1, <2>2
<1>8. st = "READ_DATA" => p < Len(new) /\ length = Size(new[p + 1].samples)
  <2>1. st = "READ_DATA" => p < n /\ length = Size(records[p + 1].samples)
    BY DEF Flow, n
  <2>2. st = "READ_DATA" => p + 1 \in 1..n
    BY <1>1, <2>1
  <2> QED BY <1>1, <1>3, <2>1, <2>2
<1>9. Flow(new, b, p, st, length, g, e)
  <2>1. Base(g, p, st) + Len(b) + e = g[Len(new) + 1]
    BY <1>1, <1>2, <1>3, <1>4, <1>6
  <2>2. p \in 0..Len(new)
    BY <1>1, <1>3
  <2> QED BY <1>2, <1>5, <1>7, <1>8, <2>1, <2>2 DEF Flow
<1> QED BY <1>9 DEF new, e

(* The bytes a debugger has still to send of its last record: all those    *)
(* that are owed, or with the header those of the header.                  *)
Pending(rest, samples, owed) ==
    /\ owed \in 1..EncodedLen(samples)
    /\ rest \in Seq(Piece)
    /\ Len(rest) \in 1..owed
    /\ \A i \in 1..Len(rest) :
          rest[i] = Encoded(samples)[EncodedLen(samples) - owed + i]

(* send(): the kernel takes the first k of them.                           *)
LEMMA FlowSends ==
    ASSUME NEW records \in Seq(Record), records # <<>>, NEW b \in Seq(Piece),
           NEW p \in Nat, NEW st, NEW length \in Nat, NEW from, NEW owed \in Nat,
           Flow(records, b, p, st, length, from, owed),
           NEW rest,
           Pending(rest, records[Len(records)].samples, owed),
           NEW k \in 1..Len(rest)
    PROVE  Flow(records, b \o SubSeq(rest, 1, k), p, st, length, from,
                owed - k)
<1> DEFINE n == Len(records)
           last == records[n].samples
           e == EncodedLen(last)
           t == SubSeq(rest, 1, k)
           c == b \o t
           base == Base(from, p, st)
           end == from[n + 1]
           begin == from[n]
           taken == Len(b)
           left == Len(rest)
<1>1. /\ n \in Nat /\ n > 0 /\ p \in 0..n /\ Layout(from, records)
      /\ taken \in Nat /\ end \in Nat /\ base \in Nat
      /\ base + taken + owed = end
  BY BaseIsNumber, LenProperties, EmptySeq DEF Flow
<1>2. /\ rest \in Seq(Piece) /\ left \in Nat /\ left <= owed /\ owed <= e
      /\ k \in Nat /\ k > 0 /\ k <= left
      /\ \A i \in 1..left : rest[i] = Encoded(last)[e - owed + i]
  BY <1>1, LenProperties DEF Pending
<1>3. e \in Nat /\ e > 0 /\ n \in 1..n
  BY <1>1, RecordFacts
<1>4. /\ t \in Seq(Piece) /\ Len(t) = k /\ \A i \in 1..k : t[i] = rest[i]
  BY <1>2, CutSequence
<1>5. end = begin + e /\ begin \in Nat
  BY <1>1, <1>3, PositionFacts
<1> HIDE DEF t
<1>6. /\ c \in Seq(Piece) /\ Len(c) = taken + k
      /\ \A i \in 1..(taken + k) :
            c[i] = IF i <= taken THEN b[i] ELSE t[i - taken]
  BY <1>4, ConcatProperties
<1> HIDE DEF n, last, e, c, base, end, begin, taken, left
<1>7. ASSUME NEW m \in 1..n, NEW j \in 1..EncodedLen(records[m].samples),
             from[m] + j - base \in 1..Len(c)
      PROVE  c[from[m] + j - base] = Encoded(records[m].samples)[j]
  <2> DEFINE at == from[m]
             after == from[m + 1]
             l == EncodedLen(records[m].samples)
             i == at + j - base
  <2>1. /\ at \in Nat /\ after \in Nat /\ l \in Nat /\ after = at + l
        /\ j \in Nat /\ j > 0 /\ j <= l
        /\ m = n \/ after <= begin
    <3>1. /\ at \in Nat /\ after \in Nat /\ l \in Nat \ {0} /\ after = at + l
      BY <1>1, PositionFacts DEF n
    <3>2. m = n \/ after <= begin
      BY <1>1, <1>3, PositionFacts DEF n, begin
    <3> QED BY <3>1, <3>2
  <2>2. i \in 1..Len(c) /\ i = at + j - base
    BY <1>7
  <2>3. (i \in 1..taken) => b[i] = Encoded(records[m].samples)[j]
    BY DEF Flow, n, base, taken, i, at
  <2> HIDE DEF at, after, l, i
  <2>4. /\ i \in 1..(taken + k) /\ i \in Int
    BY <1>1, <1>2, <1>6, <2>2
  <2>5. CASE i <= taken
    <3>1. i \in 1..taken
      BY <2>4, <2>5, <1>1
    <3> QED BY <1>6, <2>3, <2>4, <2>5, <3>1 DEF i, at
  <2>6. CASE i > taken
    <3>1. m = n
      <4>1. ~ (after <= begin)
        BY <1>1, <1>2, <1>3, <1>5, <2>1, <2>2, <2>6
      <4> QED BY <2>1, <4>1
    <3>2. at = begin /\ records[m].samples = last
      BY <3>1 DEF at, begin, last
    <3>3. /\ i - taken \in 1..left /\ i - taken \in 1..k
          /\ e - owed + (i - taken) = j
      BY <1>1, <1>2, <1>3, <1>5, <2>1, <2>2, <2>4, <2>6, <3>2
    <3>4. c[i] = t[i - taken]
      BY <1>1, <1>6, <2>4, <2>6
    <3>5. t[i - taken] = Encoded(last)[e - owed + (i - taken)]
      BY <1>2, <1>4, <3>3
    <3> QED BY <3>2, <3>3, <3>4, <3>5 DEF i, at
  <2> QED BY <1>1, <2>4, <2>5, <2>6
<1>8. base + Len(c) + (owed - k) = end /\ owed - k \in Nat
  BY <1>1, <1>2, <1>6
<1>9. st = "READ_DATA" => p < n /\ length = Size(records[p + 1].samples)
  BY DEF Flow, n
<1>10. Flow(records, c, p, st, length, from, owed - k)
  BY <1>1, <1>7, <1>8, <1>9 DEF Flow, base, n, end
<1> QED BY <1>10 DEF c, t

(* The analyzer reads a header: it is that of the next record.             *)
LEMMA FlowReadsHeader ==
    ASSUME NEW records \in Seq(Record), NEW b \in Seq(Piece),
           NEW p \in Nat, NEW length \in Nat, NEW from, NEW owed \in Nat,
           Flow(records, b, p, "READ_HEADER", length, from, owed),
           ~ (Len(b) < HeaderBytes)
    PROVE  /\ p < Len(records)
           /\ SubSeq(b, 1, HeaderBytes) = Header(Size(records[p + 1].samples))
           /\ Flow(records, SubSeq(b, HeaderBytes + 1, Len(b)), p, "READ_DATA",
                   Size(records[p + 1].samples), from, owed)
<1> DEFINE n == Len(records)
           c == SubSeq(b, HeaderBytes + 1, Len(b))
           h == SubSeq(b, 1, HeaderBytes)
           base == from[p + 1]
           end == from[n + 1]
           taken == Len(b)
           next == records[p + 1].samples
           size == Size(next)
           e == EncodedLen(next)
<1>1. /\ n \in Nat /\ p \in 0..n /\ Layout(from, records)
      /\ taken \in Nat /\ end \in Nat /\ base \in Nat
      /\ base + taken + owed = end
  BY BaseIsNumber, LenProperties DEF Flow, Base
<1>2. /\ HeaderBytes \in 0..taken /\ HeaderBytes \in Nat /\ HeaderBytes > 0
  BY <1>1, SizesAreNumbers
<1>3. /\ h \in Seq(Piece) /\ Len(h) = HeaderBytes
      /\ \A i \in 1..HeaderBytes : h[i] = b[i]
      /\ c \in Seq(Piece) /\ Len(c) = taken - HeaderBytes
      /\ \A i \in 1..(taken - HeaderBytes) : c[i] = b[HeaderBytes + i]
  BY <1>2, CutSequence
<1>4. p < n
  <2>1. p # n
    <3>1. p = n => base = end
      OBVIOUS
    <3> HIDE DEF base, end, taken
    <3> QED BY <1>1, <1>2, <3>1
  <2> QED BY <1>1, <2>1
<1>5. /\ p + 1 \in 1..n /\ next \in Seq(1..MaxSamples) /\ size \in Nat
      /\ e = HeaderBytes + size
  BY <1>1, <1>4, RecordFacts
<1>6. ASSUME NEW k \in 1..n, NEW j \in 1..EncodedLen(records[k].samples),
             from[k] + j - base \in 1..taken
      PROVE  b[from[k] + j - base] = Encoded(records[k].samples)[j]
  <2>1. Base(from, p, "READ_HEADER") = base
    BY <1>1 DEF Base
  <2> QED BY <2>1, <1>6 DEF Flow
<1>7. Base(from, p, "READ_DATA") = base + HeaderBytes
  BY DEF Base
<1> HIDE DEF h, c, n, base, end, taken, next, size, e
<1>8. h = Header(size)
  <2>1. Header(size) \in Seq(Piece) /\ Len(Header(size)) = HeaderBytes
    BY <1>5, HeaderFacts
  <2>2. ASSUME NEW j \in 1..HeaderBytes
        PROVE  h[j] = Header(size)[j]
    <3>1. j \in 1..e /\ j \in 1..taken /\ base + j - base = j
      BY <1>1, <1>2, <1>5
    <3>2. b[j] = Encoded(next)[j]
      BY <1>5, <1>6, <3>1 DEF base, next, e
    <3>3. Encoded(next)[j] = Header(size)[j]
      BY <1>5, EncodedFacts DEF size
    <3> QED BY <1>3, <3>2, <3>3
  <2> QED BY <1>3, <2>1, <2>2, SeqEqual
<1>9. ASSUME NEW k \in 1..n, NEW j \in 1..EncodedLen(records[k].samples),
             from[k] + j - (base + HeaderBytes) \in 1..Len(c)
      PROVE  c[from[k] + j - (base + HeaderBytes)] = Encoded(records[k].samples)[j]
  <2> DEFINE at == from[k]
             i == at + j - (base + HeaderBytes)
  <2>1. at \in Nat /\ j \in Nat
    BY <1>1, PositionFacts DEF n
  <2>2. i \in 1..Len(c) /\ i = at + j - (base + HeaderBytes)
    BY <1>9
  <2>3. (at + j - base \in 1..taken) =>
            b[at + j - base] = Encoded(records[k].samples)[j]
    BY <1>6
  <2> HIDE DEF at, i
  <2>4. /\ i \in 1..(taken - HeaderBytes)
        /\ HeaderBytes + i = at + j - base
        /\ HeaderBytes + i \in 1..taken
    BY <1>1, <1>2, <1>3, <2>1, <2>2
  <2>5. c[i] = Encoded(records[k].samples)[j]
    BY <1>3, <2>3, <2>4
  <2> QED BY <2>5 DEF i, at
<1>10. base + HeaderBytes + Len(c) + owed = end
  BY <1>1, <1>2, <1>3
<1>11. Flow(records, c, p, "READ_DATA", size, from, owed)
  BY <1>1, <1>4, <1>7, <1>9, <1>10 DEF Flow, n, end, size, next
<1> QED BY <1>4, <1>8, <1>11 DEF n, c, h, size, next

(* It reads the payload: those are the record's bytes, and if the last     *)
(* record is still owed some it is not that record.                        *)
LEMMA FlowPlots ==
    ASSUME NEW records \in Seq(Record), NEW b \in Seq(Piece),
           NEW p \in Nat, NEW length \in Nat, NEW from, NEW owed \in Nat,
           NEW l \in Nat,
           Flow(records, b, p, "READ_DATA", length, from, owed),
           ~ (Len(b) < length)
    PROVE  /\ p + 1 \in 1..Len(records)
           /\ owed > 0 => p + 1 < Len(records)
           /\ SubSeq(b, 1, length) = Bytes(records[p + 1].samples)
           /\ Flow(records, SubSeq(b, length + 1, Len(b)), p + 1, "READ_HEADER",
                   l, from, owed)
<1> DEFINE n == Len(records)
           c == SubSeq(b, length + 1, Len(b))
           h == SubSeq(b, 1, length)
           base == Base(from, p, "READ_DATA")
           begin == from[p + 1]
           after == from[(p + 1) + 1]
           end == from[n + 1]
           taken == Len(b)
           next == records[p + 1].samples
           e == EncodedLen(next)
<1>1. /\ n \in Nat /\ p \in 0..n /\ Layout(from, records)
      /\ taken \in Nat /\ begin \in Nat /\ end \in Nat
      /\ base \in Nat /\ base = begin + HeaderBytes
      /\ base + taken + owed = end
      /\ p < n /\ length = Size(next)
  BY BaseIsNumber, LenProperties DEF Flow, Base
<1>2. /\ p + 1 \in 1..n /\ next \in Seq(1..MaxSamples)
      /\ e = HeaderBytes + length
  <2>1. p + 1 \in 1..n
    BY <1>1
  <2>2. next \in Seq(1..MaxSamples) /\ e = HeaderBytes + Size(next)
    BY <2>1, RecordFacts
  <2> QED BY <1>1, <2>1, <2>2
<1>3. length \in 0..taken /\ HeaderBytes \in Nat
  BY <1>1, SizesAreNumbers
<1>4. /\ h \in Seq(Piece) /\ Len(h) = length
      /\ \A i \in 1..length : h[i] = b[i]
      /\ c \in Seq(Piece) /\ Len(c) = taken - length
      /\ \A i \in 1..(taken - length) : c[i] = b[length + i]
  BY <1>3, CutSequence
<1>5. after = begin + e /\ after \in Nat
  BY <1>1, <1>2, PositionFacts
<1>6. p + 1 = n => after = end
  OBVIOUS
<1>7. Base(from, p + 1, "READ_HEADER") = after
  BY <1>5 DEF Base
<1>8. ASSUME NEW k \in 1..n, NEW j \in 1..EncodedLen(records[k].samples),
             from[k] + j - base \in 1..taken
      PROVE  b[from[k] + j - base] = Encoded(records[k].samples)[j]
  BY <1>8 DEF Flow
<1> HIDE DEF n, h, c, base, begin, after, end, taken, next, e
<1>9. after = base + length
  BY <1>1, <1>2, <1>3, <1>5
<1>10. owed > 0 => p + 1 < n
  <2>1. owed > 0 => p + 1 # n
    BY <1>1, <1>3, <1>6, <1>9
  <2> QED BY <1>1, <2>1
<1>11. h = Bytes(next)
  <2>1. Bytes(next) \in Seq(Piece) /\ Len(Bytes(next)) = length
    BY <1>1, <1>2, BytesFacts
  <2>2. ASSUME NEW j \in 1..length
        PROVE  h[j] = Bytes(next)[j]
    <3> DEFINE i == HeaderBytes + j
    <3>1. i \in 1..e /\ j \in 1..taken /\ begin + i - base = j
      BY <1>1, <1>2, <1>3
    <3> HIDE DEF i
    <3>2. b[j] = Encoded(next)[i]
      BY <1>2, <1>8, <3>1 DEF begin, next, e
    <3>3. Encoded(next)[i] = Bytes(next)[j]
      BY <1>1, <1>2, EncodedFacts DEF i
    <3> QED BY <1>4, <3>2, <3>3
  <2> QED BY <1>4, <2>1, <2>2, SeqEqual
<1>12. ASSUME NEW k \in 1..n, NEW j \in 1..EncodedLen(records[k].samples),
              from[k] + j - after \in 1..Len(c)
       PROVE  c[from[k] + j - after] = Encoded(records[k].samples)[j]
  <2> DEFINE at == from[k]
             i == at + j - after
  <2>1. at \in Nat /\ j \in Nat
    BY <1>1, PositionFacts DEF n
  <2>2. i \in 1..Len(c) /\ i = at + j - after
    BY <1>12
  <2>3. (at + j - base \in 1..taken) =>
            b[at + j - base] = Encoded(records[k].samples)[j]
    BY <1>8
  <2> HIDE DEF at, i
  <2>4. /\ i \in 1..(taken - length)
        /\ length + i = at + j - base
        /\ length + i \in 1..taken
    <3>1. i \in 1..(taken - length)
      BY <1>4, <2>2
    <3>2. taken \in Nat /\ length \in Nat /\ base \in Nat /\ after = base + length
      BY <1>1, <1>9
    <3> QED BY <2>1, <2>2, <3>1, <3>2
  <2>5. c[i] = Encoded(records[k].samples)[j]
    BY <1>4, <2>3, <2>4
  <2> QED BY <2>5 DEF i, at
<1>13. after + Len(c) + owed = end
  BY <1>1, <1>3, <1>4, <1>9
<1>14. Flow(records, c, p + 1, "READ_HEADER", l, from, owed)
  <2>1. p + 1 \in 0..n
    BY <1>1
  <2> QED BY <1>1, <1>7, <1>12, <1>13, <2>1 DEF Flow, n, end
<1> QED BY <1>2, <1>10, <1>11, <1>14 DEF n, c, h, next

-----------------------------------------------------------------------------
(* Types.                                                                  *)

(* What follows from them for one debugger, for one connection.            *)
LEMMA DebuggerIsTyped ==
    ASSUME StreamTypeOK, NEW c \in Clients
    PROVE  /\ d_attached[c] \in BOOLEAN
           /\ d_socket[c] \in 0..Len(conns) /\ d_socket[c] \in Nat
           /\ d_samples[c] \in Seq(1..MaxSamples)
           /\ stored[c] \in 0..MaxSamples
           /\ Len(d_samples[c]) \in Nat /\ Len(d_samples[c]) <= stored[c]
           /\ Len(d_samples[c]) <= MaxSamples
           /\ call[c] \in Call /\ call[c].rest \in Seq(Piece)
           /\ call[c].taken \in Nat /\ call[c].clear \in BOOLEAN
           /\ Len(call[c].rest) \in Nat
<1>1. /\ d_attached[c] \in BOOLEAN /\ d_socket[c] \in 0..Len(conns)
      /\ d_samples[c] \in Seq(1..MaxSamples) /\ stored[c] \in 0..MaxSamples
      /\ Len(d_samples[c]) <= stored[c] /\ call[c] \in Call
      /\ conns \in Seq(Connection)
  BY DEF StreamTypeOK
<1>2. Len(d_samples[c]) \in Nat /\ Len(conns) \in Nat
  BY <1>1, LenProperties
<1>3. /\ call[c].rest \in Seq(Piece) /\ call[c].taken \in Nat
      /\ call[c].clear \in BOOLEAN
  BY <1>1 DEF Call
<1>4. Len(call[c].rest) \in Nat
  BY <1>3, LenProperties
<1> QED BY <1>1, <1>2, <1>3, <1>4, SizesAreNumbers

LEMMA ConnectionIsTyped ==
    ASSUME NEW r \in Connection
    PROVE  /\ r.client \in Clients /\ r.stream \in Seq(Piece)
           /\ r.open \in BOOLEAN
           /\ r.end \in {"waiting", "served", "closed", "lost"}
           /\ r.records \in Seq(Record) /\ r.complete \in Nat
           /\ Len(r.records) \in Nat /\ Len(r.stream) \in Nat
<1>1. r.stream \in Seq(Piece) /\ r.records \in Seq(Record)
  BY DEF Connection
<1> QED BY <1>1, LenProperties DEF Connection

LEMMA ConnectionsAreTyped ==
    ASSUME StreamTypeOK
    PROVE  /\ conns \in Seq(Connection) /\ Len(conns) \in 0..MaxConnections
           /\ conns \in [1..Len(conns) -> Connection]
           /\ client_socket \in 0..Len(conns) /\ client_socket \in Nat
           /\ \A n \in 1..Len(conns) : conns[n] \in Connection /\ n \in Nat
                                       /\ n \in 1..MaxConnections
           /\ plots \in [1..MaxConnections -> Seq(Seq(Piece))]
           /\ data \in Seq(Piece) /\ data_len \in Nat /\ Len(data) \in Nat
           /\ state \in {"READ_HEADER", "READ_DATA"}
<1>1. conns \in Seq(Connection) /\ Len(conns) <= MaxConnections
  BY DEF StreamTypeOK
<1>2. Len(conns) \in Nat /\ conns \in [1..Len(conns) -> Connection]
  BY <1>1, LenProperties
<1>3. data_len \in Nat
  BY SizesAreNumbers DEF StreamTypeOK, Lengths
<1>4. data \in Seq(Piece) /\ Len(data) \in Nat
  BY LenProperties DEF StreamTypeOK
<1> QED BY <1>1, <1>2, <1>3, <1>4, SizesAreNumbers DEF StreamTypeOK

(* The connections after a step that changes some of them in place.        *)
ConnectionsTyped(cs, served) ==
    /\ cs \in Seq(Connection) /\ Len(cs) <= MaxConnections
    /\ \A n \in 1..Len(cs) :
          /\ SocketBuffer - Len(cs[n].stream) >= 0
          /\ cs[n].end = "served" <=> served = n

LEMMA ConnectionsChanged ==
    ASSUME StreamTypeOK, NEW served, NEW f,
           f \in [1..Len(conns) -> Connection],
           \A n \in 1..Len(conns) :
              /\ SocketBuffer - Len(f[n].stream) >= 0
              /\ f[n].end = "served" <=> served = n
    PROVE  /\ ConnectionsTyped(f, served)
           /\ Len(f) = Len(conns)
<1>1. f \in Seq(Connection) /\ Len(f) = Len(conns)
  BY ConnectionsAreTyped, FunctionIsSeq
<1> QED BY <1>1, ConnectionsAreTyped DEF ConnectionsTyped

LEMMA NoCallIsTyped == NoCall \in Call /\ <<>> \in Seq(Piece) /\ <<>> \in Seq(Record)
                       /\ <<>> \in Seq(1..MaxSamples)
BY EmptySeq DEF NoCall, Call

LEMMA StreamTypesInit == StreamInit => StreamTypeOK
<1> SUFFICES ASSUME StreamInit PROVE StreamTypeOK
  OBVIOUS
<1>1. /\ Len(<<>>) = 0 /\ <<>> \in Seq(Connection) /\ <<>> \in Seq(Piece)
      /\ <<>> \in Seq(1..MaxSamples) /\ <<>> \in Seq(Seq(Piece))
  BY EmptySeq
<1>2. 0 \in Lengths
  <2>1. SampleBytes * 0 = 0 /\ 0 \in 0..MaxSamples
    BY SizesAreNumbers
  <2> QED BY <2>1 DEF Lengths
<1>3. conns = <<>> /\ \A n \in 1..Len(conns) : FALSE
  BY <1>1 DEF StreamInit
<1> QED BY <1>1, <1>2, <1>3, NoCallIsTyped, SizesAreNumbers
    DEF StreamInit, StreamTypeOK

LEMMA AttachTypes ==
    ASSUME StreamTypeOK, NEW c \in Clients, Attach(c)
    PROVE  /\ StreamTypeOK'
           /\ Len(conns') = Len(conns) + 1 /\ d_socket'[c] = Len(conns) + 1
           /\ \A n \in 1..Len(conns) : conns'[n] = conns[n]
           /\ conns'[Len(conns) + 1] =
                 [client |-> c, stream |-> <<>>, open |-> TRUE,
                  end |-> "waiting", records |-> <<>>, complete |-> 0]
<1> DEFINE r == [client |-> c, stream |-> <<>>, open |-> TRUE,
                 end |-> "waiting", records |-> <<>>, complete |-> 0]
           n == Len(conns)
<1>1. /\ conns' = Append(conns, r) /\ n < MaxConnections
      /\ d_socket' = [d_socket EXCEPT ![c] = Len(conns')]
      /\ d_attached' = [d_attached EXCEPT ![c] = TRUE]
      /\ UNCHANGED <<d_samples, stored, call, analyzer, plotterVars>>
  BY DEF Attach
<1>2. r \in Connection
  BY EmptySeq DEF Connection
<1>3. n \in Nat /\ conns \in Seq(Connection)
  BY ConnectionsAreTyped
<1>4. /\ conns' \in Seq(Connection) /\ Len(conns') = n + 1
      /\ \A m \in 1..n : conns'[m] = conns[m]
      /\ conns'[n + 1] = r
  BY <1>1, <1>2, <1>3, AppendProperties
<1> HIDE DEF n
<1>5. d_socket'[c] = n + 1
  BY <1>1, <1>4 DEF StreamTypeOK
<1>6. d_socket' \in [Clients -> 0..Len(conns')]
  <2>1. d_socket \in [Clients -> 0..n]
    BY DEF StreamTypeOK, n
  <2> QED BY <1>1, <1>3, <1>4, <2>1
<1>7. ASSUME NEW m \in 1..Len(conns')
      PROVE  /\ SocketBuffer - Len(conns'[m].stream) >= 0
             /\ conns'[m].end = "served" <=> client_socket = m
  <2>1. CASE m \in 1..n
    BY <1>4, <2>1 DEF StreamTypeOK, Room, n
  <2>2. CASE m = n + 1
    <3>1. Len(conns'[m].stream) = 0 /\ conns'[m].end = "waiting"
      BY <1>4, <2>2, EmptySeq
    <3>2. client_socket # m
      BY <1>3, <2>2, ConnectionsAreTyped DEF n
    <3> QED BY <3>1, <3>2, SizesAreNumbers
  <2> QED BY <1>3, <1>4, <2>1, <2>2
<1>8. /\ Len(conns') <= MaxConnections /\ client_socket \in 0..Len(conns')
  BY <1>1, <1>3, <1>4, SizesAreNumbers, ConnectionsAreTyped DEF n
<1>9. StreamTypeOK'
  BY <1>1, <1>4, <1>6, <1>7, <1>8 DEF StreamTypeOK, plotterVars, Room
<1> QED BY <1>4, <1>5, <1>9 DEF n

(* The steps of a debugger that change its connections at most in what     *)
(* none of the properties is about.                                        *)
OnlyOpenChanged ==
    /\ Len(conns') = Len(conns) /\ conns' \in Seq(Connection)
    /\ \A n \in 1..Len(conns) :
          /\ conns'[n].client = conns[n].client
          /\ conns'[n].stream = conns[n].stream
          /\ conns'[n].end = conns[n].end
          /\ conns'[n].records = conns[n].records
          /\ conns'[n].complete = conns[n].complete

LEMMA OpenChanged ==
    ASSUME StreamTypeOK,
           conns' = [n \in 1..Len(conns) |-> conns'[n]],
           \A n \in 1..Len(conns) : \E o \in BOOLEAN :
              conns'[n] = [conns[n] EXCEPT !.open = o]
    PROVE  OnlyOpenChanged /\ ConnectionsTyped(conns', client_socket)
<1>1. ASSUME NEW n \in 1..Len(conns)
      PROVE  /\ conns'[n] \in Connection
             /\ conns'[n].client = conns[n].client
             /\ conns'[n].stream = conns[n].stream
             /\ conns'[n].end = conns[n].end
             /\ conns'[n].records = conns[n].records
             /\ conns'[n].complete = conns[n].complete
             /\ SocketBuffer - Len(conns'[n].stream) >= 0
             /\ conns'[n].end = "served" <=> client_socket = n
  <2>1. PICK o \in BOOLEAN : conns'[n] = [conns[n] EXCEPT !.open = o]
    OBVIOUS
  <2>2. conns[n] \in Connection
    BY ConnectionsAreTyped
  <2>3. /\ SocketBuffer - Len(conns[n].stream) >= 0
        /\ conns[n].end = "served" <=> client_socket = n
    BY DEF StreamTypeOK, Room
  <2> QED BY <2>1, <2>2, <2>3 DEF Connection
<1> DEFINE f == conns'
<1>2. f \in [1..Len(conns) -> Connection]
  BY <1>1
<1>3. ConnectionsTyped(f, client_socket) /\ Len(f) = Len(conns)
  <2> HIDE DEF f
  <2>1. \A n \in 1..Len(conns) :
           /\ SocketBuffer - Len(f[n].stream) >= 0
           /\ f[n].end = "served" <=> client_socket = n
    BY <1>1 DEF f
  <2> QED BY <1>2, <2>1, ConnectionsChanged
<1> QED BY <1>1, <1>3 DEF OnlyOpenChanged, ConnectionsTyped

(* What the types of the connections leave to show.                        *)
LEMMA TypesTogether ==
    ASSUME StreamTypeOK,
           ConnectionsTyped(conns', client_socket'), Len(conns') = Len(conns),
           d_attached' \in [Clients -> BOOLEAN],
           d_socket' \in [Clients -> 0..Len(conns)],
           d_samples' \in [Clients -> Seq(1..MaxSamples)],
           stored' \in [Clients -> 0..MaxSamples],
           \A c \in Clients : Len(d_samples'[c]) <= stored'[c],
           call' \in [Clients -> Call],
           analyzer' \in BOOLEAN,
           client_socket' \in 0..Len(conns),
           state' \in {"READ_HEADER", "READ_DATA"},
           data' \in Seq(Piece),
           data_len' \in Lengths,
           plots' \in [1..MaxConnections -> Seq(Seq(Piece))]
    PROVE  StreamTypeOK'
BY DEF StreamTypeOK, ConnectionsTyped, Room

LEMMA AttachRefusedTypes ==
    ASSUME StreamTypeOK, NEW c \in Clients, AttachRefused(c)
    PROVE  StreamTypeOK'
<1>1. 0 \in 0..Len(conns)
  BY ConnectionsAreTyped
<1> QED BY <1>1 DEF AttachRefused, StreamTypeOK, plotterVars, Room

LEMMA DetachTypes ==
    ASSUME StreamTypeOK, NEW c \in Clients, Detach(c)
    PROVE  StreamTypeOK' /\ OnlyOpenChanged
<1>1. /\ conns' = [n \in 1..Len(conns) |->
                      [conns[n] EXCEPT !.open = @ /\ n # d_socket[c]]]
      /\ d_attached' = [d_attached EXCEPT ![c] = FALSE]
      /\ UNCHANGED <<d_socket, d_samples, stored, call, analyzer, plotterVars>>
  BY DEF Detach
<1>2. \A n \in 1..Len(conns) : conns[n].open \in BOOLEAN
  BY ConnectionsAreTyped DEF Connection
<1>3. \A n \in 1..Len(conns) : \E o \in BOOLEAN :
         conns'[n] = [conns[n] EXCEPT !.open = o]
  <2> SUFFICES ASSUME NEW n \in 1..Len(conns)
               PROVE  \E o \in BOOLEAN : conns'[n] = [conns[n] EXCEPT !.open = o]
    OBVIOUS
  <2> WITNESS (conns[n].open /\ n # d_socket[c]) \in BOOLEAN
  <2> QED BY <1>1
<1>4. OnlyOpenChanged /\ ConnectionsTyped(conns', client_socket)
  BY <1>1, <1>3, OpenChanged
<1>5. d_attached' \in [Clients -> BOOLEAN]
  BY <1>1 DEF StreamTypeOK
<1>6. StreamTypeOK'
  BY <1>1, <1>4, <1>5 DEF StreamTypeOK, ConnectionsTyped, OnlyOpenChanged, Room,
     plotterVars
<1> QED BY <1>4, <1>6

LEMMA DebuggerEndsTypes ==
    ASSUME StreamTypeOK, NEW c \in Clients, DebuggerEnds(c)
    PROVE  StreamTypeOK' /\ OnlyOpenChanged
<1>1. /\ conns' = [n \in 1..Len(conns) |->
                      [conns[n] EXCEPT !.open = @ /\ conns[n].client # c]]
      /\ d_attached' = [d_attached EXCEPT ![c] = FALSE]
      /\ d_socket' = [d_socket EXCEPT ![c] = 0]
      /\ d_samples' = [d_samples EXCEPT ![c] = <<>>]
      /\ call' = [call EXCEPT ![c] = NoCall]
      /\ UNCHANGED <<stored, analyzer, plotterVars>>
  BY DEF DebuggerEnds
<1>2. \A n \in 1..Len(conns) : conns[n].open \in BOOLEAN
  BY ConnectionsAreTyped DEF Connection
<1>3. \A n \in 1..Len(conns) : \E o \in BOOLEAN :
         conns'[n] = [conns[n] EXCEPT !.open = o]
  <2> SUFFICES ASSUME NEW n \in 1..Len(conns)
               PROVE  \E o \in BOOLEAN : conns'[n] = [conns[n] EXCEPT !.open = o]
    OBVIOUS
  <2> WITNESS (conns[n].open /\ conns[n].client # c) \in BOOLEAN
  <2> QED BY <1>1
<1>4. OnlyOpenChanged /\ ConnectionsTyped(conns', client_socket)
  BY <1>1, <1>3, OpenChanged
<1>5. /\ d_attached' \in [Clients -> BOOLEAN]
      /\ d_socket' \in [Clients -> 0..Len(conns)]
      /\ d_samples' \in [Clients -> Seq(1..MaxSamples)]
      /\ call' \in [Clients -> Call]
      /\ \A b \in Clients : Len(d_samples'[b]) <= stored[b]
  <2>1. 0 \in 0..Len(conns)
    BY ConnectionsAreTyped
  <2>2. Len(<<>>) = 0 /\ \A b \in Clients : stored[b] >= 0
    BY EmptySeq, SizesAreNumbers DEF StreamTypeOK
  <2> QED BY <1>1, <2>1, <2>2, NoCallIsTyped DEF StreamTypeOK
<1>6. StreamTypeOK'
  BY <1>1, <1>4, <1>5 DEF StreamTypeOK, ConnectionsTyped, OnlyOpenChanged, Room,
     plotterVars
<1> QED BY <1>4, <1>6

LEMMA StoreTypes ==
    ASSUME StreamTypeOK, NEW c \in Clients, store_samples(c)
    PROVE  StreamTypeOK'
<1>1. /\ stored[c] < MaxSamples
      /\ stored' = [stored EXCEPT ![c] = @ + 1]
      /\ d_samples' = [d_samples EXCEPT ![c] = Append(@, stored'[c])]
      /\ UNCHANGED <<d_attached, d_socket, call, conns, analyzer, plotterVars>>
  BY DEF store_samples
<1>2. /\ stored[c] \in 0..MaxSamples /\ d_samples[c] \in Seq(1..MaxSamples)
      /\ Len(d_samples[c]) \in Nat /\ Len(d_samples[c]) <= stored[c]
  BY DebuggerIsTyped
<1>3. stored'[c] = stored[c] + 1 /\ stored[c] + 1 \in 1..MaxSamples
  BY <1>1, <1>2, SizesAreNumbers DEF StreamTypeOK
<1>4. /\ Append(d_samples[c], stored'[c]) \in Seq(1..MaxSamples)
      /\ Len(Append(d_samples[c], stored'[c])) = Len(d_samples[c]) + 1
  BY <1>2, <1>3, AppendProperties
<1>5. d_samples' \in [Clients -> Seq(1..MaxSamples)]
  BY <1>1, <1>4 DEF StreamTypeOK
<1>6. stored' \in [Clients -> 0..MaxSamples]
  BY <1>1, <1>2, <1>3, SizesAreNumbers DEF StreamTypeOK
<1>7. ASSUME NEW b \in Clients
      PROVE  Len(d_samples'[b]) <= stored'[b]
  <2>1. CASE b = c
    <3>1. Len(d_samples'[b]) = Len(d_samples[c]) + 1
      BY <1>1, <1>4, <2>1 DEF StreamTypeOK
    <3> QED BY <1>2, <1>3, <2>1, <3>1
  <2>2. CASE b # c
    BY <1>1, <2>2 DEF StreamTypeOK
  <2> QED BY <2>1, <2>2
<1> QED BY <1>1, <1>5, <1>6, <1>7 DEF StreamTypeOK, plotterVars, Room

LEMMA AnalyzeTypes ==
    ASSUME StreamTypeOK, NEW c \in Clients, NEW clear \in BOOLEAN,
           analyze_samples(c, clear)
    PROVE  /\ StreamTypeOK'
           /\ Len(conns') = Len(conns)
           /\ [samples |-> d_samples[c], clear |-> clear] \in Record
           /\ \A n \in 1..Len(conns) :
                 /\ n # d_socket[c] => conns'[n] = conns[n]
                 /\ n = d_socket[c] => conns'[n] =
                       [conns[n] EXCEPT !.records =
                          Append(@, [samples |-> d_samples[c], clear |-> clear])]
<1> DEFINE r == [samples |-> d_samples[c], clear |-> clear]
           rest == Header(Len(d_samples[c]) * SampleBytes)
           new == [phase |-> "header", taken |-> 0, clear |-> clear, rest |-> rest]
           f == [n \in 1..Len(conns) |->
                    IF n = d_socket[c]
                    THEN [conns[n] EXCEPT !.records = Append(@, r)]
                    ELSE conns[n]]
<1>1. /\ call' = [call EXCEPT ![c] = new]
      /\ conns' = f
      /\ UNCHANGED <<d_attached, d_socket, d_samples, stored, analyzer, plotterVars>>
  BY DEF analyze_samples
<1>2. /\ d_samples[c] \in Seq(1..MaxSamples) /\ Len(d_samples[c]) <= MaxSamples
      /\ Len(d_samples[c]) * SampleBytes \in Nat
  BY DebuggerIsTyped, SizeIsNumber DEF Size
<1>3. r \in Record
  BY <1>2 DEF Record
<1>4. new \in Call
  BY <1>2, HeaderFacts DEF Call
<1> HIDE DEF r, new
<1>5. ASSUME NEW n \in 1..Len(conns)
      PROVE  /\ f[n] \in Connection
             /\ SocketBuffer - Len(f[n].stream) >= 0
             /\ f[n].end = "served" <=> client_socket = n
  <2>1. conns[n] \in Connection /\ Append(conns[n].records, r) \in Seq(Record)
    BY <1>3, ConnectionsAreTyped, ConnectionIsTyped, AppendProperties
  <2>2. /\ SocketBuffer - Len(conns[n].stream) >= 0
        /\ conns[n].end = "served" <=> client_socket = n
    BY DEF StreamTypeOK, Room
  <2> QED BY <2>1, <2>2 DEF Connection
<1>6. f \in [1..Len(conns) -> Connection]
  BY <1>5
<1>7. \A n \in 1..Len(conns) :
         /\ n # d_socket[c] => f[n] = conns[n]
         /\ n = d_socket[c] => f[n] = [conns[n] EXCEPT !.records = Append(@, r)]
  OBVIOUS
<1> HIDE DEF f
<1>8. ConnectionsTyped(f, client_socket) /\ Len(f) = Len(conns)
  BY <1>5, <1>6, ConnectionsChanged
<1>9. call' \in [Clients -> Call]
  BY <1>1, <1>4 DEF StreamTypeOK
<1>10. StreamTypeOK'
  BY <1>1, <1>8, <1>9 DEF StreamTypeOK, ConnectionsTyped, Room, plotterVars
<1> QED BY <1>1, <1>3, <1>7, <1>8, <1>10 DEF r

(* send() has returned: what becomes of the call and of the samples.       *)
LEMMA SentTypes ==
    ASSUME StreamTypeOK, NEW c \in Clients, Sent(c)
    PROVE  /\ call' \in [Clients -> Call]
           /\ d_samples' \in [Clients -> Seq(1..MaxSamples)]
           /\ \A b \in Clients : Len(d_samples'[b]) <= stored[b]
           /\ \A b \in Clients : b # c => call'[b] = call[b]
                                          /\ d_samples'[b] = d_samples[b]
           /\ call[c].phase = "header" /\ d_samples[c] # <<>> =>
                 /\ call'[c] = [phase |-> "payload", rest |-> Bytes(d_samples[c]),
                                taken |-> 0, clear |-> call[c].clear]
                 /\ d_samples'[c] = d_samples[c]
           /\ ~ (call[c].phase = "header" /\ d_samples[c] # <<>>) =>
                 /\ call'[c] = NoCall
                 /\ d_samples'[c] = IF call[c].clear THEN <<>> ELSE d_samples[c]
<1> DEFINE next == [phase |-> "payload", rest |-> Bytes(d_samples[c]),
                    taken |-> 0, clear |-> call[c].clear]
<1>1. /\ d_samples[c] \in Seq(1..MaxSamples) /\ stored[c] \in Nat
      /\ Len(d_samples[c]) <= stored[c]
      /\ call[c].clear \in BOOLEAN
      /\ call \in [Clients -> Call] /\ d_samples \in [Clients -> Seq(1..MaxSamples)]
      /\ \A b \in Clients : Len(d_samples[b]) <= stored[b]
  BY DebuggerIsTyped, SizesAreNumbers DEF StreamTypeOK
<1>2. next \in Call
  BY <1>1, BytesFacts DEF Call
<1>3. CASE call[c].phase = "header" /\ d_samples[c] # <<>>
  <2>1. call' = [call EXCEPT ![c] = next] /\ d_samples' = d_samples
    BY <1>3 DEF Sent
  <2> QED BY <1>1, <1>2, <1>3, <2>1
<1>4. CASE ~ (call[c].phase = "header" /\ d_samples[c] # <<>>)
  <2>1. /\ call' = [call EXCEPT ![c] = NoCall]
        /\ d_samples' = [d_samples EXCEPT ![c] =
                            IF call[c].clear THEN <<>> ELSE d_samples[c]]
    BY <1>4 DEF Sent, ClearedIfAsked
  <2>2. /\ NoCall \in Call /\ <<>> \in Seq(1..MaxSamples) /\ Len(<<>>) = 0
    BY NoCallIsTyped, EmptySeq
  <2>3. \A b \in Clients : Len(d_samples'[b]) <= stored[b]
    BY <1>1, <2>1, <2>2
  <2> QED BY <1>1, <1>4, <2>1, <2>2, <2>3
<1> QED BY <1>3, <1>4

(* A step of send(): the kernel takes k bytes.                             *)
SendTakes(c, k) ==
    LET n == d_socket[c]
        rest == call[c].rest
    IN  /\ k \in 1..Len(rest) /\ k <= Room(n)
        /\ n \in 1..Len(conns) /\ conns[n].end \in {"waiting", "served"}
        /\ call[c] # NoCall
        /\ k = Len(rest) => Sent(c)
        /\ k # Len(rest) =>
              /\ call' = [call EXCEPT ![c].rest = SubSeq(rest, k + 1, Len(rest)),
                                      ![c].taken = @ + k]
              /\ UNCHANGED d_samples
        /\ conns' = [conns EXCEPT
              ![n].stream = @ \o SubSeq(rest, 1, k),
              ![n].complete = IF call'[c] = NoCall THEN @ + 1 ELSE @]
        /\ UNCHANGED <<d_attached, d_socket, stored, analyzer, plotterVars>>

LEMMA SendIsTaking ==
    ASSUME StreamTypeOK, NEW c \in Clients, Send(c)
    PROVE  \E k \in 1..Len(call[c].rest) : SendTakes(c, k)
<1>1. d_socket[c] \in 1..Len(conns) /\ conns[d_socket[c]].end \in {"waiting", "served"}
  BY DebuggerIsTyped, ConnectionsAreTyped DEF Send, Connected
<1> QED BY <1>1 DEF Send, SendTakes

LEMMA SendTypes ==
    ASSUME StreamTypeOK, NEW c \in Clients, NEW k, SendTakes(c, k)
    PROVE  LET n == d_socket[c]
               rest == call[c].rest
           IN  /\ StreamTypeOK'
               /\ Len(conns') = Len(conns)
               /\ \A m \in 1..Len(conns) : m # n => conns'[m] = conns[m]
               /\ conns'[n] = [conns[n] EXCEPT
                     !.stream = @ \o SubSeq(rest, 1, k),
                     !.complete = IF call'[c] = NoCall THEN @ + 1 ELSE @]
               /\ \A b \in Clients : b # c => call'[b] = call[b]
                                              /\ d_samples'[b] = d_samples[b]
               /\ k # Len(rest) =>
                     /\ call'[c] = [call[c] EXCEPT
                           !.rest = SubSeq(rest, k + 1, Len(rest)), !.taken = @ + k]
                     /\ d_samples'[c] = d_samples[c]
<1> DEFINE n == d_socket[c]
           rest == call[c].rest
           new == [conns[n] EXCEPT
                     !.stream = @ \o SubSeq(rest, 1, k),
                     !.complete = IF call'[c] = NoCall THEN @ + 1 ELSE @]
           f == [conns EXCEPT ![n] = new]
<1>1. /\ k \in 1..Len(rest) /\ k <= Room(n) /\ n \in 1..Len(conns)
      /\ conns' = f
      /\ UNCHANGED <<d_attached, d_socket, stored, analyzer, plotterVars>>
  BY DEF SendTakes
<1>2. /\ rest \in Seq(Piece) /\ Len(rest) \in Nat /\ k \in 0..Len(rest) /\ k \in Nat
      /\ call \in [Clients -> Call] /\ d_samples \in [Clients -> Seq(1..MaxSamples)]
      /\ call[c] \in Call
      /\ conns \in [1..Len(conns) -> Connection]
      /\ \A b \in Clients : Len(d_samples[b]) <= stored[b]
  <2>1. /\ rest \in Seq(Piece) /\ Len(rest) \in Nat /\ call[c] \in Call
        /\ conns \in [1..Len(conns) -> Connection]
    BY DebuggerIsTyped, ConnectionsAreTyped
  <2>2. k \in 0..Len(rest) /\ k \in Nat
    BY <1>1, <2>1
  <2> QED BY <2>1, <2>2 DEF StreamTypeOK
<1>3. /\ conns[n] \in Connection
      /\ conns[n].stream \in Seq(Piece) /\ Len(conns[n].stream) \in Nat
      /\ conns[n].complete \in Nat
  BY <1>1, ConnectionsAreTyped, ConnectionIsTyped
<1>4. /\ SubSeq(rest, 1, k) \in Seq(Piece) /\ Len(SubSeq(rest, 1, k)) = k
      /\ SubSeq(rest, k + 1, Len(rest)) \in Seq(Piece)
  BY <1>2, CutSequence
<1>5. /\ conns[n].stream \o SubSeq(rest, 1, k) \in Seq(Piece)
      /\ Len(conns[n].stream \o SubSeq(rest, 1, k)) = Len(conns[n].stream) + k
  BY <1>3, <1>4, ConcatProperties
<1>6. /\ new \in Connection
      /\ SocketBuffer - Len(new.stream) >= 0
      /\ new.end = conns[n].end
  <2>1. (IF call'[c] = NoCall THEN conns[n].complete + 1 ELSE conns[n].complete) \in Nat
    BY <1>3
  <2>2. SocketBuffer - (Len(conns[n].stream) + k) >= 0
    BY <1>1, <1>2, <1>3, SizesAreNumbers DEF Room
  <2> QED BY <1>3, <1>5, <2>1, <2>2 DEF Connection
<1>7. /\ f \in [1..Len(conns) -> Connection]
      /\ \A m \in 1..Len(conns) : m # n => f[m] = conns[m]
      /\ f[n] = new
  <2> HIDE DEF new
  <2> QED BY <1>1, <1>2, <1>6
<1>8. ASSUME NEW m \in 1..Len(conns)
      PROVE  /\ SocketBuffer - Len(f[m].stream) >= 0
             /\ f[m].end = "served" <=> client_socket = m
  <2> HIDE DEF f, new
  <2>1. /\ SocketBuffer - Len(conns[m].stream) >= 0
        /\ conns[m].end = "served" <=> client_socket = m
    BY DEF StreamTypeOK, Room
  <2> QED BY <1>6, <1>7, <2>1
<1> HIDE DEF f, new
<1>9. ConnectionsTyped(f, client_socket) /\ Len(f) = Len(conns)
  BY <1>7, <1>8, ConnectionsChanged
<1>10. /\ call' \in [Clients -> Call]
       /\ d_samples' \in [Clients -> Seq(1..MaxSamples)]
       /\ \A b \in Clients : Len(d_samples'[b]) <= stored[b]
       /\ \A b \in Clients : b # c => call'[b] = call[b]
                                      /\ d_samples'[b] = d_samples[b]
       /\ k # Len(rest) =>
             /\ call'[c] = [call[c] EXCEPT
                   !.rest = SubSeq(rest, k + 1, Len(rest)), !.taken = @ + k]
             /\ d_samples'[c] = d_samples[c]
  <2>1. CASE k = Len(rest)
    BY <2>1, SentTypes DEF SendTakes
  <2>2. CASE k # Len(rest)
    <3>1. /\ call' = [call EXCEPT ![c].rest = SubSeq(rest, k + 1, Len(rest)),
                                  ![c].taken = @ + k]
          /\ d_samples' = d_samples
      BY <2>2 DEF SendTakes
    <3>2. [call[c] EXCEPT !.rest = SubSeq(rest, k + 1, Len(rest)), !.taken = @ + k]
             \in Call
      <4>1. call[c].taken + k \in Nat
        BY <1>2, DebuggerIsTyped
      <4> HIDE DEF rest
      <4> QED BY <1>2, <1>4, <4>1 DEF Call
    <3> QED BY <1>2, <3>1, <3>2
  <2> QED BY <2>1, <2>2
<1>11. StreamTypeOK'
  BY <1>1, <1>9, <1>10 DEF StreamTypeOK, ConnectionsTyped, Room, plotterVars
<1> QED BY <1>1, <1>7, <1>9, <1>10, <1>11 DEF new

LEMMA SendFailsTypes ==
    ASSUME StreamTypeOK, NEW c \in Clients, SendFails(c)
    PROVE  /\ StreamTypeOK'
           /\ \A b \in Clients : b # c => call'[b] = call[b]
                                          /\ d_samples'[b] = d_samples[b]
<1>1. UNCHANGED <<d_attached, d_socket, stored, conns, analyzer, plotterVars>>
  BY DEF SendFails
<1>2. /\ call \in [Clients -> Call] /\ d_samples \in [Clients -> Seq(1..MaxSamples)]
      /\ \A b \in Clients : Len(d_samples[b]) <= stored[b]
  BY DEF StreamTypeOK
<1>3. /\ call' \in [Clients -> Call]
      /\ d_samples' \in [Clients -> Seq(1..MaxSamples)]
      /\ \A b \in Clients : Len(d_samples'[b]) <= stored[b]
      /\ \A b \in Clients : b # c => call'[b] = call[b]
                                     /\ d_samples'[b] = d_samples[b]
  <2>1. CASE Sent(c)
    BY <2>1, SentTypes
  <2>2. CASE call' = [call EXCEPT ![c] = NoCall] /\ UNCHANGED d_samples
    BY <1>2, <2>2, NoCallIsTyped
  <2> QED BY <2>1, <2>2 DEF SendFails
<1> QED BY <1>1, <1>3 DEF StreamTypeOK, Room, plotterVars

-----------------------------------------------------------------------------
(* The analyzer's steps.                                                   *)

LEMMA OneConnectionChanged ==
    ASSUME StreamTypeOK, NEW n \in 1..Len(conns), NEW r \in Connection,
           conns' = [conns EXCEPT ![n] = r],
           SocketBuffer - Len(r.stream) >= 0,
           r.end = "served" <=> client_socket' = n,
           \A m \in 1..Len(conns) :
              m # n => (client_socket = m <=> client_socket' = m)
    PROVE  /\ ConnectionsTyped(conns', client_socket')
           /\ Len(conns') = Len(conns)
           /\ conns'[n] = r
           /\ \A m \in 1..Len(conns) : m # n => conns'[m] = conns[m]
<1> DEFINE f == [conns EXCEPT ![n] = r]
<1>1. conns \in [1..Len(conns) -> Connection]
  BY ConnectionsAreTyped
<1>2. /\ f \in [1..Len(conns) -> Connection]
      /\ \A m \in 1..Len(conns) : m # n => f[m] = conns[m]
      /\ f[n] = r
  BY <1>1
<1> HIDE DEF f
<1>3. ASSUME NEW m \in 1..Len(conns)
      PROVE  /\ SocketBuffer - Len(f[m].stream) >= 0
             /\ f[m].end = "served" <=> client_socket' = m
  <2>1. /\ SocketBuffer - Len(conns[m].stream) >= 0
        /\ conns[m].end = "served" <=> client_socket = m
    BY DEF StreamTypeOK, Room
  <2> QED BY <1>2, <2>1
<1>4. ConnectionsTyped(f, client_socket') /\ Len(f) = Len(conns)
  BY <1>2, <1>3, ConnectionsChanged
<1> QED BY <1>2, <1>4 DEF f

LEMMA AcceptTypes ==
    ASSUME StreamTypeOK, Accept
    PROVE  /\ StreamTypeOK' /\ Len(conns') = Len(conns)
           /\ client_socket = 0
           /\ client_socket' \in 1..Len(conns)
           /\ conns[client_socket'].end = "waiting"
           /\ conns'[client_socket'] = [conns[client_socket'] EXCEPT !.end = "served"]
           /\ \A m \in 1..Len(conns) : m # client_socket' => conns'[m] = conns[m]
<1>1. PICK n \in 1..Len(conns) :
         /\ conns[n].end = "waiting"
         /\ client_socket' = n
         /\ conns' = [conns EXCEPT ![n].end = "served"]
  BY DEF Accept, Waiting
<1>2. /\ client_socket = 0 /\ state' = "READ_HEADER" /\ data' = <<>> /\ data_len' = 0
      /\ UNCHANGED <<debuggerVars, analyzer, plots>>
  BY DEF Accept, Ready, NoBytes
<1> DEFINE r == [conns[n] EXCEPT !.end = "served"]
<1>3. /\ conns[n] \in Connection /\ SocketBuffer - Len(conns[n].stream) >= 0
  BY ConnectionsAreTyped DEF StreamTypeOK, Room
<1>4. /\ r \in Connection /\ r.stream = conns[n].stream /\ r.end = "served"
  BY <1>3 DEF Connection
<1>5. conns' = [conns EXCEPT ![n] = r]
  BY <1>1
<1> HIDE DEF r
<1>6. /\ \A m \in 1..Len(conns) : m # n => (client_socket = m <=> client_socket' = m)
      /\ r.end = "served" <=> client_socket' = n
      /\ SocketBuffer - Len(r.stream) >= 0
  BY <1>1, <1>2, <1>3, <1>4
<1>7. /\ ConnectionsTyped(conns', client_socket') /\ Len(conns') = Len(conns)
      /\ conns'[n] = r
      /\ \A m \in 1..Len(conns) : m # n => conns'[m] = conns[m]
  BY <1>3, <1>4, <1>5, <1>6, OneConnectionChanged
<1>8. <<>> \in Seq(Piece) /\ 0 \in Lengths /\ n \in 0..Len(conns)
  <2>1. SampleBytes * 0 = 0 /\ 0 \in 0..MaxSamples
    BY SizesAreNumbers
  <2> QED BY <2>1, EmptySeq, ConnectionsAreTyped DEF Lengths
<1>9. StreamTypeOK'
  BY <1>1, <1>2, <1>7, <1>8 DEF StreamTypeOK, ConnectionsTyped, Room, debuggerVars
<1> QED BY <1>1, <1>2, <1>7, <1>9 DEF r

(* A step of get_data(): recv() returns k bytes.                           *)
RecvReturns(k) ==
    LET n == client_socket
        stream == conns[n].stream
    IN  /\ n \in 1..Len(conns) /\ k \in 1..Len(stream)
        /\ data' = data \o SubSeq(stream, 1, k)
        /\ conns' = [conns EXCEPT ![n] =
                        [conns[n] EXCEPT !.stream = SubSeq(stream, k + 1, Len(stream))]]
        /\ UNCHANGED <<debuggerVars, analyzer, client_socket, state, data_len, plots>>

LEMMA GetIsReturning ==
    ASSUME StreamTypeOK, get_data
    PROVE  \E k \in 1..Len(conns[client_socket].stream) : RecvReturns(k)
<1>1. client_socket \in 1..Len(conns)
  BY ConnectionsAreTyped DEF get_data
<1> QED BY <1>1 DEF get_data, RecvReturns

LEMMA GetTypes ==
    ASSUME StreamTypeOK, NEW k, RecvReturns(k)
    PROVE  LET n == client_socket
               stream == conns[n].stream
           IN  /\ StreamTypeOK' /\ Len(conns') = Len(conns)
               /\ \A m \in 1..Len(conns) : m # n => conns'[m] = conns[m]
               /\ conns'[n] = [conns[n] EXCEPT
                                 !.stream = SubSeq(stream, k + 1, Len(stream))]
               /\ data' \o conns'[n].stream = data \o stream
<1> DEFINE n == client_socket
           stream == conns[n].stream
           r == [conns[n] EXCEPT !.stream = SubSeq(stream, k + 1, Len(stream))]
<1>1. /\ n \in 1..Len(conns) /\ k \in 1..Len(stream)
      /\ data' = data \o SubSeq(stream, 1, k)
      /\ conns' = [conns EXCEPT ![n] = r]
      /\ UNCHANGED <<debuggerVars, analyzer, client_socket, state, data_len, plots>>
  BY DEF RecvReturns
<1>2. /\ conns[n] \in Connection /\ stream \in Seq(Piece)
      /\ data \in Seq(Piece) /\ Len(stream) \in Nat
      /\ SocketBuffer - Len(stream) >= 0
      /\ conns[n].end = "served"
  BY <1>1, ConnectionsAreTyped, ConnectionIsTyped DEF StreamTypeOK, Room
<1> HIDE DEF stream
<1>3. k \in 0..Len(stream) /\ k \in Nat
  BY <1>1, <1>2
<1>4. /\ SubSeq(stream, 1, k) \in Seq(Piece)
      /\ SubSeq(stream, k + 1, Len(stream)) \in Seq(Piece)
      /\ Len(SubSeq(stream, k + 1, Len(stream))) = Len(stream) - k
  BY <1>2, <1>3, CutSequence
<1>5. data \o SubSeq(stream, 1, k) \in Seq(Piece)
  BY <1>2, <1>4, ConcatProperties
<1>6. /\ r \in Connection /\ r.stream = SubSeq(stream, k + 1, Len(stream))
      /\ r.end = "served"
  BY <1>2, <1>4 DEF Connection
<1>7. SocketBuffer - Len(r.stream) >= 0
  BY <1>2, <1>3, <1>4, <1>6, SizesAreNumbers
<1> HIDE DEF r
<1>8. /\ ConnectionsTyped(conns', client_socket') /\ Len(conns') = Len(conns)
      /\ conns'[n] = r
      /\ \A m \in 1..Len(conns) : m # n => conns'[m] = conns[m]
  BY <1>1, <1>2, <1>6, <1>7, OneConnectionChanged
<1>9. data' \o r.stream = data \o stream
  BY <1>1, <1>2, <1>3, <1>6, MoveFront
<1>10. StreamTypeOK'
  BY <1>1, <1>5, <1>8 DEF StreamTypeOK, ConnectionsTyped, Room, debuggerVars
<1> QED BY <1>8, <1>9, <1>10 DEF r, stream

LEMMA ResetTypes ==
    ASSUME StreamTypeOK, ConnectionReset
    PROVE  /\ StreamTypeOK' /\ Len(conns') = Len(conns)
           /\ client_socket \in 1..Len(conns)
           /\ \A m \in 1..Len(conns) : m # client_socket => conns'[m] = conns[m]
           /\ conns'[client_socket] = [conns[client_socket] EXCEPT !.end = "closed"]
<1> DEFINE n == client_socket
           r == [conns[n] EXCEPT !.end = "closed"]
<1>1. /\ n \in 1..Len(conns) /\ client_socket' = 0
      /\ conns' = [conns EXCEPT ![n] = r]
      /\ UNCHANGED <<debuggerVars, analyzer, state, data, data_len, plots>>
  BY ConnectionsAreTyped DEF ConnectionReset
<1>2. /\ conns[n] \in Connection /\ SocketBuffer - Len(conns[n].stream) >= 0
  BY <1>1, ConnectionsAreTyped DEF StreamTypeOK, Room
<1>3. r \in Connection /\ r.stream = conns[n].stream /\ r.end = "closed"
  BY <1>2 DEF Connection
<1> HIDE DEF r
<1>4. /\ \A m \in 1..Len(conns) : m # n => (client_socket = m <=> client_socket' = m)
      /\ r.end = "served" <=> client_socket' = n
      /\ SocketBuffer - Len(r.stream) >= 0
  BY <1>1, <1>2, <1>3
<1>5. /\ ConnectionsTyped(conns', client_socket') /\ Len(conns') = Len(conns)
      /\ conns'[n] = r
      /\ \A m \in 1..Len(conns) : m # n => conns'[m] = conns[m]
  BY <1>1, <1>2, <1>3, <1>4, OneConnectionChanged
<1>6. 0 \in 0..Len(conns)
  BY ConnectionsAreTyped
<1>7. StreamTypeOK'
  BY <1>1, <1>5, <1>6 DEF StreamTypeOK, ConnectionsTyped, Room, debuggerVars
<1> QED BY <1>1, <1>5, <1>7 DEF r

LEMMA ReadHeaderTypes ==
    ASSUME StreamTypeOK, ReadHeader
    PROVE  StreamTypeOK'
<1>1. /\ data_len' \in Unpacked(SubSeq(data, 1, HeaderBytes))
      /\ data' = SubSeq(data, HeaderBytes + 1, Len(data))
      /\ state' = "READ_DATA"
      /\ UNCHANGED <<debuggerVars, conns, analyzer, client_socket, plots>>
      /\ ~ (Len(data) < HeaderBytes)
  BY DEF ReadHeader, HeaderWantsMore
<1>2. data \in Seq(Piece) /\ HeaderBytes \in 0..Len(data)
  BY <1>1, ConnectionsAreTyped, SizesAreNumbers
<1>3. data' \in Seq(Piece)
  BY <1>1, <1>2, CutSequence
<1>4. data_len' \in Lengths
  BY <1>1 DEF Unpacked
<1> QED BY <1>1, <1>3, <1>4 DEF StreamTypeOK, Room, debuggerVars

LEMMA PlotDataTypes ==
    ASSUME StreamTypeOK, PlotData
    PROVE  /\ StreamTypeOK'
           /\ client_socket \in 1..Len(conns)
           /\ plots'[client_socket] =
                 Append(plots[client_socket], SubSeq(data, 1, data_len))
           /\ \A m \in 1..MaxConnections : m # client_socket => plots'[m] = plots[m]
<1>1. /\ plots' = [plots EXCEPT ![client_socket] =
                      Append(@, SubSeq(data, 1, data_len))]
      /\ data' = SubSeq(data, data_len + 1, Len(data))
      /\ state' = "READ_HEADER"
      /\ UNCHANGED <<debuggerVars, conns, analyzer, client_socket, data_len>>
      /\ ~ (Len(data) < data_len) /\ client_socket # 0
  BY DEF PlotData, DataWantsMore
<1>2. /\ data \in Seq(Piece) /\ data_len \in 0..Len(data)
      /\ client_socket \in 1..Len(conns) /\ client_socket \in 1..MaxConnections
      /\ plots \in [1..MaxConnections -> Seq(Seq(Piece))]
  BY <1>1, ConnectionsAreTyped
<1>3. data' \in Seq(Piece) /\ SubSeq(data, 1, data_len) \in Seq(Piece)
  BY <1>1, <1>2, CutSequence
<1>4. Append(plots[client_socket], SubSeq(data, 1, data_len)) \in Seq(Seq(Piece))
  BY <1>2, <1>3, AppendProperties
<1>5. plots' \in [1..MaxConnections -> Seq(Seq(Piece))]
  BY <1>1, <1>2, <1>4
<1>6. StreamTypeOK'
  BY <1>1, <1>3, <1>5 DEF StreamTypeOK, Room, debuggerVars
<1> QED BY <1>1, <1>2, <1>6

LEMMA AnalyzerEndsTypes ==
    ASSUME StreamTypeOK, AnalyzerEnds
    PROVE  /\ StreamTypeOK' /\ Len(conns') = Len(conns)
           /\ \A n \in 1..Len(conns) :
                 /\ conns'[n].client = conns[n].client
                 /\ conns'[n].records = conns[n].records
                 /\ conns'[n].complete = conns[n].complete
                 /\ conns'[n].end \notin {"waiting", "served"}
<1> DEFINE f == [n \in 1..Len(conns) |->
                    IF conns[n].end \in {"waiting", "served"}
                    THEN [conns[n] EXCEPT !.end = "lost", !.stream = <<>>]
                    ELSE conns[n]]
<1>1. /\ conns' = f /\ analyzer' = FALSE /\ client_socket' = 0
      /\ UNCHANGED <<debuggerVars, state, data, data_len, plots>>
  BY DEF AnalyzerEnds
<1>2. ASSUME NEW n \in 1..Len(conns)
      PROVE  /\ f[n] \in Connection
             /\ f[n].client = conns[n].client
             /\ f[n].records = conns[n].records
             /\ f[n].complete = conns[n].complete
             /\ f[n].end \notin {"waiting", "served"}
             /\ SocketBuffer - Len(f[n].stream) >= 0
             /\ f[n].end = "served" <=> client_socket' = n
  <2>1. /\ conns[n] \in Connection /\ SocketBuffer - Len(conns[n].stream) >= 0
        /\ <<>> \in Seq(Piece) /\ SocketBuffer - Len(<<>>) >= 0
    BY ConnectionsAreTyped, EmptySeq, SizesAreNumbers DEF StreamTypeOK, Room
  <2>2. client_socket' # n
    <3>1. client_socket' = 0
      BY <1>1
    <3> QED BY <3>1
  <2>3. CASE conns[n].end \in {"waiting", "served"}
    <3>1. f[n] = [conns[n] EXCEPT !.end = "lost", !.stream = <<>>]
      BY <2>3
    <3> HIDE DEF f
    <3> QED BY <2>1, <2>2, <3>1 DEF Connection
  <2>4. CASE conns[n].end \notin {"waiting", "served"}
    <3>1. f[n] = conns[n]
      BY <2>4
    <3> HIDE DEF f
    <3> QED BY <2>1, <2>2, <2>4, <3>1
  <2> QED BY <2>3, <2>4
<1>3. f \in [1..Len(conns) -> Connection]
  BY <1>2
<1> HIDE DEF f
<1>4. ConnectionsTyped(f, client_socket') /\ Len(f) = Len(conns)
  BY <1>2, <1>3, ConnectionsChanged
<1>5. 0 \in 0..Len(conns)
  BY ConnectionsAreTyped
<1>6. StreamTypeOK'
  BY <1>1, <1>4, <1>5 DEF StreamTypeOK, ConnectionsTyped, Room, debuggerVars
<1> QED BY <1>1, <1>2, <1>4, <1>6

LEMMA InitSocketTypes ==
    ASSUME StreamTypeOK, init_socket
    PROVE  StreamTypeOK'
BY EmptySeq DEF init_socket, StreamTypeOK, Room, debuggerVars

LEMMA StreamTypesNext ==
    ASSUME StreamTypeOK, [StreamNext]_streamVars
    PROVE  StreamTypeOK'
<1>1. ASSUME NEW c \in Clients, DebuggerStep(c)
      PROVE  StreamTypeOK'
  <2>1. CASE Send(c)
    BY <2>1, SendIsTaking, SendTypes
  <2>2. ASSUME NEW clear \in BOOLEAN, analyze_samples(c, clear)
        PROVE  StreamTypeOK'
    BY <2>2, AnalyzeTypes
  <2> QED BY <1>1, <2>1, <2>2, AttachTypes, AttachRefusedTypes, DetachTypes, StoreTypes,
             SendFailsTypes, DebuggerEndsTypes DEF DebuggerStep
<1>2. CASE PlotterStep
  <2>1. CASE get_data
    BY <2>1, GetIsReturning, GetTypes
  <2> QED BY <1>2, <2>1, AcceptTypes, ResetTypes, ReadHeaderTypes, PlotDataTypes
          DEF PlotterStep
<1>3. CASE UNCHANGED streamVars
  BY <1>3 DEF streamVars, debuggerVars, plotterVars, StreamTypeOK, Room
<1> QED BY <1>1, <1>2, <1>3, AnalyzerEndsTypes, InitSocketTypes DEF StreamNext

(* Every variable keeps its range: no connection holds more than its       *)
(* buffer, the one that is served is the analyzer's, and a header's length *)
(* is one a debugger can have written.                                     *)
THEOREM StreamTypes == StreamSpec => []StreamTypeOK
<1>1. StreamTypeOK /\ [StreamNext]_streamVars => StreamTypeOK'
  BY StreamTypesNext
<1> QED BY <1>1, StreamTypesInit, PTL DEF StreamSpec
=============================================================================
