-------------------------- MODULE LoraCodecProofs --------------------------
(***************************************************************************)
(* What a block is worth that was sent through the air, for all spreading  *)
(* factors, coding rates, data, whitening sequences and errors: what the   *)
(* receiver computes from its bins is what was sent, and a lost symbol     *)
(* costs one bit of each codeword.                                         *)
(***************************************************************************)
EXTENDS LoraCodec, SequenceTheorems, FiniteSetTheorems, TLAPS

-----------------------------------------------------------------------------
(* Gray's code: every word of p bits is the code of a number of p bits.    *)

Power(k) == 2^k

LEMMA Powers ==
    /\ Power(0) = 1 /\ Power(1) = 2 /\ Power(2) = 4 /\ Power(3) = 8
    /\ Power(4) = 16 /\ Power(5) = 32 /\ Power(6) = 64 /\ Power(7) = 128
    /\ Power(8) = 256 /\ Power(9) = 512 /\ Power(10) = 1024
    /\ Power(11) = 2048 /\ Power(12) = 4096 /\ Power(13) = 8192
BY DEF Power

LEMMA PowersDouble ==
    ASSUME NEW k \in 0..12
    PROVE  2^(k + 1) = 2 * 2^k /\ 2^k \in Nat \ {0}
<1>1. Power(k + 1) = 2 * Power(k) /\ Power(k) \in Nat \ {0}
  BY Powers
<1> QED BY <1>1 DEF Power

LEMMA PowerIsPositive ==
    ASSUME NEW k \in 0..13
    PROVE  2^k \in Nat \ {0}
<1>1. Power(k) \in Nat \ {0}
  BY Powers
<1> QED BY <1>1 DEF Power

LEMMA Halves ==
    ASSUME NEW n \in Nat
    PROVE  /\ n \div 2 \in Nat
           /\ \A c \in 0..1 : (2 * n + c) \div 2 = n /\ (2 * n + c) % 2 = c
           /\ \A d \in Nat \ {0} : (n \div 2) \div d = n \div (2 * d)
OBVIOUS

(* Bit k + 1 of a number is bit k of its half; bit 0 is the remainder.     *)
LEMMA BitsOfHalf ==
    ASSUME NEW n \in Nat
    PROVE  /\ 0 \in WordOf(n) <=> n % 2 = 1
           /\ \A k \in 0..12 : k + 1 \in WordOf(n) <=> k \in WordOf(n \div 2)
<1>1. n \div 1 = n
  OBVIOUS
<1>2. 0 \in WordOf(n) <=> n % 2 = 1
  BY <1>1, Powers DEF WordOf, Power
<1>3. ASSUME NEW k \in 0..12
      PROVE  k + 1 \in WordOf(n) <=> k \in WordOf(n \div 2)
  <2>1. n \div 2^(k + 1) = (n \div 2) \div 2^k
    BY Halves, PowersDouble
  <2>2. k + 1 \in 0..13 /\ k \in 0..13
    OBVIOUS
  <2> QED BY <2>1, <2>2 DEF WordOf
<1> QED BY <1>2, <1>3

LEMMA WordBits == ASSUME NEW n PROVE WordOf(n) \subseteq 0..13
BY DEF WordOf

LEMMA InXor ==
    ASSUME NEW v, NEW w, NEW b
    PROVE  b \in Xor(v, w) <=> ~ (b \in v <=> b \in w)
BY DEF Xor

(* Bit k + 1 of a code is bit k of the half's code; bit 0 says whether the *)
(* number and its half are both odd or both even.                          *)
LEMMA GrayOfHalf ==
    ASSUME NEW n \in Nat
    PROVE  /\ 0 \in Gray(n) <=> ~ (n % 2 = 1 <=> (n \div 2) % 2 = 1)
           /\ \A k \in 0..12 : k + 1 \in Gray(n) <=> k \in Gray(n \div 2)
           /\ Gray(n) \subseteq 0..13
<1>1. n \div 2 \in Nat
  BY Halves
<1>2. 0 \in Gray(n) <=> ~ (n % 2 = 1 <=> (n \div 2) % 2 = 1)
  BY <1>1, BitsOfHalf, InXor DEF Gray
<1>3. \A k \in 0..12 : k + 1 \in Gray(n) <=> k \in Gray(n \div 2)
  BY <1>1, BitsOfHalf, InXor DEF Gray
<1>4. Gray(n) \subseteq 0..13
  BY WordBits DEF Gray, Xor
<1> QED BY <1>2, <1>3, <1>4

GrayIsOnto(p) ==
    \A w \in SUBSET (0..(p - 1)) : \E n \in 0..(2^p - 1) : Gray(n) = w

(* The codes of the numbers of p bits have p bits.                         *)
GrayHasBits(p) == \A n \in 0..(2^p - 1) : Gray(n) \subseteq 0..(p - 1)

LEMMA GrayStart == GrayIsOnto(0) /\ GrayHasBits(0)
<1>1. 0..(2^0 - 1) = {0} /\ 0..(0 - 1) = {}
  BY Powers DEF Power
<1>2. Gray(0) = {}
  <2>1. 0 \div 2 = 0
    OBVIOUS
  <2> QED BY <2>1 DEF Gray, Xor
<1> QED BY <1>1, <1>2 DEF GrayIsOnto, GrayHasBits

LEMMA GrayOneMoreBit ==
    ASSUME NEW p \in 0..12, GrayIsOnto(p), GrayHasBits(p)
    PROVE  GrayIsOnto(p + 1) /\ GrayHasBits(p + 1)
<1>1. 2^(p + 1) = 2 * 2^p /\ 2^p \in Nat \ {0}
  BY PowersDouble
<1>2. (p + 1) - 1 = p
  OBVIOUS
<1>3. ASSUME NEW n \in 0..(2^(p + 1) - 1)
      PROVE  Gray(n) \subseteq 0..p
  <2>1. n \in Nat /\ n \div 2 \in 0..(2^p - 1)
    BY <1>1, <1>3
  <2>2. Gray(n \div 2) \subseteq 0..(p - 1)
    BY <2>1 DEF GrayHasBits
  <2>3. ASSUME NEW b \in Gray(n), b # 0 PROVE b \in 0..p
    <3>1. b \in 0..13
      BY <2>1, GrayOfHalf
    <3>2. b - 1 \in 0..12 /\ (b - 1) + 1 = b
      BY <3>1, <2>3
    <3>3. b - 1 \in Gray(n \div 2)
      BY <2>1, <2>3, <3>2, GrayOfHalf
    <3> QED BY <2>2, <3>1, <3>3
  <2> QED BY <2>3
<1>4. ASSUME NEW w \in SUBSET (0..p)
      PROVE  \E n \in 0..(2^(p + 1) - 1) : Gray(n) = w
  <2> DEFINE half == {b \in 0..(p - 1) : b + 1 \in w}
  <2>1. PICK h \in 0..(2^p - 1) : Gray(h) = half
    BY DEF GrayIsOnto
  <2>2. PICK c \in 0..1 : 0 \in w <=> ~ (c = 1 <=> h % 2 = 1)
    <3>1. ~ (0 = 1)
      OBVIOUS
    <3> QED BY <3>1
  <2>3. PICK n \in Nat : n = 2 * h + c
    OBVIOUS
  <2>4. n \in 0..(2^(p + 1) - 1)
    BY <1>1, <2>3
  <2>5. n \div 2 = h /\ n % 2 = c
    BY <2>3, Halves
  <2>6. ASSUME NEW b PROVE b \in Gray(n) <=> b \in w
    <3>1. CASE b = 0
      BY <2>2, <2>5, <3>1, GrayOfHalf
    <3>2. CASE b \in 1..13
      <4>1. b - 1 \in 0..12 /\ (b - 1) + 1 = b
        BY <3>2
      <4>2. b \in Gray(n) <=> b - 1 \in half
        BY <2>1, <2>5, <4>1, GrayOfHalf
      <4>3. b - 1 \in half <=> b \in w
        BY <3>2, <4>1
      <4> QED BY <4>2, <4>3
    <3>3. CASE b \notin 0..13
      <4>1. b \notin Gray(n)
        BY <3>3, GrayOfHalf
      <4>2. b \notin 0..p
        BY <3>3
      <4> QED BY <4>1, <4>2
    <3> QED BY <3>1, <3>2, <3>3
  <2> QED BY <2>4, <2>6
<1> QED BY <1>2, <1>3, <1>4 DEF GrayIsOnto, GrayHasBits

LEMMA GrayCode ==
    ASSUME NEW p \in 0..13
    PROVE  GrayIsOnto(p) /\ GrayHasBits(p)
<1> DEFINE G(q) == GrayIsOnto(q) /\ GrayHasBits(q)
<1>1. G(0)
  BY GrayStart
<1>2. \A q \in 0..12 : G(q) => G(q + 1)
  BY GrayOneMoreBit
<1> HIDE DEF G
<1>3. G(1) /\ G(2) /\ G(3) /\ G(4)
  BY <1>1, <1>2
<1>4. G(5) /\ G(6) /\ G(7) /\ G(8)
  BY <1>2, <1>3
<1>5. G(9) /\ G(10) /\ G(11) /\ G(12) /\ G(13)
  BY <1>2, <1>4
<1> QED BY <1>1, <1>3, <1>4, <1>5 DEF G

-----------------------------------------------------------------------------
(* The shape of a block.                                                   *)

LEMMA BlockShape ==
    ASSUME block \in Blocks
    PROVE  /\ block.sf \in 6..13 /\ block.cr \in 1..4
           /\ Reduced \in BOOLEAN
           /\ Reduced => Ppm = block.sf - 2
           /\ ~ Reduced => Ppm = block.sf
           /\ Ppm \in 4..13 /\ Width \in 5..8
           /\ Width = 8 \/ (Width = 4 + block.cr /\ ~ IsHeader)
           /\ IsHeader => Width = 8 /\ Ppm >= 5
           /\ DataWords = IF IsHeader THEN 5 ELSE Ppm
           /\ DataWords \in 4..13 /\ DataWords <= Ppm
           /\ WordsOf(block) = DataWords
           /\ block.data \in Seq(Nibble) /\ Len(block.data) = DataWords
<1>1. /\ block.sf \in 6..13 /\ block.cr \in 1..4 /\ block.reduced_rate \in BOOLEAN
      /\ block.kind \in {"header", "first", "payload"}
      /\ block.kind = "header" => block.sf >= 7
      /\ block.data \in Seq(Nibble) /\ Len(block.data) = WordsOf(block)
  BY BlocksAssumption DEF Block
<1>2. /\ Reduced \in BOOLEAN
      /\ Reduced => Ppm = block.sf - 2
      /\ ~ Reduced => Ppm = block.sf
      /\ IsFirst \in BOOLEAN /\ IsHeader \in BOOLEAN /\ (IsHeader => IsFirst)
      /\ IsFirst => Reduced
  BY <1>1 DEF Reduced, IsFirst, IsHeader, Ppm
<1>3. Ppm \in 4..13 /\ (IsHeader => Ppm >= 5)
  BY <1>1, <1>2 DEF IsHeader
<1>4. /\ Width \in 5..8 /\ (IsHeader => Width = 8)
      /\ Width = 8 \/ (Width = 4 + block.cr /\ ~ IsHeader)
  BY <1>1, <1>2 DEF Width
<1>5. DataWords = IF IsHeader THEN 5 ELSE Ppm
  BY DEF DataWords
<1>6. WordsOf(block) = DataWords
  <2>1. CASE block.kind = "header"
    BY <1>5, <2>1 DEF WordsOf, IsHeader
  <2>2. CASE block.kind = "first"
    BY <1>2, <1>5, <2>2 DEF WordsOf, IsHeader, IsFirst, Reduced
  <2>3. CASE block.kind = "payload" /\ block.reduced_rate
    BY <1>2, <1>5, <2>3 DEF WordsOf, IsHeader, Reduced
  <2>4. CASE block.kind = "payload" /\ ~ block.reduced_rate
    BY <1>2, <1>5, <2>4 DEF WordsOf, IsHeader, IsFirst, Reduced
  <2> QED BY <1>1, <2>1, <2>2, <2>3, <2>4
<1> QED BY <1>1, <1>2, <1>3, <1>4, <1>5, <1>6

-----------------------------------------------------------------------------
(* From bins to words.                                                     *)

(* At the reduced rate a bin is four times its symbol, and lround() finds  *)
(* the symbol again when the bin is two too low or one too high, round the *)
(* corner too.                                                             *)
FindsSymbol(M) ==
    \A m \in 0..(M - 1), e \in -2..1 :
        ((((4 * m + e) % (4 * M)) + 2) \div 4) % M = m

LEMMA NearBins ==
    /\ FindsSymbol(16) /\ FindsSymbol(32) /\ FindsSymbol(64) /\ FindsSymbol(128)
    /\ FindsSymbol(256) /\ FindsSymbol(512) /\ FindsSymbol(1024)
    /\ FindsSymbol(2048)
<1>1. FindsSymbol(16) /\ FindsSymbol(32)
  BY DEF FindsSymbol
<1>2. FindsSymbol(64) /\ FindsSymbol(128)
  BY DEF FindsSymbol
<1>3. FindsSymbol(256) /\ FindsSymbol(512)
  BY DEF FindsSymbol
<1>4. FindsSymbol(1024) /\ FindsSymbol(2048)
  BY DEF FindsSymbol
<1> QED BY <1>1, <1>2, <1>3, <1>4

Step == IF Reduced THEN 4 ELSE 1

LEMMA SymbolFound ==
    ASSUME block \in Blocks, NEW m \in 0..(2^Ppm - 1),
           NEW bin \in BinsNear(Step * m)
    PROVE  SymbolBin(bin) = m
<1>1. CASE ~ Reduced
  <2>1. bin = m % 2^block.sf /\ Ppm = block.sf /\ Ppm \in 4..13
    BY <1>1, BlockShape DEF BinsNear, Step
  <2>2. m % 2^Ppm = m
    BY <2>1, PowerIsPositive
  <2> QED BY <1>1, <2>1, <2>2 DEF SymbolBin
<1>2. CASE Reduced
  <2>1. PICK e \in -2..1 : bin = (4 * m + e) % 2^block.sf
    BY <1>2, ErrorsAssumption DEF BinsNear, Step
  <2>2. Ppm = block.sf - 2 /\ Ppm \in 4..11
    BY <1>2, BlockShape
  <2> DEFINE M == Power(Ppm)
  <2>3. FindsSymbol(M) /\ M \in Nat \ {0}
    BY <2>2, Powers, NearBins
  <2>4. Power(block.sf) = 4 * M
    <3>1. block.sf = Ppm + 2 /\ Ppm + 2 \in 0..13
      <4>1. block.sf \in 6..13
        BY BlockShape
      <4>2. block.sf \in Int /\ block.sf - 2 \in 4..11
        BY <2>2, <4>1
      <4> QED BY <2>2, <4>1, <4>2
    <3> QED BY <2>2, <3>1, Powers
  <2>5. bin = (4 * m + e) % (4 * M) /\ m \in 0..(M - 1)
    BY <2>1, <2>4 DEF Power
  <2>6. SymbolBin(bin) = ((bin + 2) \div 4) % M
    BY <1>2, <2>2 DEF SymbolBin, RoundedBin, Power
  <2> HIDE DEF M
  <2> QED BY <2>3, <2>5, <2>6 DEF FindsSymbol
<1> QED BY <1>1, <1>2, BlockShape

(* Whatever noise makes of a bin, its word has the block's bits.           *)
LEMMA WordHasBits ==
    ASSUME block \in Blocks, NEW bin \in 0..(2^block.sf - 1)
    PROVE  Gray(SymbolBin(bin)) \subseteq 0..(Ppm - 1)
<1>1. Ppm \in 0..13 /\ 2^Ppm \in Nat \ {0} /\ bin \in Nat
  <2>1. Ppm \in 0..13 /\ block.sf \in 0..13
    BY BlockShape
  <2>2. 2^Ppm \in Nat \ {0} /\ 2^block.sf \in Nat \ {0}
    BY <2>1, PowerIsPositive
  <2>3. bin \in Nat
    BY <2>2
  <2> QED BY <2>1, <2>2, <2>3
<1>2. SymbolBin(bin) \in 0..(2^Ppm - 1)
  <2>1. CASE Reduced
    <3>1. block.sf - 2 = Ppm /\ (bin + 2) \div 4 \in Nat
      BY <1>1, <2>1, BlockShape
    <3> QED BY <1>1, <2>1, <3>1 DEF SymbolBin, RoundedBin
  <2>2. CASE ~ Reduced
    BY <2>2, BlockShape DEF SymbolBin
  <2> QED BY <2>1, <2>2, BlockShape
<1> QED BY <1>1, <1>2, GrayCode DEF GrayHasBits

(* What is on the air: for each word a symbol whose code it is.            *)
OnAir ==
    /\ air \in [1..Width -> 0..(2^block.sf - 1)]
    /\ \A i \in 1..Width : \E m \in 0..(2^Ppm - 1) :
           air[i] = Step * m /\ Gray(m) = SentWord(i)

LEMMA SymbolsSent ==
    ASSUME block \in Blocks, air = SentBins
    PROVE  OnAir
<1> DEFINE N == 0..(2^Ppm - 1)
           bins == [word \in {Gray(n) : n \in N} |-> CHOOSE n \in N : Gray(n) = word]
<1>1. ASSUME NEW i \in 1..Width
      PROVE  \E m \in N : air[i] = Step * m /\ Gray(m) = SentWord(i)
  <2> DEFINE w == SentWord(i)
  <2>1. w \in SUBSET (0..(Ppm - 1))
    BY DEF SentWord
  <2>2. \E n \in N : Gray(n) = w
    <3>1. Ppm \in 0..13
      BY BlockShape
    <3>2. GrayIsOnto(Ppm)
      BY <3>1, GrayCode
    <3> HIDE DEF w
    <3> QED BY <2>1, <3>2 DEF GrayIsOnto
  <2>3. bins[w] \in N /\ Gray(bins[w]) = w
    BY <2>2
  <2>4. air[i] = Step * bins[w]
    BY DEF SentBins, Step
  <2> QED BY <2>3, <2>4
<1>2. ASSUME NEW m \in N
      PROVE  Step * m \in 0..(2^block.sf - 1)
  <2>1. CASE ~ Reduced
    BY <1>2, <2>1, BlockShape DEF Step
  <2>2. CASE Reduced
    <3>1. /\ Ppm \in 0..12 /\ block.sf = Ppm + 2 /\ Ppm + 1 \in 0..12
          /\ (Ppm + 1) + 1 = Ppm + 2
      <4>1. block.sf \in 6..13 /\ Ppm = block.sf - 2
        BY <2>2, BlockShape
      <4> QED BY <4>1
    <3>2. 2^(Ppm + 1) = 2 * 2^Ppm /\ 2^Ppm \in Nat
      BY <3>1, PowersDouble
    <3>3. 2^((Ppm + 1) + 1) = 2 * 2^(Ppm + 1)
      BY <3>1, PowersDouble
    <3>4. 2^block.sf = 4 * 2^Ppm
      BY <3>1, <3>2, <3>3
    <3> QED BY <1>2, <2>2, <3>2, <3>4 DEF Step
  <2> QED BY <2>1, <2>2, BlockShape
<1>3. air = [i \in 1..Width |-> air[i]]
  BY DEF SentBins
<1>4. air \in [1..Width -> 0..(2^block.sf - 1)]
  BY <1>1, <1>2, <1>3
<1> QED BY <1>1, <1>4 DEF OnAir

(* A symbol that is not lost gives its word.                               *)
LEMMA WordFound ==
    ASSUME block \in Blocks, OnAir, NEW i \in 1..Width, NEW bin \in BinsNear(air[i])
    PROVE  Gray(SymbolBin(bin)) = SentWord(i)
<1>1. PICK m \in 0..(2^Ppm - 1) : air[i] = Step * m /\ Gray(m) = SentWord(i)
  BY DEF OnAir
<1> QED BY <1>1, SymbolFound

-----------------------------------------------------------------------------
(* The inductive invariant: what was received of the block so far is what  *)
(* was sent, but for the symbol that is lost; once the block is whole, but *)
(* for one bit of each word; and once it is decoded, it is right as far as *)
(* that can be made good.                                                  *)

WordsReceived ==
    /\ d_words \in Seq(SUBSET (0..(Ppm - 1)))
    /\ Len(d_words) < Width
    /\ \A i \in 1..Len(d_words) : i = lost \/ d_words[i] = SentWord(i)

BlockReceived ==
    /\ d_demodulated \in Seq(SUBSET (0..(Width - 1)))
    /\ Len(d_demodulated) = Ppm
    /\ \A n \in 1..Ppm : Xor(d_demodulated[n], SentCodeword(n)) \subseteq {lost - 1}

CanBeMadeGood == lost = 0 \/ (Width = 8 /\ block.cr \in 3..4)

CodecInv ==
    /\ block \in Blocks
    /\ OnAir
    /\ lost \in 0..Width
    /\ decoded \in BOOLEAN
    /\ WordsReceived
    /\ d_demodulated \in Seq(Byte)
    /\ d_demodulated # <<>> /\ ~ decoded => BlockReceived
    /\ d_decoded \in Seq([hi : Nibble, lo : Nibble])
    /\ decoded /\ CanBeMadeGood => AllNibblesRight

LEMMA CodecInit == Init => CodecInv
<1> SUFFICES ASSUME Init PROVE CodecInv
  OBVIOUS
<1>1. block \in Blocks /\ OnAir
  BY SymbolsSent DEF Init
<1>2. <<>> \in Seq(SUBSET (0..(Ppm - 1))) /\ Len(<<>>) = 0
  BY EmptySeq
<1>3. Width \in 5..8
  BY <1>1, BlockShape
<1>4. WordsReceived
  BY <1>2, <1>3 DEF Init, WordsReceived
<1>5. d_demodulated = <<>> /\ d_decoded = <<>> /\ decoded = FALSE /\ lost = 0
  BY DEF Init
<1>6. /\ d_demodulated \in Seq(Byte)
      /\ d_decoded \in Seq([hi : Nibble, lo : Nibble])
  BY <1>5, EmptySeq
<1>7. lost \in 0..Width /\ decoded \in BOOLEAN
  <2>1. 0 \in 0..Width
    BY <1>3
  <2> QED BY <1>5, <2>1
<1> QED BY <1>1, <1>4, <1>5, <1>6, <1>7 DEF CodecInv

-----------------------------------------------------------------------------
(* The interleaver.                                                        *)

(* Every bit of the rotated word comes from one of the word.               *)
RotatesOnto(P) ==
    \A i \in 0..7, x \in 0..(P - 1) : \E b \in 0..(P - 1) : (b + i) % P = x

LEMMA RotationsAreOnto ==
    ASSUME NEW P \in 4..13
    PROVE  RotatesOnto(P)
<1> SUFFICES ASSUME NEW i \in 0..7, NEW x \in 0..(P - 1)
             PROVE  \E b \in 0..(P - 1) : (b + i) % P = x
  BY DEF RotatesOnto
<1>1. CASE i <= x
  <2>1. x - i \in 0..(P - 1) /\ (x - i) + i = x /\ x % P = x
    BY <1>1
  <2> QED BY <2>1
<1>2. CASE x < i /\ i <= x + P
  <2>1. x - i + P \in 0..(P - 1) /\ (x - i + P) + i = x + P
    BY <1>2
  <2>2. (x + P) % P = x
    OBVIOUS
  <2> QED BY <2>1, <2>2
<1>3. CASE x + P < i
  <2>1. x - i + 2 * P \in 0..(P - 1) /\ (x - i + 2 * P) + i = x + 2 * P
    BY <1>3
  <2>2. (x + 2 * P) % P = x
    OBVIOUS
  <2> QED BY <2>1, <2>2
<1> QED BY <1>1, <1>2, <1>3

(* Bit i of the n-th word is that of the codeword, if symbol i + 1 is      *)
(* what was sent.                                                          *)
LEMMA BitOfSymbol ==
    ASSUME block \in Blocks, NEW n \in 1..Ppm, NEW i \in 0..(Width - 1)
    PROVE  n - 1 \in Rotl(SentWord(i + 1), i, Ppm) <=> i \in SentCodeword(n)
<1>1. Ppm \in 4..13 /\ Width \in 5..8
  BY BlockShape
<1>2. (i + 1) - 1 = i /\ i \in 0..7 /\ n - 1 \in 0..(Ppm - 1) /\ (n - 1) + 1 = n
  BY <1>1
<1>3. SentWord(i + 1) =
        {b \in 0..(Ppm - 1) : i \in SentCodeword(((b + i) % Ppm) + 1)}
  <2>1. \A b \in 0..(Ppm - 1) : b + (i + 1) - 1 = b + i
    BY <1>1
  <2> QED BY <1>2, <2>1 DEF SentWord
<1>4. ASSUME n - 1 \in Rotl(SentWord(i + 1), i, Ppm)
      PROVE  i \in SentCodeword(n)
  <2>1. PICK b \in SentWord(i + 1) : (b + i) % Ppm = n - 1
    BY <1>4 DEF Rotl
  <2> QED BY <1>2, <1>3, <2>1
<1>5. ASSUME i \in SentCodeword(n)
      PROVE  n - 1 \in Rotl(SentWord(i + 1), i, Ppm)
  <2>1. PICK b \in 0..(Ppm - 1) : (b + i) % Ppm = n - 1
    BY <1>1, <1>2, RotationsAreOnto DEF RotatesOnto
  <2>2. b \in SentWord(i + 1)
    BY <1>2, <1>3, <1>5, <2>1
  <2> QED BY <2>1, <2>2 DEF Rotl
<1> QED BY <1>4, <1>5

(* A lost symbol costs one bit of each word.                               *)
LEMMA DeinterleavedRight ==
    ASSUME block \in Blocks, NEW words, Len(words) = Width, NEW gone,
           \A i \in 1..Width : i = gone \/ words[i] = SentWord(i),
           NEW n \in 1..Ppm, gone \in Int
    PROVE  /\ DeinterleavedWord(words, n - 1) \subseteq 0..(Width - 1)
           /\ Xor(DeinterleavedWord(words, n - 1), SentCodeword(n)) \subseteq {gone - 1}
<1>1. Ppm \in 4..13 /\ Width \in 5..8
  BY BlockShape
<1>2. /\ DeinterleavedWord(words, n - 1) \subseteq 0..(Width - 1)
      /\ SentCodeword(n) \subseteq 0..(Width - 1)
  BY DEF DeinterleavedWord, SentCodeword
<1>3. ASSUME NEW i \in 0..(Width - 1), i # gone - 1
      PROVE  i \in DeinterleavedWord(words, n - 1) <=> i \in SentCodeword(n)
  <2>1. words[i + 1] = SentWord(i + 1)
    BY <1>1, <1>3
  <2> QED BY <2>1, BitOfSymbol DEF DeinterleavedWord
<1> QED BY <1>2, <1>3, InXor

(* What only depends on the block.                                         *)
LEMMA BlockStays ==
    ASSUME UNCHANGED block
    PROVE  /\ Ppm' = Ppm /\ Width' = Width /\ Reduced' = Reduced
           /\ \A n : SentWord(n)' = SentWord(n)
           /\ \A n : SentCodeword(n)' = SentCodeword(n)
           /\ IsHeader' = IsHeader
<1>1. /\ IsHeader' = IsHeader /\ IsFirst' = IsFirst /\ Reduced' = Reduced
  BY DEF IsHeader, IsFirst, Reduced
<1>2. Ppm' = Ppm /\ Width' = Width
  BY <1>1 DEF Ppm, Width
<1>3. \A n : SentCodeword(n)' = SentCodeword(n)
  BY <1>1, <1>2 DEF SentCodeword, Whitening
<1>4. \A n : SentWord(n)' = SentWord(n)
  BY <1>2, <1>3 DEF SentWord
<1> QED BY <1>1, <1>2, <1>3, <1>4

(* What is on the air stays.                                               *)
LEMMA AirStays ==
    ASSUME OnAir, UNCHANGED <<block, air>>
    PROVE  OnAir'
<1>1. /\ Ppm' = Ppm /\ Width' = Width /\ Step' = Step
      /\ \A n : SentWord(n)' = SentWord(n)
  BY BlockStays DEF Step
<1> QED BY <1>1 DEF OnAir

(* One more symbol is received: as it was sent, or as the one that is lost. *)
LEMMA OneMoreSymbol ==
    ASSUME CodecInv, NEW bin \in 0..(2^block.sf - 1),
           Received(Len(d_words) + 1, BinsNear(air[Len(d_words) + 1]), bin),
           NEW ws, ws = Append(d_words, Gray(SymbolBin(bin)))
    PROVE  /\ ws \in Seq(SUBSET (0..(Ppm - 1))) /\ Len(ws) = Len(d_words) + 1
           /\ lost' \in 0..Width
           /\ \A k \in 1..Len(ws) : k = lost' \/ ws[k] = SentWord(k)
<1> DEFINE i == Len(d_words) + 1
           w == Gray(SymbolBin(bin))
<1>1. /\ block \in Blocks /\ Width \in 5..8 /\ OnAir
      /\ d_words \in Seq(SUBSET (0..(Ppm - 1))) /\ Len(d_words) \in Nat
      /\ i \in 1..Width /\ lost \in 0..Width
      /\ \A k \in 1..Len(d_words) : k = lost \/ d_words[k] = SentWord(k)
  <2>1. /\ block \in Blocks /\ OnAir /\ lost \in 0..Width
        /\ d_words \in Seq(SUBSET (0..(Ppm - 1))) /\ Len(d_words) < Width
        /\ \A k \in 1..Len(d_words) : k = lost \/ d_words[k] = SentWord(k)
    BY DEF CodecInv, WordsReceived
  <2>2. Width \in 5..8 /\ Len(d_words) \in Nat
    BY <2>1, BlockShape, LenProperties
  <2> QED BY <2>1, <2>2
<1>2. w \in SUBSET (0..(Ppm - 1))
  BY <1>1, WordHasBits
<1>3. \/ w = SentWord(i) /\ lost' = lost
      \/ lost = 0 /\ lost' = i
  BY <1>1, WordFound DEF Received
<1> HIDE DEF w
<1>4. /\ ws \in Seq(SUBSET (0..(Ppm - 1))) /\ Len(ws) = i /\ ws[i] = w
      /\ \A k \in 1..Len(d_words) : ws[k] = d_words[k]
  BY <1>1, <1>2, AppendProperties DEF w
<1>5. ASSUME NEW k \in 1..Len(ws) PROVE k = lost' \/ ws[k] = SentWord(k)
  <2>1. CASE k = i
    BY <1>3, <1>4, <2>1
  <2>2. CASE k \in 1..Len(d_words)
    BY <1>1, <1>3, <1>4, <2>2
  <2> QED BY <1>1, <1>4, <2>1, <2>2
<1> QED BY <1>1, <1>3, <1>4, <1>5

LEMMA DemodulateReceives ==
    ASSUME CodecInv, Demodulate
    PROVE  CodecInv'
<1>1. /\ d_demodulated = <<>> /\ ~ decoded
      /\ UNCHANGED <<block, air, d_decoded, decoded>>
      /\ block \in Blocks /\ Width \in 5..8 /\ Ppm \in 4..13
      /\ d_words \in Seq(SUBSET (0..(Ppm - 1))) /\ Len(d_words) < Width
  BY BlockShape DEF Demodulate, CodecInv, WordsReceived
<1>2. \E bin \in 0..(2^block.sf - 1) : \E ws :
         /\ Received(Len(d_words) + 1, BinsNear(air[Len(d_words) + 1]), bin)
         /\ ws = Append(d_words, Gray(SymbolBin(bin)))
         /\ IF Len(d_words) + 1 = Width
            THEN d_demodulated' = Deinterleaved(ws) /\ d_words' = <<>>
            ELSE d_words' = ws /\ UNCHANGED d_demodulated
  BY DEF Demodulate
<1>3. PICK ws :
         /\ ws \in Seq(SUBSET (0..(Ppm - 1))) /\ Len(ws) = Len(d_words) + 1
         /\ lost' \in 0..Width
         /\ \A k \in 1..Len(ws) : k = lost' \/ ws[k] = SentWord(k)
         /\ IF Len(d_words) + 1 = Width
            THEN d_demodulated' = Deinterleaved(ws) /\ d_words' = <<>>
            ELSE d_words' = ws /\ UNCHANGED d_demodulated
  BY <1>2, OneMoreSymbol
<1>4. /\ Ppm' = Ppm /\ Width' = Width /\ OnAir'
      /\ \A n : SentWord(n)' = SentWord(n)
      /\ \A n : SentCodeword(n)' = SentCodeword(n)
  BY <1>1, BlockStays, AirStays DEF CodecInv
<1>5. CASE Len(d_words) + 1 # Width
  <2>1. d_words' = ws /\ d_demodulated' = <<>> /\ Len(ws) < Width
    BY <1>1, <1>3, <1>5, LenProperties
  <2>2. WordsReceived'
    BY <1>3, <1>4, <2>1 DEF WordsReceived
  <2> QED BY <1>1, <1>3, <1>4, <2>1, <2>2 DEF CodecInv
<1>6. CASE Len(d_words) + 1 = Width
  <2>1. d_demodulated' = Deinterleaved(ws) /\ d_words' = <<>> /\ Len(ws) = Width
    BY <1>3, <1>6
  <2>2. \A n \in 1..Ppm :
           /\ DeinterleavedWord(ws, n - 1) \in SUBSET (0..(Width - 1))
           /\ Xor(DeinterleavedWord(ws, n - 1), SentCodeword(n)) \subseteq {lost' - 1}
    BY <1>1, <1>3, <2>1, DeinterleavedRight
  <2>3. /\ d_demodulated' \in [1..Ppm -> SUBSET (0..(Width - 1))]
        /\ \A n \in 1..Ppm : d_demodulated'[n] = DeinterleavedWord(ws, n - 1)
    BY <2>1, <2>2 DEF Deinterleaved
  <2>4. d_demodulated' \in Seq(SUBSET (0..(Width - 1))) /\ Len(d_demodulated') = Ppm
    BY <1>1, <2>3, SeqDef, LenProperties
  <2>5. BlockReceived'
    BY <1>4, <2>2, <2>3, <2>4 DEF BlockReceived
  <2>6. d_demodulated' \in Seq(Byte)
    <3>1. SUBSET (0..(Width - 1)) \subseteq Byte
      BY <1>1 DEF Byte
    <3> QED BY <2>4, <3>1
  <2>7. WordsReceived'
    <3>1. d_words' \in Seq(SUBSET (0..(Ppm - 1))) /\ Len(d_words') = 0
      BY <2>1, EmptySeq
    <3> QED BY <1>1, <1>4, <3>1 DEF WordsReceived
  <2> QED BY <1>1, <1>3, <1>4, <2>5, <2>6, <2>7 DEF CodecInv
<1> QED BY <1>5, <1>6

-----------------------------------------------------------------------------
(* The Hamming code.                                                       *)

(* Whether one or all three of three bits are 1.                           *)
Parity3(a, b, c) == ~ (a <=> ~ (b <=> c))

LEMMA TwoElements ==
    ASSUME NEW x, NEW y, x # y
    PROVE  IsFiniteSet({x, y}) /\ Cardinality({x, y}) = 2
<1>1. IsFiniteSet({x}) /\ y \notin {x} /\ Cardinality({x}) = 1
  BY FS_Singleton
<1>2. /\ IsFiniteSet({x} \cup {y})
      /\ Cardinality({x} \cup {y}) = Cardinality({x}) + 1
  BY <1>1, FS_AddElement
<1>3. {x, y} = {x} \cup {y}
  OBVIOUS
<1> QED BY <1>1, <1>2, <1>3

LEMMA CountSmall ==
    ASSUME NEW S, NEW x, NEW y, NEW z, x # y, x # z, y # z,
           S \subseteq {x, y, z}
    PROVE  Odd(S) <=> Parity3(x \in S, y \in S, z \in S)
<1>1. /\ Cardinality({}) = 0 /\ Cardinality({x}) = 1
      /\ Cardinality({y}) = 1 /\ Cardinality({z}) = 1
  BY FS_EmptySet, FS_Singleton
<1>2. /\ Cardinality({x, y}) = 2 /\ Cardinality({x, z}) = 2
      /\ Cardinality({y, z}) = 2
  BY TwoElements
<1>3. Cardinality({x, y, z}) = 3
  <2>1. IsFiniteSet({x, y}) /\ z \notin {x, y} /\ Cardinality({x, y}) = 2
    BY TwoElements
  <2>2. Cardinality({x, y} \cup {z}) = Cardinality({x, y}) + 1
    BY <2>1, FS_AddElement
  <2>3. {x, y, z} = {x, y} \cup {z}
    OBVIOUS
  <2> QED BY <2>1, <2>2, <2>3
<1>4. \/ S = {} \/ S = {x} \/ S = {y} \/ S = {z}
      \/ S = {x, y} \/ S = {x, z} \/ S = {y, z} \/ S = {x, y, z}
  OBVIOUS
<1>5. /\ ~ (0 % 2 = 1) /\ 1 % 2 = 1 /\ ~ (2 % 2 = 1) /\ 3 % 2 = 1
  OBVIOUS
<1>6. CASE S = {}
  BY <1>1, <1>5, <1>6 DEF Odd, Parity3
<1>7. CASE S = {x} \/ S = {y} \/ S = {z}
  BY <1>1, <1>5, <1>7 DEF Odd, Parity3
<1>8. CASE S = {x, y} \/ S = {x, z} \/ S = {y, z}
  BY <1>2, <1>5, <1>8 DEF Odd, Parity3
<1>9. CASE S = {x, y, z}
  BY <1>3, <1>5, <1>9 DEF Odd, Parity3
<1> QED BY <1>4, <1>6, <1>7, <1>8, <1>9

LEMMA ParityOf ==
    ASSUME NEW v, NEW x, NEW y, NEW z, x # y, x # z, y # z
    PROVE  Odd(v \cap {x, y, z}) <=> Parity3(x \in v, y \in v, z \in v)
<1>1. v \cap {x, y, z} \subseteq {x, y, z}
  OBVIOUS
<1>2. /\ x \in v \cap {x, y, z} <=> x \in v
      /\ y \in v \cap {x, y, z} <=> y \in v
      /\ z \in v \cap {x, y, z} <=> z \in v
  OBVIOUS
<1>3. Odd(v \cap {x, y, z})
        <=> Parity3(x \in v \cap {x, y, z}, y \in v \cap {x, y, z},
                    z \in v \cap {x, y, z})
  BY <1>1, CountSmall
<1> QED BY <1>2, <1>3 DEF Parity3

(* The four parity bits.                                                   *)
LEMMA Covers ==
    ASSUME NEW v
    PROVE  /\ Odd(v \cap ParityCover[0]) <=> Parity3(1 \in v, 2 \in v, 3 \in v)
           /\ Odd(v \cap ParityCover[4]) <=> Parity3(0 \in v, 1 \in v, 2 \in v)
           /\ Odd(v \cap ParityCover[6]) <=> Parity3(0 \in v, 1 \in v, 3 \in v)
           /\ Odd(v \cap ParityCover[7]) <=> Parity3(0 \in v, 2 \in v, 3 \in v)
<1>1. /\ ParityCover[0] = {1, 2, 3} /\ ParityCover[4] = {0, 1, 2}
      /\ ParityCover[6] = {0, 1, 3} /\ ParityCover[7] = {0, 2, 3}
  BY DEF ParityCover
<1> QED BY <1>1, ParityOf

(* The bits of a codeword.                                                 *)
LEMMA Codeword ==
    ASSUME NEW v \in Nibble
    PROVE  /\ HammingEncode[v] \in Byte
           /\ 1 \in HammingEncode[v] <=> 0 \in v
           /\ 2 \in HammingEncode[v] <=> 1 \in v
           /\ 3 \in HammingEncode[v] <=> 2 \in v
           /\ 5 \in HammingEncode[v] <=> 3 \in v
           /\ 0 \in HammingEncode[v] <=> Parity3(1 \in v, 2 \in v, 3 \in v)
           /\ 4 \in HammingEncode[v] <=> Parity3(0 \in v, 1 \in v, 2 \in v)
           /\ 6 \in HammingEncode[v] <=> Parity3(0 \in v, 1 \in v, 3 \in v)
           /\ 7 \in HammingEncode[v] <=> Parity3(0 \in v, 2 \in v, 3 \in v)
<1> DEFINE D == {data_indices[d] : d \in v}
           P == {p \in {0, 4, 6, 7} : Odd(v \cap ParityCover[p])}
<1>1. HammingEncode[v] = D \cup P
  BY DEF HammingEncode
<1>2. /\ data_indices[0] = 1 /\ data_indices[1] = 2
      /\ data_indices[2] = 3 /\ data_indices[3] = 5
  BY DEF data_indices
<1>3. v \subseteq {0, 1, 2, 3}
  BY DEF Nibble
<1>4. /\ 1 \in D <=> 0 \in v
      /\ 2 \in D <=> 1 \in v
      /\ 3 \in D <=> 2 \in v
      /\ 5 \in D <=> 3 \in v
      /\ D \subseteq {1, 2, 3, 5}
  BY <1>2, <1>3
<1>5. /\ 0 \in P <=> Parity3(1 \in v, 2 \in v, 3 \in v)
      /\ 4 \in P <=> Parity3(0 \in v, 1 \in v, 2 \in v)
      /\ 6 \in P <=> Parity3(0 \in v, 1 \in v, 3 \in v)
      /\ 7 \in P <=> Parity3(0 \in v, 2 \in v, 3 \in v)
      /\ P \subseteq {0, 4, 6, 7}
  BY Covers
<1> HIDE DEF D, P
<1>6. HammingEncode[v] \in Byte
  BY <1>1, <1>4, <1>5 DEF Byte
<1> QED BY <1>1, <1>4, <1>5, <1>6

(* A nibble is four bits.                                                  *)
LEMMA SameNibble ==
    ASSUME NEW u \in Nibble, NEW v \in Nibble,
           0 \in u <=> 0 \in v, 1 \in u <=> 1 \in v,
           2 \in u <=> 2 \in v, 3 \in u <=> 3 \in v
    PROVE  u = v
<1>1. u \subseteq {0, 1, 2, 3} /\ v \subseteq {0, 1, 2, 3}
  BY DEF Nibble
<1>2. ASSUME NEW d PROVE d \in u <=> d \in v
  <2>1. CASE d \in {0, 1, 2, 3}
    BY <2>1
  <2>2. CASE d \notin {0, 1, 2, 3}
    BY <1>1, <2>2
  <2> QED BY <2>1, <2>2
<1> QED BY <1>2

LEMMA DataBits ==
    ASSUME NEW word
    PROVE  /\ DataOf(word) \in Nibble
           /\ 0 \in DataOf(word) <=> 1 \in word
           /\ 1 \in DataOf(word) <=> 2 \in word
           /\ 2 \in DataOf(word) <=> 3 \in word
           /\ 3 \in DataOf(word) <=> 5 \in word
<1>1. /\ data_indices[0] = 1 /\ data_indices[1] = 2
      /\ data_indices[2] = 3 /\ data_indices[3] = 5
  BY DEF data_indices
<1> QED BY <1>1 DEF DataOf, Nibble

(* A word whose data bits are a codeword's holds that codeword's data.     *)
LEMMA DataRead ==
    ASSUME NEW v \in Nibble, NEW word,
           \A j \in {1, 2, 3, 5} : j \in word <=> j \in HammingEncode[v]
    PROVE  DataOf(word) = v
BY Codeword, DataBits, SameNibble

(* Codewords that agree but for two bits are the same.                     *)
LEMMA TwoBitsTell ==
    ASSUME NEW u \in Nibble, NEW v \in Nibble, NEW j \in 0..7, NEW k \in 0..7,
           \A b \in 0..7 : b = j \/ b = k
               \/ (b \in HammingEncode[u] <=> b \in HammingEncode[v])
    PROVE  u = v
<1> DEFINE A(b) == b \in HammingEncode[u] <=> b \in HammingEncode[v]
<1>1. \A b \in 0..7 : b # j /\ b # k => A(b)
  OBVIOUS
<1>2. /\ A(1) <=> (0 \in u <=> 0 \in v)
      /\ A(2) <=> (1 \in u <=> 1 \in v)
      /\ A(3) <=> (2 \in u <=> 2 \in v)
      /\ A(5) <=> (3 \in u <=> 3 \in v)
  BY Codeword
<1>3. /\ A(0) <=> (Parity3(1 \in u, 2 \in u, 3 \in u)
                     <=> Parity3(1 \in v, 2 \in v, 3 \in v))
      /\ A(4) <=> (Parity3(0 \in u, 1 \in u, 2 \in u)
                     <=> Parity3(0 \in v, 1 \in v, 2 \in v))
      /\ A(6) <=> (Parity3(0 \in u, 1 \in u, 3 \in u)
                     <=> Parity3(0 \in v, 1 \in v, 3 \in v))
      /\ A(7) <=> (Parity3(0 \in u, 2 \in u, 3 \in u)
                     <=> Parity3(0 \in v, 2 \in v, 3 \in v))
  BY Codeword
<1> HIDE DEF A
<1>4. /\ A(0) \/ 0 = j \/ 0 = k
      /\ A(1) \/ 1 = j \/ 1 = k
      /\ A(2) \/ 2 = j \/ 2 = k
      /\ A(3) \/ 3 = j \/ 3 = k
      /\ A(4) \/ 4 = j \/ 4 = k
      /\ A(5) \/ 5 = j \/ 5 = k
      /\ A(6) \/ 6 = j \/ 6 = k
      /\ A(7) \/ 7 = j \/ 7 = k
  BY <1>1
<1>5. /\ 0 \in u <=> 0 \in v
      /\ 1 \in u <=> 1 \in v
      /\ 2 \in u <=> 2 \in v
      /\ 3 \in u <=> 3 \in v
  BY <1>2, <1>3, <1>4 DEF Parity3
<1> QED BY <1>5, SameNibble

LEMMA AtMostOne ==
    ASSUME NEW S, S \subseteq 0..7
    PROVE  /\ IsFiniteSet(S) /\ Cardinality(S) \in 0..8
           /\ Cardinality(S) <= 1 => \E j \in 0..7 : S \subseteq {j}
           /\ \A j : S \subseteq {j} => Cardinality(S) <= 1
<1>1. IsFiniteSet(0..7) /\ Cardinality(0..7) = 8
  <2>1. PICK a \in Int, b \in Int : a = 0 /\ b = 7
    OBVIOUS
  <2>2. /\ IsFiniteSet(a..b)
        /\ Cardinality(a..b) = IF a > b THEN 0 ELSE b - a + 1
    BY FS_Interval
  <2> QED BY <2>1, <2>2
<1>2. IsFiniteSet(S) /\ Cardinality(S) \in 0..8
  <2>1. IsFiniteSet(S) /\ Cardinality(S) <= Cardinality(0..7)
    BY <1>1, FS_Subset
  <2> QED BY <1>1, <2>1, FS_CardinalityType
<1>3. ASSUME Cardinality(S) <= 1
      PROVE  \E j \in 0..7 : S \subseteq {j}
  <2>1. ASSUME NEW a \in S, NEW b \in S, a # b PROVE FALSE
    <3>1. Cardinality({a, b}) = 2
      BY <2>1, TwoElements
    <3>2. {a, b} \in SUBSET S
      OBVIOUS
    <3>3. Cardinality({a, b}) <= Cardinality(S)
      BY <1>2, <3>2, FS_Subset
    <3> QED BY <1>2, <1>3, <3>1, <3>3
  <2>2. CASE S = {}
    BY <2>2
  <2>3. CASE S # {}
    <3>1. PICK a \in S : TRUE
      BY <2>3
    <3>2. S \subseteq {a} /\ a \in 0..7
      BY <2>1
    <3> QED BY <3>2
  <2> QED BY <2>2, <2>3
<1>4. ASSUME NEW j, S \subseteq {j}
      PROVE  Cardinality(S) <= 1
  <2>1. IsFiniteSet({j}) /\ Cardinality({j}) = 1
    BY FS_Singleton
  <2>2. S \in SUBSET {j}
    BY <1>4
  <2> QED BY <2>1, <2>2, FS_Subset
<1> QED BY <1>2, <1>3, <1>4

(* The Hamming distance of a word from a nibble's codeword.                *)
DistanceOf(word, v) == Cardinality(Xor(word, HammingEncode[v]))

LEMMA Distances ==
    ASSUME NEW word \in Byte, NEW v \in Nibble
    PROVE  /\ DistanceOf(word, v) \in 0..8
           /\ DistanceOf(word, v) <= 1
                => \E j \in 0..7 : Xor(word, HammingEncode[v]) \subseteq {j}
           /\ \A j : Xor(word, HammingEncode[v]) \subseteq {j}
                => DistanceOf(word, v) <= 1
<1>1. Xor(word, HammingEncode[v]) \subseteq 0..7
  BY Codeword DEF Byte, Xor
<1> QED BY <1>1, AtMostOne DEF DistanceOf

(* Some codeword is nearest.                                               *)
LEMMA NearestExists ==
    ASSUME NEW word \in Byte
    PROVE  \E v \in Nibble : \A u \in Nibble :
               DistanceOf(word, v) <= DistanceOf(word, u)
<1> DEFINE D(u) == DistanceOf(word, u)
           G(n) == \A u \in Nibble : n <= D(u)
<1>1. \A u \in Nibble : D(u) \in 0..8
  BY Distances
<1> HIDE DEF D
<1> SUFFICES ASSUME \A v \in Nibble : \E u \in Nibble : ~ (D(v) <= D(u))
             PROVE  FALSE
  BY DEF D
<1>2. G(0)
  BY <1>1
<1>3. ASSUME NEW n \in Nat, G(n) PROVE G(n + 1)
  <2> SUFFICES ASSUME NEW v \in Nibble PROVE n + 1 <= D(v)
    OBVIOUS
  <2>1. PICK u \in Nibble : ~ (D(v) <= D(u))
    OBVIOUS
  <2> QED BY <1>1, <1>3, <2>1
<1>4. {} \in Nibble
  BY DEF Nibble
<1> HIDE DEF G
<1>5. G(1) /\ G(2) /\ G(3)
  BY <1>2, <1>3
<1>6. G(4) /\ G(5) /\ G(6)
  BY <1>3, <1>5
<1>7. G(7) /\ G(8) /\ G(9)
  BY <1>3, <1>6
<1> QED BY <1>1, <1>4, <1>7 DEF G

LEMMA FecDecodesToNibble ==
    ASSUME NEW word \in Byte
    PROVE  /\ FecDecodedWord[word] \in Nibble
           /\ \A u \in Nibble :
                 DistanceOf(word, FecDecodedWord[word]) <= DistanceOf(word, u)
<1>1. FecDecodedWord[word] =
        CHOOSE v \in Nibble :
            \A u \in Nibble : DistanceOf(word, v) <= DistanceOf(word, u)
  BY DEF FecDecodedWord, DistanceOf
<1> QED BY <1>1, NearestExists

(* fec_decode() makes one wrong bit good.                                  *)
LEMMA FecCorrects ==
    ASSUME NEW v \in Nibble, NEW word \in Byte, NEW k \in 0..7,
           Xor(word, HammingEncode[v]) \subseteq {k}
    PROVE  FecDecodedWord[word] = v
<1> DEFINE w == FecDecodedWord[word]
<1>1. w \in Nibble /\ DistanceOf(word, w) <= DistanceOf(word, v)
  BY FecDecodesToNibble
<1> HIDE DEF w
<1>2. DistanceOf(word, v) <= 1 /\ DistanceOf(word, v) \in 0..8
  BY Distances
<1>3. DistanceOf(word, w) <= 1
  BY <1>1, <1>2, Distances
<1>4. PICK j \in 0..7 : Xor(word, HammingEncode[w]) \subseteq {j}
  BY <1>1, <1>3, Distances
<1>5. \A b \in 0..7 : b = j \/ b = k
        \/ (b \in HammingEncode[w] <=> b \in HammingEncode[v])
  BY <1>4, InXor
<1>6. w = v
  BY <1>1, <1>5, TwoBitsTell
<1> QED BY <1>6 DEF w

(* The checks hamming_decode_soft_byte() makes on a word.                  *)
Check0(w) == ~ (0 \in w <=> Parity3(2 \in w, 3 \in w, 5 \in w))
Check4(w) == ~ (4 \in w <=> Parity3(1 \in w, 2 \in w, 3 \in w))
Check6(w) == ~ (6 \in w <=> Parity3(1 \in w, 2 \in w, 5 \in w))
Check7(w) == ~ (7 \in w <=> Parity3(1 \in w, 3 \in w, 5 \in w))

LEMMA SyndromeOfChecks ==
    ASSUME NEW w
    PROVE  Syndrome(w) = (IF Check0(w) THEN 1 ELSE 0)
                         + 2 * (IF Check4(w) THEN 1 ELSE 0)
                         + 4 * (IF Check6(w) THEN 1 ELSE 0)
                         + 8 * (IF Check7(w) THEN 1 ELSE 0)
<1> DEFINE d == DataOf(w)
           Fails(p) == IF (p \in w) # Odd(d \cap ParityCover[p]) THEN 1 ELSE 0
<1>1. Syndrome(w) = Fails(0) + 2 * Fails(4) + 4 * Fails(6) + 8 * Fails(7)
  BY DEF Syndrome
<1>2. /\ Odd(d \cap ParityCover[0]) <=> Parity3(2 \in w, 3 \in w, 5 \in w)
      /\ Odd(d \cap ParityCover[4]) <=> Parity3(1 \in w, 2 \in w, 3 \in w)
      /\ Odd(d \cap ParityCover[6]) <=> Parity3(1 \in w, 2 \in w, 5 \in w)
      /\ Odd(d \cap ParityCover[7]) <=> Parity3(1 \in w, 3 \in w, 5 \in w)
  <2>1. /\ 0 \in d <=> 1 \in w
        /\ 1 \in d <=> 2 \in w
        /\ 2 \in d <=> 3 \in w
        /\ 3 \in d <=> 5 \in w
    BY DataBits
  <2> HIDE DEF d
  <2> QED BY <2>1, Covers DEF Parity3
<1>3. \A p : (p \in w) # Odd(d \cap ParityCover[p])
               <=> ~ (p \in w <=> Odd(d \cap ParityCover[p]))
  BY DEF Odd
<1> HIDE DEF d
<1>4. /\ Fails(0) = IF Check0(w) THEN 1 ELSE 0
      /\ Fails(4) = IF Check4(w) THEN 1 ELSE 0
      /\ Fails(6) = IF Check6(w) THEN 1 ELSE 0
      /\ Fails(7) = IF Check7(w) THEN 1 ELSE 0
  BY <1>2, <1>3 DEF Check0, Check4, Check6, Check7
<1> HIDE DEF Fails
<1> QED BY <1>1, <1>4

LEMMA WrongBits ==
    /\ WrongBit(1) = 0 /\ WrongBit(2) = 4 /\ WrongBit(4) = 6 /\ WrongBit(8) = 7
    /\ WrongBit(14) = 1 /\ WrongBit(7) = 2 /\ WrongBit(11) = 3 /\ WrongBit(13) = 5
BY DEF WrongBit, SyndromeBits

(* A codeword passes all checks.                                           *)
LEMMA CodewordPasses ==
    ASSUME NEW v \in Nibble
    PROVE  LET E == HammingEncode[v]
           IN  ~ Check0(E) /\ ~ Check4(E) /\ ~ Check6(E) /\ ~ Check7(E)
BY Codeword DEF Check0, Check4, Check6, Check7, Parity3

(* A wrong bit fails its own checks, and they tell which it is.            *)
LEMMA WrongBitFound ==
    ASSUME NEW v \in Nibble, NEW word, NEW k \in 0..7,
           \A b \in 0..7 : b = k <=> ~ (b \in word <=> b \in HammingEncode[v])
    PROVE  Syndrome(word) # 0 /\ WrongBit(Syndrome(word)) = k
<1> DEFINE E == HammingEncode[v]
<1>1. ~ Check0(E) /\ ~ Check4(E) /\ ~ Check6(E) /\ ~ Check7(E)
  BY CodewordPasses
<1> HIDE DEF E
<1>2. /\ 0 = k <=> ~ (0 \in word <=> 0 \in E)
      /\ 1 = k <=> ~ (1 \in word <=> 1 \in E)
      /\ 2 = k <=> ~ (2 \in word <=> 2 \in E)
      /\ 3 = k <=> ~ (3 \in word <=> 3 \in E)
      /\ 4 = k <=> ~ (4 \in word <=> 4 \in E)
      /\ 5 = k <=> ~ (5 \in word <=> 5 \in E)
      /\ 6 = k <=> ~ (6 \in word <=> 6 \in E)
      /\ 7 = k <=> ~ (7 \in word <=> 7 \in E)
  BY DEF E
<1>3. /\ Check0(word) <=> k \in {0, 2, 3, 5}
      /\ Check4(word) <=> k \in {4, 1, 2, 3}
      /\ Check6(word) <=> k \in {6, 1, 2, 5}
      /\ Check7(word) <=> k \in {7, 1, 3, 5}
  BY <1>1, <1>2 DEF Check0, Check4, Check6, Check7, Parity3
<1>4. Syndrome(word) = (IF Check0(word) THEN 1 ELSE 0)
                       + 2 * (IF Check4(word) THEN 1 ELSE 0)
                       + 4 * (IF Check6(word) THEN 1 ELSE 0)
                       + 8 * (IF Check7(word) THEN 1 ELSE 0)
  BY SyndromeOfChecks
<1>5. /\ k = 0 => Syndrome(word) = 1
      /\ k = 4 => Syndrome(word) = 2
      /\ k = 6 => Syndrome(word) = 4
      /\ k = 7 => Syndrome(word) = 8
      /\ k = 1 => Syndrome(word) = 14
      /\ k = 2 => Syndrome(word) = 7
      /\ k = 3 => Syndrome(word) = 11
      /\ k = 5 => Syndrome(word) = 13
  BY <1>3, <1>4
<1> QED BY <1>5, WrongBits

(* So does hamming_decode_soft_byte().                                     *)
LEMMA SoftCorrects ==
    ASSUME NEW v \in Nibble, NEW word \in Byte, NEW k \in 0..7,
           Xor(word, HammingEncode[v]) \subseteq {k}
    PROVE  SoftDecodedWord(word) = v
<1>1. \A b \in 0..7 : b # k => (b \in word <=> b \in HammingEncode[v])
  BY InXor
<1>2. CASE k \in word <=> k \in HammingEncode[v]
  <2>1. \A b \in 0..7 : b \in word <=> b \in HammingEncode[v]
    BY <1>1, <1>2
  <2>2. word = HammingEncode[v]
    BY <2>1, Codeword DEF Byte
  <2>3. Syndrome(word) = 0
    BY <2>2, SyndromeOfChecks, CodewordPasses
  <2>4. DataOf(word) = v
    BY <2>1, DataRead
  <2> QED BY <2>3, <2>4 DEF SoftDecodedWord
<1>3. CASE ~ (k \in word <=> k \in HammingEncode[v])
  <2>1. Syndrome(word) # 0 /\ WrongBit(Syndrome(word)) = k
    BY <1>1, <1>3, WrongBitFound
  <2>2. \A b \in 0..7 : b \in Xor(word, {k}) <=> b \in HammingEncode[v]
    BY <1>1, <1>3, InXor
  <2>3. DataOf(Xor(word, {k})) = v
    BY <2>2, DataRead
  <2> QED BY <2>1, <2>3 DEF SoftDecodedWord
<1> QED BY <1>2, <1>3

-----------------------------------------------------------------------------
(* From the words of a block to its nibbles.                               *)

LEMMA ShufflePattern ==
    /\ shuffle_pattern[0] = 5 /\ shuffle_pattern[1] = 0 /\ shuffle_pattern[2] = 1
    /\ shuffle_pattern[3] = 2 /\ shuffle_pattern[4] = 4 /\ shuffle_pattern[5] = 3
    /\ shuffle_pattern[6] = 6 /\ shuffle_pattern[7] = 7
BY DEF shuffle_pattern

(* It is a permutation.                                                    *)
LEMMA ShuffleIsPermutation ==
    /\ \A j \in 0..7 : shuffle_pattern[j] \in 0..7
    /\ \A i, j \in 0..7 : shuffle_pattern[i] = shuffle_pattern[j] => i = j
    /\ \A s \in 0..7 : \E j \in 0..7 : shuffle_pattern[j] = s
<1>1. \A j \in 0..7 : j \in {0, 1, 2, 3, 4, 5, 6, 7}
  OBVIOUS
<1>2. \A j \in 0..7 : shuffle_pattern[j] \in 0..7
  BY <1>1, ShufflePattern
<1>3. \A i, j \in 0..7 : shuffle_pattern[i] = shuffle_pattern[j] => i = j
  BY <1>1, ShufflePattern
<1>4. \A s \in 0..7 : \E j \in 0..7 : shuffle_pattern[j] = s
  <2>1. /\ 0 \in 0..7 /\ 1 \in 0..7 /\ 2 \in 0..7 /\ 3 \in 0..7
        /\ 4 \in 0..7 /\ 5 \in 0..7 /\ 6 \in 0..7 /\ 7 \in 0..7
    OBVIOUS
  <2> QED BY <1>1, <2>1, ShufflePattern
<1> QED BY <1>2, <1>3, <1>4

LEMMA OneMoreWord ==
    ASSUME NEW h \in Seq(Byte), Len(h) = 5, NEW t \in Seq(Byte), Len(t) = 1
    PROVE  /\ Len(h \o t) = 6
           /\ \A n \in 1..5 : (h \o t)[n] = h[n]
           /\ (h \o t)[6] = t[1]
<1>1. /\ Len(h \o t) = Len(h) + Len(t)
      /\ \A i \in 1..(Len(h) + Len(t)) :
            (h \o t)[i] = IF i <= Len(h) THEN h[i] ELSE t[i - Len(h)]
  BY ConcatProperties
<1> QED BY <1>1

(* The words decode() has before it: how many there are, and their bits.   *)
LEMMA WordsToDecode ==
    ASSUME CodecInv, d_demodulated # <<>>, ~ decoded
    PROVE  /\ Len(Dewhitened) = IF IsHeader THEN 6 ELSE Ppm
           /\ \A n \in 1..Len(Dewhitened) : Dewhitened[n] \in Byte
           /\ \A n \in 1..DataWords :
                 /\ n \in 1..Len(Dewhitened)
                 /\ Whitening(n) \in Byte
                 /\ Dewhitened[n] = Xor(DeshuffledWord(d_demodulated[n]), Whitening(n))
<1>1. /\ block \in Blocks /\ Ppm \in 4..13 /\ Len(d_demodulated) = Ppm
      /\ DataWords \in 4..13 /\ DataWords <= Ppm
      /\ DataWords = IF IsHeader THEN 5 ELSE Ppm
      /\ WordsOf(block) = DataWords /\ block.cr \in 1..4
  BY BlockShape DEF CodecInv, BlockReceived
<1>2. \A w : DeshuffledWord(w) \in Byte
  BY DEF DeshuffledWord, Byte
<1>3. \A n \in 1..DataWords : Whitening(n) \in Byte
  BY <1>1, PrngAssumption DEF Whitening, Byte
<1>4. \A v \in Byte, w \in Byte : Xor(v, w) \in Byte
  BY DEF Xor, Byte
<1>5. CASE ~ IsHeader
  <2>1. Deshuffled = [i \in 1..Ppm |-> DeshuffledWord(d_demodulated[i])]
    BY <1>1, <1>5 DEF Deshuffled
  <2>2. Len(Deshuffled) = Ppm
    BY <1>1, <2>1
  <2>3. /\ Len(Dewhitened) = Ppm
        /\ \A n \in 1..Ppm :
              Dewhitened[n] = Xor(DeshuffledWord(d_demodulated[n]), Whitening(n))
    BY <1>1, <2>1, <2>2 DEF Dewhitened
  <2> QED BY <1>1, <1>2, <1>3, <1>4, <1>5, <2>3
<1>6. CASE IsHeader
  <2> DEFINE h == [i \in 1..5 |-> DeshuffledWord(d_demodulated[i])]
  <2>1. Deshuffled = h \o << {} >>
    BY <1>6 DEF Deshuffled
  <2>2. h \in Seq(Byte) /\ Len(h) = 5 /\ << {} >> \in Seq(Byte) /\ Len(<< {} >>) = 1
    <3>1. {} \in Byte
      BY DEF Byte
    <3>2. h \in [1..5 -> Byte] /\ DOMAIN h = 1..5
      BY <1>2
    <3>3. h \in Seq(Byte)
      BY <3>2, SeqDef
    <3> QED BY <3>1, <3>2, <3>3, LenProperties
  <2>3. \A n \in 1..5 : h[n] = DeshuffledWord(d_demodulated[n])
    OBVIOUS
  <2>4. << {} >>[1] = {}
    OBVIOUS
  <2> HIDE DEF h
  <2>5. /\ Len(Deshuffled) = 6
        /\ \A n \in 1..5 : Deshuffled[n] = h[n]
        /\ Deshuffled[6] = {}
    BY <2>1, <2>2, <2>4, OneMoreWord
  <2>6. /\ Len(Dewhitened) = 6
        /\ \A n \in 1..6 : Dewhitened[n] = Xor(Deshuffled[n], Whitening(n))
    BY <2>5 DEF Dewhitened
  <2>7. \A n \in 1..6 : Whitening(n) = {}
    BY <1>6 DEF Whitening
  <2>8. ASSUME NEW n \in 1..6 PROVE Deshuffled[n] \in Byte
    <3>1. CASE n \in 1..5
      BY <1>2, <2>3, <2>5, <3>1
    <3>2. CASE n = 6
      BY <2>5, <3>2 DEF Byte
    <3> QED BY <3>1, <3>2
  <2>9. ASSUME NEW n \in 1..6 PROVE Dewhitened[n] \in Byte
    <3>1. {} \in Byte
      BY DEF Byte
    <3>2. Dewhitened[n] = Xor(Deshuffled[n], {})
      BY <2>6, <2>7
    <3> QED BY <1>4, <2>8, <3>1, <3>2
  <2>10. \A n \in 1..5 : n \in 1..6
    OBVIOUS
  <2> QED BY <1>1, <1>3, <1>6, <2>3, <2>5, <2>6, <2>9, <2>10
<1> QED BY <1>5, <1>6

(* Of a codeword's bits those are right that were sent and not lost.       *)
LEMMA BitsToDecode ==
    ASSUME CodecInv, d_demodulated # <<>>, ~ decoded,
           NEW n \in 1..DataWords, NEW j \in 0..7,
           shuffle_pattern[j] < Width, shuffle_pattern[j] # lost - 1
    PROVE  j \in Dewhitened[n] <=> j \in HammingEncode[block.data[n]]
<1> DEFINE s == shuffle_pattern[j]
           E == HammingEncode[block.data[n]]
           W == Whitening(n)
<1>1. /\ block \in Blocks /\ BlockReceived /\ DataWords <= Ppm
      /\ Ppm \in 4..13 /\ DataWords \in 4..13 /\ Width \in 5..8
      /\ block.data \in Seq(Nibble) /\ Len(block.data) = DataWords
  BY BlockShape DEF CodecInv
<1>2. block.data[n] \in Nibble /\ n \in 1..Ppm
  BY <1>1, ElementOfSeq
<1>3. E \in Byte /\ W \in Byte
  BY <1>2, Codeword, WordsToDecode
<1>4. s \in 0..(Width - 1)
  BY <1>1, ShuffleIsPermutation
<1>5. s \in d_demodulated[n] <=> s \in SentCodeword(n)
  <2>1. Xor(d_demodulated[n], SentCodeword(n)) \subseteq {lost - 1}
    BY <1>1, <1>2 DEF BlockReceived
  <2> QED BY <2>1, InXor
<1>6. s \in SentCodeword(n) <=> j \in Xor(E, W)
  <2>1. SentCodeword(n) = {shuffle_pattern[i] : i \in Xor(E, W)} \cap (0..(Width - 1))
    BY DEF SentCodeword
  <2>2. Xor(E, W) \subseteq 0..7
    BY <1>3 DEF Xor, Byte
  <2> HIDE DEF E, W
  <2>3. ASSUME s \in SentCodeword(n) PROVE j \in Xor(E, W)
    <3>1. PICK i \in Xor(E, W) : shuffle_pattern[i] = s
      BY <2>1, <2>3
    <3>2. i = j
      BY <2>2, <3>1, ShuffleIsPermutation
    <3> QED BY <3>1, <3>2
  <2> QED BY <1>4, <2>1, <2>3
<1>7. j \in DeshuffledWord(d_demodulated[n]) <=> s \in d_demodulated[n]
  BY DEF DeshuffledWord
<1>8. Dewhitened[n] = Xor(DeshuffledWord(d_demodulated[n]), W)
  BY WordsToDecode
<1> HIDE DEF s, E, W
<1>9. j \in Dewhitened[n] <=> j \in E
  BY <1>5, <1>6, <1>7, <1>8, InXor
<1> QED BY <1>9 DEF E

(* With seven or eight symbols at most one bit is wrong.                   *)
LEMMA OneBitWrong ==
    ASSUME CodecInv, d_demodulated # <<>>, ~ decoded, NEW n \in 1..DataWords,
           Width = 8 \/ (Width = 7 /\ lost = 0)
    PROVE  /\ block.data[n] \in Nibble /\ Dewhitened[n] \in Byte
           /\ \E k \in 0..7 :
                 Xor(Dewhitened[n], HammingEncode[block.data[n]]) \subseteq {k}
<1> DEFINE E == HammingEncode[block.data[n]]
<1>1. /\ block.data[n] \in Nibble /\ lost \in 0..Width
  BY BlockShape, ElementOfSeq DEF CodecInv
<1>2. E \in Byte /\ Dewhitened[n] \in Byte
  BY <1>1, Codeword, WordsToDecode
<1>3. Xor(Dewhitened[n], E) \subseteq 0..7
  BY <1>2 DEF Xor, Byte
<1>4. PICK k \in 0..7 : \A j \in 0..7 : j # k =>
          shuffle_pattern[j] < Width /\ shuffle_pattern[j] # lost - 1
  <2>1. CASE Width = 8 /\ lost # 0
    <3>1. lost - 1 \in 0..7
      BY <1>1, <2>1
    <3>2. PICK k \in 0..7 : shuffle_pattern[k] = lost - 1
      BY <3>1, ShuffleIsPermutation
    <3>3. \A j \in 0..7 : j # k =>
             shuffle_pattern[j] < 8 /\ shuffle_pattern[j] # lost - 1
      BY <3>2, ShuffleIsPermutation
    <3> QED BY <2>1, <3>3
  <2>2. CASE lost = 0
    <3>1. shuffle_pattern[7] = 7 /\ 7 \in 0..7
      BY ShufflePattern
    <3>2. \A j \in 0..7 : j # 7 => shuffle_pattern[j] \in 0..6
      <4>1. \A j \in 0..7 : j # 7 => shuffle_pattern[j] \in 0..7 /\ shuffle_pattern[j] # 7
        BY <3>1, ShuffleIsPermutation
      <4> QED BY <4>1
    <3> QED BY <2>2, <3>1, <3>2
  <2> QED BY <2>1, <2>2
<1>5. \A j \in 0..7 : j # k => (j \in Dewhitened[n] <=> j \in E)
  BY <1>4, BitsToDecode
<1> QED BY <1>1, <1>2, <1>3, <1>5, InXor

-----------------------------------------------------------------------------
(* The bytes.                                                              *)

(* Read in pairs, every nibble is found where the reader looks for it.     *)
Pairs(B, R) == [k \in 1..B |-> Pair(R[2 * k - 1], R[2 * k])]

NibbleOf(d, n) == IF (n % 2 = 1) = IsHeader THEN d[CeilDiv(n, 2)].hi
                                            ELSE d[CeilDiv(n, 2)].lo

LEMMA PairsRead ==
    ASSUME NEW B \in Nat, NEW R \in [1..(2 * B) -> Nibble],
           NEW d, d = Pairs(B, R)
    PROVE  /\ d \in Seq([hi : Nibble, lo : Nibble])
           /\ \A n \in 1..(2 * B) : R[n] = NibbleOf(d, n)
<1>1. IsHeader \in BOOLEAN
  BY DEF IsHeader
<1>2. d \in Seq([hi : Nibble, lo : Nibble])
  <2>1. ASSUME NEW k \in 1..B
        PROVE  Pair(R[2 * k - 1], R[2 * k]) \in [hi : Nibble, lo : Nibble]
    <3>1. 2 * k - 1 \in 1..(2 * B) /\ 2 * k \in 1..(2 * B)
      OBVIOUS
    <3>2. R[2 * k - 1] \in Nibble /\ R[2 * k] \in Nibble
      BY <3>1
    <3> QED BY <3>2 DEF Pair
  <2>2. d \in [1..B -> [hi : Nibble, lo : Nibble]]
    BY <2>1 DEF Pairs
  <2> DEFINE T == [hi : Nibble, lo : Nibble]
  <2>3. d \in [1..B -> T]
    BY <2>2
  <2> HIDE DEF T
  <2>4. d \in Seq(T)
    BY <2>3, SeqDef
  <2> QED BY <2>4 DEF T
<1>3. ASSUME NEW n \in 1..(2 * B)
      PROVE  R[n] = NibbleOf(d, n)
  <2>1. PICK k \in 1..B : n = 2 * k - 1 \/ n = 2 * k
    <3>1. (n + 1) \div 2 \in 1..B
      OBVIOUS
    <3>2. n = 2 * ((n + 1) \div 2) - 1 \/ n = 2 * ((n + 1) \div 2)
      OBVIOUS
    <3> QED BY <3>1, <3>2
  <2>2. CeilDiv(n, 2) = k
    <3>1. n + 2 - 1 = n + 1 /\ (n + 1) \div 2 = k
      BY <2>1
    <3> QED BY <3>1 DEF CeilDiv
  <2>3. d[k] = Pair(R[2 * k - 1], R[2 * k])
    BY DEF Pairs
  <2>4. CASE n = 2 * k - 1
    <3>1. (n % 2 = 1) = TRUE
      BY <2>4
    <3> QED BY <1>1, <2>2, <2>3, <2>4, <3>1 DEF Pair, NibbleOf
  <2>5. CASE n = 2 * k
    <3>1. (n % 2 = 1) = FALSE
      BY <2>5
    <3> QED BY <1>1, <2>2, <2>3, <2>5, <3>1 DEF Pair, NibbleOf
  <2> QED BY <2>1, <2>4, <2>5
<1> QED BY <1>2, <1>3

LEMMA UndecodedIsTyped ==
    ASSUME CodecInv
    PROVE  Undecoded \in Seq(Byte)
<1>1. d_demodulated \in Seq(Byte) /\ Len(d_demodulated) \in Nat
  BY LenProperties DEF CodecInv
<1>2. CASE IsHeader
  <2>1. \A i \in 6..Len(d_demodulated) : d_demodulated[i] \in Byte
    <3>1. \A i \in 6..Len(d_demodulated) : i \in 1..Len(d_demodulated)
      BY <1>1
    <3> QED BY <1>1, <3>1, ElementOfSeq
  <2>2. 6 \in Int /\ Len(d_demodulated) \in Int
    BY <1>1
  <2>3. SubSeq(d_demodulated, 6, Len(d_demodulated)) \in Seq(Byte)
    BY <2>1, <2>2, SubSeqProperties
  <2> QED BY <1>2, <2>3 DEF Undecoded
<1>3. CASE ~ IsHeader
  BY <1>3, EmptySeq DEF Undecoded
<1> QED BY <1>2, <1>3

(* decode() keeps the invariant, however it reads the words, if it reads   *)
(* them right where they can be made good.                                 *)
LEMMA DecodeKeeps ==
    ASSUME CodecInv, d_demodulated # <<>>, ~ decoded, decoded' = TRUE,
           d_demodulated' = Undecoded, UNCHANGED <<block, air, lost, d_words>>,
           NEW B \in Nat, DataWords <= 2 * B,
           NEW R \in [1..(2 * B) -> Nibble],
           d_decoded' = Pairs(B, R),
           CanBeMadeGood => \A n \in 1..DataWords : R[n] = block.data[n]
    PROVE  CodecInv'
<1>1. /\ block \in Blocks /\ lost \in 0..Width /\ OnAir /\ WordsReceived
      /\ DataWords \in 4..13
  BY BlockShape DEF CodecInv
<1>2. /\ Ppm' = Ppm /\ Width' = Width /\ IsHeader' = IsHeader
      /\ \A n : SentWord(n)' = SentWord(n)
  BY BlockStays
<1>3. OnAir'
  BY <1>1, AirStays
<1>4. WordsReceived'
  BY <1>1, <1>2 DEF WordsReceived
<1>5. d_demodulated' \in Seq(Byte)
  BY UndecodedIsTyped
<1>6. /\ d_decoded' \in Seq([hi : Nibble, lo : Nibble])
      /\ \A n \in 1..(2 * B) :
            R[n] = IF (n % 2 = 1) = IsHeader THEN d_decoded'[CeilDiv(n, 2)].hi
                                             ELSE d_decoded'[CeilDiv(n, 2)].lo
  <2>1. PICK d : d = d_decoded'
    OBVIOUS
  <2>2. d = Pairs(B, R)
    BY <2>1
  <2>3. /\ d \in Seq([hi : Nibble, lo : Nibble])
        /\ \A n \in 1..(2 * B) : R[n] = NibbleOf(d, n)
    BY <2>2, PairsRead
  <2> QED BY <2>1, <2>3 DEF NibbleOf
<1>7. DataWords' = DataWords /\ CanBeMadeGood' = CanBeMadeGood
  BY <1>2 DEF DataWords, CanBeMadeGood
<1>8. ASSUME CanBeMadeGood PROVE AllNibblesRight'
  <2> SUFFICES ASSUME NEW n \in 1..DataWords
               PROVE  NibbleRead(n)' = block.data[n]
    BY <1>7 DEF AllNibblesRight
  <2>1. n \in 1..(2 * B)
    BY <1>1
  <2>2. NibbleRead(n)' = R[n]
    BY <1>2, <1>6, <2>1 DEF NibbleRead, CeilDiv
  <2> QED BY <1>8, <2>2
<1> QED BY <1>1, <1>2, <1>3, <1>4, <1>5, <1>6, <1>7, <1>8 DEF CodecInv

LEMMA EnoughBytes ==
    ASSUME NEW L \in 4..13, NEW c \in 3..4
    PROVE  CeilDiv(4 * L, 4 + c) \in Nat /\ L <= 2 * CeilDiv(4 * L, 4 + c)
<1>1. CASE c = 3
  <2>1. (4 * L + 7 - 1) \div 7 \in Nat /\ L <= 2 * ((4 * L + 7 - 1) \div 7)
    OBVIOUS
  <2> QED BY <1>1, <2>1 DEF CeilDiv
<1>2. CASE c = 4
  <2>1. (4 * L + 8 - 1) \div 8 \in Nat /\ L <= 2 * ((4 * L + 8 - 1) \div 8)
    OBVIOUS
  <2> QED BY <1>2, <2>1 DEF CeilDiv
<1> QED BY <1>1, <1>2

LEMMA DecodeFecKeeps ==
    ASSUME CodecInv, DecodeFec
    PROVE  CodecInv'
<1> DEFINE L == Len(Dewhitened)
           B == FecBytes
<1>1. /\ d_demodulated # <<>> /\ ~ decoded /\ decoded' = TRUE
      /\ d_demodulated' = Undecoded /\ UNCHANGED <<block, air, lost, d_words>>
  BY DEF DecodeFec
<1>2. /\ block \in Blocks /\ block.cr \in 3..4 /\ DataWords \in 4..13
      /\ Width \in 7..8 /\ (Width = 7 \/ Width = 8) /\ Ppm \in 4..13
      /\ DataWords = IF IsHeader THEN 5 ELSE Ppm
      /\ block.cr = 4 => Width = 8
  <2>1. block \in Blocks /\ block.cr \in 3..4
    BY DEF CodecInv, DecodeFec, UsesFec
  <2> QED BY <2>1, BlockShape
<1>3. /\ L = IF IsHeader THEN 6 ELSE Ppm
      /\ \A n \in 1..L : Dewhitened[n] \in Byte
      /\ \A n \in 1..DataWords : n \in 1..L
  BY <1>1, WordsToDecode
<1>4. L \in 4..13 /\ DataWords <= L
  BY <1>2, <1>3
<1>5. B \in Nat /\ L <= 2 * B
  <2>1. B = CeilDiv(4 * L, 4 + block.cr)
    BY DEF FecBytes
  <2> HIDE DEF L, B
  <2> QED BY <1>2, <1>4, <2>1, EnoughBytes
<1>6. PICK beyond \in [(L + 1)..(2 * B) -> Garbage] :
         d_decoded' = [k \in 1..B |->
             Pair(FecDecodedWord[IF 2 * k - 1 <= L THEN Dewhitened[2 * k - 1]
                                                   ELSE beyond[2 * k - 1]],
                  FecDecodedWord[IF 2 * k <= L THEN Dewhitened[2 * k]
                                               ELSE beyond[2 * k]])]
  BY DEF DecodeFec
<1> DEFINE R == [n \in 1..(2 * B) |->
                    FecDecodedWord[IF n <= L THEN Dewhitened[n] ELSE beyond[n]]]
<1> HIDE DEF L, B
<1>7. ASSUME NEW n \in 1..(2 * B) PROVE R[n] \in Nibble
  <2>1. (IF n <= L THEN Dewhitened[n] ELSE beyond[n]) \in Byte
    <3>1. CASE n <= L
      <4>1. n \in 1..L
        BY <1>4, <3>1
      <4> QED BY <1>3, <3>1, <4>1
    <3>2. CASE ~ (n <= L)
      <4>1. n \in (L + 1)..(2 * B)
        BY <1>4, <1>5, <3>2
      <4> QED BY <3>2, <4>1, GarbageAssumption
    <3> QED BY <3>1, <3>2
  <2> QED BY <2>1, FecDecodesToNibble
<1>8. d_decoded' = Pairs(B, R)
  <2>1. \A k \in 1..B : 2 * k - 1 \in 1..(2 * B) /\ 2 * k \in 1..(2 * B)
    BY <1>5
  <2> QED BY <1>6, <2>1 DEF Pairs
<1>9. ASSUME CanBeMadeGood, NEW n \in 1..DataWords PROVE R[n] = block.data[n]
  <2>1. Width = 8 \/ (Width = 7 /\ lost = 0)
    BY <1>2, <1>9 DEF CanBeMadeGood
  <2>2. FecDecodedWord[Dewhitened[n]] = block.data[n]
    <3>1. /\ block.data[n] \in Nibble /\ Dewhitened[n] \in Byte
          /\ \E k \in 0..7 :
                Xor(Dewhitened[n], HammingEncode[block.data[n]]) \subseteq {k}
      BY <1>1, <2>1, OneBitWrong
    <3> QED BY <3>1, FecCorrects
  <2>3. n \in 1..(2 * B) /\ n <= L
    BY <1>2, <1>4, <1>5
  <2> QED BY <2>2, <2>3
<1>10. R \in [1..(2 * B) -> Nibble]
  BY <1>7
<1> HIDE DEF R
<1>11. DataWords <= 2 * B
  BY <1>2, <1>4, <1>5
<1> QED BY <1>1, <1>5, <1>8, <1>9, <1>10, <1>11, DecodeKeeps

LEMMA DecodeDataOnlyKeeps ==
    ASSUME CodecInv, DecodeDataOnly
    PROVE  CodecInv'
<1> DEFINE L == Len(Dewhitened)
           B == CeilDiv(L, 2)
           R == [n \in 1..(2 * B) |->
                    IF n <= L THEN DataOf(Dewhitened[n]) ELSE {}]
<1>1. /\ d_demodulated # <<>> /\ ~ decoded /\ decoded' = TRUE
      /\ d_demodulated' = Undecoded /\ UNCHANGED <<block, air, lost, d_words>>
      /\ d_decoded' = [k \in 1..B |->
             Pair(IF 2 * k - 1 <= L THEN DataOf(Dewhitened[2 * k - 1]) ELSE {},
                  IF 2 * k <= L THEN DataOf(Dewhitened[2 * k]) ELSE {})]
  BY DEF DecodeDataOnly
<1>2. /\ block \in Blocks /\ DataWords \in 4..13 /\ Width \in 5..8
      /\ Ppm \in 4..13 /\ DataWords = IF IsHeader THEN 5 ELSE Ppm
      /\ block.data \in Seq(Nibble) /\ Len(block.data) = DataWords
      /\ ~ (block.cr \in 3..4)
  <2>1. block \in Blocks /\ ~ (block.cr \in 3..4)
    BY DEF CodecInv, DecodeDataOnly, UsesFec
  <2> QED BY <2>1, BlockShape
<1>3. L = IF IsHeader THEN 6 ELSE Ppm
  BY <1>1, WordsToDecode
<1>4. L \in 4..13 /\ DataWords <= L
  BY <1>2, <1>3
<1> HIDE DEF L
<1>5. B \in Nat /\ L <= 2 * B
  BY <1>4 DEF CeilDiv
<1> HIDE DEF B
<1>6. ASSUME NEW n \in 1..(2 * B) PROVE R[n] \in Nibble
  <2>1. {} \in Nibble
    BY DEF Nibble
  <2> QED BY <2>1, DataBits
<1>7. d_decoded' = Pairs(B, R)
  <2>1. \A k \in 1..B : 2 * k - 1 \in 1..(2 * B) /\ 2 * k \in 1..(2 * B)
    BY <1>5
  <2> QED BY <1>1, <2>1 DEF Pairs
<1>8. ASSUME CanBeMadeGood, NEW n \in 1..DataWords PROVE R[n] = block.data[n]
  <2>1. lost = 0
    BY <1>2, <1>8 DEF CanBeMadeGood
  <2>2. ASSUME NEW j \in {1, 2, 3, 5}
        PROVE  j \in Dewhitened[n] <=> j \in HammingEncode[block.data[n]]
    <3>1. j \in 0..7 /\ shuffle_pattern[j] \in 0..3
      BY ShufflePattern
    <3>2. shuffle_pattern[j] < Width /\ shuffle_pattern[j] # lost - 1
      BY <1>2, <2>1, <3>1
    <3> QED BY <1>1, <3>1, <3>2, BitsToDecode
  <2>3. block.data[n] \in Nibble
    BY <1>2, ElementOfSeq
  <2>4. DataOf(Dewhitened[n]) = block.data[n]
    BY <2>2, <2>3, DataRead
  <2>5. n \in 1..(2 * B) /\ n <= L
    BY <1>2, <1>4, <1>5
  <2> QED BY <2>4, <2>5
<1>10. R \in [1..(2 * B) -> Nibble]
  BY <1>6
<1> HIDE DEF R
<1>9. DataWords <= 2 * B
  BY <1>2, <1>4, <1>5
<1> QED BY <1>1, <1>5, <1>7, <1>8, <1>9, <1>10, DecodeKeeps

LEMMA CodecNext ==
    ASSUME CodecInv, [Next]_vars
    PROVE  CodecInv'
<1>1. CASE UNCHANGED vars
  <2>1. UNCHANGED <<block, air, lost, d_words, d_demodulated, d_decoded, decoded>>
    BY <1>1 DEF vars
  <2>2. /\ Ppm' = Ppm /\ Width' = Width /\ IsHeader' = IsHeader
        /\ \A n : SentWord(n)' = SentWord(n)
        /\ \A n : SentCodeword(n)' = SentCodeword(n)
    BY <2>1, BlockStays
  <2>3. OnAir'
    BY <2>1, AirStays DEF CodecInv
  <2>4. WordsReceived'
    BY <2>1, <2>2 DEF CodecInv, WordsReceived
  <2>5. BlockReceived => BlockReceived'
    BY <2>1, <2>2 DEF BlockReceived
  <2>6. AllNibblesRight' = AllNibblesRight /\ CanBeMadeGood' = CanBeMadeGood
    BY <2>1, <2>2 DEF AllNibblesRight, NibbleRead, DataWords, CanBeMadeGood
  <2> QED BY <2>1, <2>2, <2>3, <2>4, <2>5, <2>6 DEF CodecInv
<1> QED
  BY <1>1, DemodulateReceives, DecodeFecKeeps, DecodeDataOnlyKeeps DEF Next

-----------------------------------------------------------------------------
(* Every bin, word and nibble stays within its width.                      *)
THEOREM CodecTypes == Spec => []TypeOK
<1>1. CodecInv => TypeOK
  BY DEF CodecInv, TypeOK, WordsReceived, OnAir
<1> QED BY <1>1, CodecInit, CodecNext, PTL DEF Spec

(* Without a lost symbol every nibble is decoded to what was sent.         *)
THEOREM DecodesRight == Spec => []DecodesWhatWasSent
<1>1. CodecInv => DecodesWhatWasSent
  BY DEF CodecInv, DecodesWhatWasSent, CanBeMadeGood
<1> QED BY <1>1, CodecInit, CodecNext, PTL DEF Spec

(* A lost symbol costs every codeword one bit at the most, the same in all. *)
THEOREM SymbolCostsOneBit == Spec => []OneSymbolOneBit
<1>1. CodecInv => OneSymbolOneBit
  BY DEF CodecInv, BlockReceived, OneSymbolOneBit
<1> QED BY <1>1, CodecInit, CodecNext, PTL DEF Spec

(* fec_decode() makes that loss good wherever there are four parity bits.  *)
THEOREM LossIsMadeGood == Spec => []LostSymbolIsCorrected
<1>1. CodecInv => LostSymbolIsCorrected
  BY DEF CodecInv, LostSymbolIsCorrected, CanBeMadeGood
<1> QED BY <1>1, CodecInit, CodecNext, PTL DEF Spec

(* So would the decoder of utilities.h.                                    *)
THEOREM SoftDecoderMakesGood == Spec => []SoftDecoderCorrects
<1>1. CodecInv => SoftDecoderCorrects
  <2> SUFFICES ASSUME CodecInv, d_demodulated # <<>>, ~ decoded, Width = 8,
                      NEW n \in 1..DataWords
               PROVE  SoftDecodedWord(Dewhitened[n]) = block.data[n]
    BY DEF SoftDecoderCorrects
  <2> QED BY OneBitWrong, SoftCorrects
<1> QED BY <1>1, CodecInit, CodecNext, PTL DEF Spec

=============================================================================
