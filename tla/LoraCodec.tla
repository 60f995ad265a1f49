----------------------------- MODULE LoraCodec -----------------------------
(***************************************************************************)
(* One interleaved block of lib/decoder_impl.cc, bit by bit: from the bins *)
(* of its symbols to its nibbles, through demodulate(), deinterleave() and *)
(* decode().  LoraDecoder says when these run and on what; this module     *)
(* says what they compute, and what is left of it when a symbol is wrong.  *)
(*                                                                         *)
(* A word is the set of its bits that are 1, bit 0 being the least         *)
(* significant: exclusive or is symmetric difference.  The transmitter is  *)
(* not in the repository: it is what the receiver's steps undo.            *)
(*                                                                         *)
(* As in LoraDecoder, a definition that precedes its namesake is the same  *)
(* with a plausible mistake, for comparison.                               *)
(***************************************************************************)
EXTENDS Integers, Sequences, FiniteSets

CONSTANTS
    Blocks,         \* the blocks a transmitter may send
    BinErrors,      \* how far a bin may be off in a symbol that is not lost
    Garbage,        \* what the memory behind a vector may hold (a bound)
    PrngCr56,       \* prng_payload_cr56 and prng_payload_cr78, as long as a
    PrngCr78        \* block needs them

Nibble == SUBSET (0..3)
Byte   == SUBSET (0..7)

(* kind "header": the first block, explicit; "first": the first block of a *)
(* reception without header; "payload": any other.  cr is the coding rate  *)
(* in force in the receiver: the payload's own, but when the header is     *)
(* decoded still the previous packet's.                                    *)
Block == [sf : 6..13, kind : {"header", "first", "payload"}, cr : 1..4,
          reduced_rate : BOOLEAN, data : Seq(Nibble)]

(* The words of a block that carry data.                                   *)
WordsOf(b) ==
    CASE b.kind = "header"                     -> 5
      [] b.kind = "first"                      -> b.sf - 2
      [] b.kind = "payload" /\ b.reduced_rate   -> b.sf - 2
      [] b.kind = "payload" /\ ~ b.reduced_rate -> b.sf

(* A header needs five words.  What its block carries behind them belongs  *)
(* to the payload and is left open here.                                   *)
ASSUME BlocksAssumption ==
    \A b \in Blocks :
        /\ b \in Block
        /\ b.kind = "header" => b.sf >= 7
        /\ Len(b.data) = WordsOf(b)

(* A nearer bin is the sent one after lround(): two below, one above.      *)
ASSUME ErrorsAssumption == BinErrors \subseteq -2..1

ASSUME GarbageAssumption == Garbage \subseteq Byte

ASSUME PrngAssumption ==
    \A b \in Blocks : \A i \in 1..WordsOf(b) :
        PrngCr56[i] \in Byte /\ PrngCr78[i] \in Byte

VARIABLES
    block,          \* what is transmitted; never changes
    air,            \* the bins of its symbols; never change
    lost,           \* the symbol that was hit by noise; 0: none
    d_words,
    d_demodulated,
    d_decoded,      \* pairs of nibbles
    decoded         \* decode() was called

vars == <<block, air, lost, d_words, d_demodulated, d_decoded, decoded>>

-----------------------------------------------------------------------------
(* Numbers and words.                                                      *)

Xor(v, w) == (v \ w) \cup (w \ v)

Odd(bits) == Cardinality(bits) % 2 = 1

(* The bits of a number below 2^14.                                        *)
WordOf(n) == {b \in 0..13 : (n \div 2^b) % 2 = 1}

CeilDiv(a, b) == (a + b - 1) \div b

-----------------------------------------------------------------------------
(* The shape of the block.                                                 *)

IsFirst  == block.kind \in {"header", "first"}
IsHeader == block.kind = "header"

(* Without the full rate the two lowest bits of a bin are not used.        *)
Reduced == IsFirst \/ block.reduced_rate

Ppm == IF Reduced THEN block.sf - 2 ELSE block.sf

(* The symbols of the block, and bits of a codeword.                       *)
Width == 4 + (IF IsFirst THEN 4 ELSE block.cr)

-----------------------------------------------------------------------------
(* demodulate()                                                            *)

(* std::lround(bin_idx / 4.0f) % d_number_of_bins_hdr                      *)
RoundedBinUnwrapped(bin) == (bin + 2) \div 4
RoundedBinTruncated(bin) == bin \div 4
RoundedBin(bin) == ((bin + 2) \div 4) % 2^(block.sf - 2)

SymbolBin(bin) == IF Reduced THEN RoundedBin(bin) ELSE bin

(* bin_idx ^ (bin_idx >> 1u)                                               *)
Gray(bin) == Xor(WordOf(bin), WordOf(bin \div 2))

(* rotl()                                                                  *)
RotlTheOtherWay(word, count, size) ==
    {(b + size - (count % size)) % size : b \in word \cap (0..(size - 1))}
Rotl(word, count, size) ==
    {(b + count) % size : b \in word \cap (0..(size - 1))}

(* deinterleave(): bit i of the words comes from the i-th symbol, rotated. *)
DeinterleavedWord(words, x) ==
    {i \in 0..(Len(words) - 1) : x \in Rotl(words[i + 1], i, Ppm)}

Deinterleaved(words) == [x \in 1..Ppm |-> DeinterleavedWord(words, x - 1)]

-----------------------------------------------------------------------------
(* decode()                                                                *)

(* deshuffle(): the loop runs sizeof(shuffle_pattern) times, the size of a *)
(* pointer, which is the pattern's eight on a 64-bit machine.              *)
shuffle_pattern == [j \in 0..7 |-> <<5, 0, 1, 2, 4, 3, 6, 7>>[j + 1]]

DeshuffledWord(word) == {j \in 0..7 : shuffle_pattern[j] \in word}

(* Of the header's block five words are the header; a zero is added.       *)
Deshuffled ==
    IF IsHeader
    THEN [i \in 1..5 |-> DeshuffledWord(d_demodulated[i])] \o << {} >>
    ELSE [i \in 1..Len(d_demodulated) |-> DeshuffledWord(d_demodulated[i])]

(* prng_header is all zeros.                                               *)
Whitening(i) ==
    IF IsHeader THEN {} ELSE IF block.cr <= 2 THEN PrngCr56[i] ELSE PrngCr78[i]

Dewhitened == [i \in 1..Len(Deshuffled) |-> Xor(Deshuffled[i], Whitening(i))]

(* Where the data bits are in a codeword (extract_data_only), and which of *)
(* them each parity bit covers (hamming_encode_soft).                      *)
data_indices == [d \in 0..3 |-> <<1, 2, 3, 5>>[d + 1]]
ParityCover  == [p \in {0, 4, 6, 7} |-> CASE p = 0 -> {1, 2, 3}
                                          [] p = 4 -> {0, 1, 2}
                                          [] p = 6 -> {0, 1, 3}
                                          [] p = 7 -> {0, 2, 3}]

DataOf(word) == {d \in 0..3 : data_indices[d] \in word}

HammingEncode == [v \in Nibble |->
    {data_indices[d] : d \in v} \cup
    {p \in {0, 4, 6, 7} : Odd(v \cap ParityCover[p])}]

(* hamming_decode_soft_byte(): the syndrome says which bit to turn.        *)
SyndromeBits == <<0, 0, 4, 0, 6, 0, 0, 2, 7, 0, 0, 3, 0, 5, 1, 0>>

Syndrome(word) ==
    LET Fails(p) == IF (p \in word) # Odd(DataOf(word) \cap ParityCover[p])
                    THEN 1 ELSE 0
    IN  Fails(0) + 2 * Fails(4) + 4 * Fails(6) + 8 * Fails(7)

WrongBitOffByOne(syndrome) == SyndromeBits[syndrome]
WrongBit(syndrome) == SyndromeBits[syndrome + 1]

SoftDecodedWord(word) ==
    IF Syndrome(word) = 0 THEN DataOf(word)
    ELSE DataOf(Xor(word, {WrongBit(Syndrome(word))}))

(* liquid-dsp's fec_decode() for LIQUID_FEC_HAMMING84: the nibble whose    *)
(* codeword is nearest.                                                    *)
FecDecodedWord == [word \in Byte |->
    LET Distance(v) == Cardinality(Xor(word, HammingEncode[v]))
    IN  CHOOSE v \in Nibble : \A u \in Nibble : Distance(v) <= Distance(u)]

(* hamming_decode(): two words make a byte, in which the first word of a   *)
(* header is the high nibble and the first of a payload the low one.       *)
Pair(first, second) == IF IsHeader THEN [hi |-> first, lo |-> second]
                                   ELSE [hi |-> second, lo |-> first]

(* The coding rates the Hamming decoder is used for.                       *)
UsesFecOnly74 == block.cr = 3
UsesFec == block.cr \in 3..4

(* How many bytes it is asked for; it reads two words for each.            *)
FecBytes == CeilDiv(4 * Len(Dewhitened), 4 + block.cr)

-----------------------------------------------------------------------------
(* The transmitter: data to codewords, codewords to symbols.               *)

SentCodeword(n) ==
    LET whitened == Xor(HammingEncode[block.data[n]], Whitening(n))
    IN  {shuffle_pattern[j] : j \in whitened} \cap (0..(Width - 1))

SentWord(i) ==
    {b \in 0..(Ppm - 1) : (i - 1) \in SentCodeword(((b + i - 1) % Ppm) + 1)}

SentBins ==
    LET bins == [word \in {Gray(n) : n \in 0..(2^Ppm - 1)} |->
                    CHOOSE n \in 0..(2^Ppm - 1) : Gray(n) = word]
    IN  [i \in 1..Width |-> (IF Reduced THEN 4 ELSE 1) * bins[SentWord(i)]]

-----------------------------------------------------------------------------
Init ==
    /\ block \in Blocks
    /\ air = SentBins
    /\ lost = 0
    /\ d_words = <<>>
    /\ d_demodulated = <<>>
    /\ d_decoded = <<>>
    /\ decoded = FALSE

(* The bins max_frequency_gradient_idx() may find in a symbol that is not  *)
(* lost: the one that was sent, give or take an error the reduced rate     *)
(* leaves room for.                                                        *)
BinsNear(sent) ==
    {(sent + e) % 2^block.sf : e \in IF Reduced THEN BinErrors ELSE {0}}

(* The i-th symbol is read as this bin: noise makes it any, in one symbol. *)
Received(i, bins, bin) == \/ bin \in bins /\ UNCHANGED lost
                          \/ lost = 0 /\ lost' = i

(* demodulate() on one symbol; deinterleave() once the block is complete.  *)
Demodulate ==
    /\ d_demodulated = <<>> /\ ~ decoded
    /\ LET i     == Len(d_words) + 1
           bins  == BinsNear(air[i])
           words(bin) == Append(d_words, Gray(SymbolBin(bin)))
       IN  \E bin \in 0..(2^block.sf - 1) :
             /\ Received(i, bins, bin)
             /\ IF i = Width
                THEN /\ d_demodulated' = Deinterleaved(words(bin))
                     /\ d_words' = <<>>
                ELSE /\ d_words' = words(bin)
                     /\ UNCHANGED d_demodulated
    /\ UNCHANGED <<block, air, d_decoded, decoded>>

(* deshuffle() takes the words it turned out of d_demodulated.             *)
Undecoded == IF IsHeader THEN SubSeq(d_demodulated, 6, Len(d_demodulated))
                         ELSE <<>>

(* decode() with the coding rates 3 and 4.  fec_decode() may read more     *)
(* words than there are.                                                   *)
DecodeFec ==
    /\ d_demodulated # <<>> /\ ~ decoded
    /\ UsesFec
    /\ \E beyond \in [(Len(Dewhitened) + 1)..(2 * FecBytes) -> Garbage] :
          LET Read(n) == FecDecodedWord[IF n <= Len(Dewhitened)
                                        THEN Dewhitened[n] ELSE beyond[n]]
          IN  d_decoded' = [k \in 1..FecBytes |-> Pair(Read(2 * k - 1),
                                                       Read(2 * k))]
    /\ decoded' = TRUE
    /\ d_demodulated' = Undecoded
    /\ UNCHANGED <<block, air, lost, d_words>>

(* decode() with the coding rates 1 and 2: the parity is not looked at.    *)
DecodeDataOnly ==
    /\ d_demodulated # <<>> /\ ~ decoded
    /\ ~ UsesFec
    /\ LET Read(n) == IF n <= Len(Dewhitened) THEN DataOf(Dewhitened[n]) ELSE {}
       IN  d_decoded' = [k \in 1..CeilDiv(Len(Dewhitened), 2) |->
                            Pair(Read(2 * k - 1), Read(2 * k))]
    /\ decoded' = TRUE
    /\ d_demodulated' = Undecoded
    /\ UNCHANGED <<block, air, lost, d_words>>

Next == Demodulate \/ DecodeFec \/ DecodeDataOnly

Spec == Init /\ [][Next]_vars

-----------------------------------------------------------------------------
TypeOK ==
    /\ block \in Blocks
    /\ air \in [1..Width -> 0..(2^block.sf - 1)]
    /\ lost \in 0..Width
    /\ d_words \in Seq(SUBSET (0..(Ppm - 1)))
    /\ d_demodulated \in Seq(Byte)
    /\ d_decoded \in Seq([hi : Nibble, lo : Nibble])
    /\ decoded \in BOOLEAN

(* The words that reach the Hamming decoder.                               *)
DataWords == IF IsHeader THEN 5 ELSE Ppm

NibbleRead(n) ==
    LET byte == d_decoded[CeilDiv(n, 2)]
    IN  IF (n % 2 = 1) = IsHeader THEN byte.hi ELSE byte.lo

AllNibblesRight == \A n \in 1..DataWords : NibbleRead(n) = block.data[n]

(* A block without a lost symbol is decoded to what was sent, whatever its *)
(* coding rate, and whatever lies in memory behind the words that          *)
(* fec_decode() reads too many.  The bins may be off as far as the reduced *)
(* rate has room.                                                          *)
DecodesWhatWasSent == decoded /\ lost = 0 => AllNibblesRight

(* Why the words are interleaved: a lost symbol, whatever it is read as,   *)
(* spoils one bit of each codeword at the most, the same in all of them.   *)
OneSymbolOneBit ==
    d_demodulated # <<>> /\ ~ decoded =>
        \A n \in 1..Ppm :
            Xor(d_demodulated[n], SentCodeword(n)) \subseteq {lost - 1}

(* With four parity bits that is a loss the Hamming decoder makes good.    *)
LostSymbolIsCorrected ==
    decoded /\ Width = 8 /\ block.cr \in 3..4 => AllNibblesRight

(* The decoder of include/lora/utilities.h, which hamming_decode_soft()    *)
(* would use instead of liquid-dsp's, makes it good too.                   *)
SoftDecoderCorrects ==
    d_demodulated # <<>> /\ ~ decoded /\ Width = 8 =>
        \A n \in 1..DataWords : SoftDecodedWord(Dewhitened[n]) = block.data[n]

(* "Header has additional redundancy" (demodulate): its codewords have     *)
(* four parity bits whatever the payload's coding rate, so that a lost     *)
(* symbol does not cost the header.                                        *)
HeaderSurvivesLostSymbol == decoded /\ IsHeader => AllNibblesRight
=============================================================================
