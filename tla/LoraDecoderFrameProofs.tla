----------------------- MODULE LoraDecoderFrameProofs ----------------------
(***************************************************************************)
(* Proofs about the frames LoraDecoder publishes, when every header on the *)
(* air has a coding rate: each is complete and made of one reception only, *)
(* and the decoder implements FrameReceiver.                               *)
(***************************************************************************)
EXTENDS LoraDecoderProofs

(* LoRa knows the coding rates 4/5 to 4/8, 1 to 4 in a header.             *)
HeadersHaveCr == \A h \in Headers : h.cr >= 1

(* What the types say of the sizes the proofs compute with.                *)
LEMMA Ranges ==
    ASSUME TypeOK
    PROVE  /\ HeaderBits \in Nat /\ HeaderBits >= 4
           /\ PayloadBits \in Nat /\ PayloadBits >= 4 /\ PayloadBits \in 4..13
           /\ Len(d_demodulated) \in Nat
           /\ conf.sf \in Int
           /\ d_payload_length \in Nat
<1>1. /\ HeaderBits \in 4..11 /\ PayloadBits \in 4..13 /\ conf.sf \in Int
  BY BitsFacts DEF Config
<1>2. Len(d_demodulated) \in Nat /\ d_payload_length \in Nat
  BY DEF TypeOK
<1> QED BY <1>1, <1>2

-----------------------------------------------------------------------------
(* Arithmetic of blocks: w symbols bring p words.                          *)

LEMMA NoBlocksLeft ==
    ASSUME NEW w \in 5..8, NEW b \in Nat
    PROVE  /\ b * w <= 0 => b = 0
           /\ b = 0 => b * w = 0
           /\ b * w \in Nat
           /\ b # 0 => b * w > 0
<1>1. CASE w = 5 BY <1>1
<1>2. CASE w = 6 BY <1>2
<1>3. CASE w = 7 BY <1>3
<1>4. CASE w = 8 BY <1>4
<1> QED BY <1>1, <1>2, <1>3, <1>4

LEMMA OneBlockLess ==
    ASSUME NEW w \in Int, NEW p \in Int, NEW needed \in Int, NEW b \in Int
    PROVE  /\ b * w - w = (b - 1) * w
           /\ p * (needed - b) + p = p * (needed - (b - 1))
OBVIOUS

(* With no block left to receive the words suffice for the payload.        *)
LEMMA WordsSuffice ==
    ASSUME NEW len \in Nat, NEW p \in 4..13, NEW extra \in Nat
    PROVE  /\ BlocksNeeded(len, p) \in Nat
           /\ 2 * len <= extra + p * (BlocksNeeded(len, p) - 0)
<1>1. 2 * len \in Nat
  OBVIOUS
<1>2. /\ CeilDiv(2 * len, p) \in Nat
      /\ 2 * len <= p * CeilDiv(2 * len, p)
  BY <1>1, CeilDivCovers
<1>3. CeilDiv(2 * len, p) - 0 = CeilDiv(2 * len, p)
  BY <1>2
<1>4. p * CeilDiv(2 * len, p) \in Int
  BY <1>2
<1> QED BY <1>1, <1>2, <1>3, <1>4 DEF BlocksNeeded

-----------------------------------------------------------------------------
(* The inductive invariant.  What a frame is when it is published follows  *)
(* from the count of the symbols left while its payload is received.       *)

FramesComplete ==
    \A f \in 1..Len(frames) :
        /\ 2 * frames[f].length <= Len(frames[f].words)
        /\ frames[f].bytes_of = frames[f].rx
        /\ conf.implicit \/ frames[f].phdr.rx = frames[f].rx

ExplicitPayload ==
    /\ d_phdr.rx = rx
    /\ d_decoded.rx = rx
    /\ conf.sf >= 7
    /\ d_payload_symbols > 0 \/ d_words = <<>>

ImplicitPayload ==
    /\ d_payload_symbols = 1
    /\ d_demodulated # <<>>

CodingInv ==
    /\ d_phdr.cr \in 1..4
    /\ d_state = "DECODE_PAYLOAD" /\ ~ conf.implicit => ExplicitPayload
    /\ d_state = "DECODE_PAYLOAD" /\ conf.implicit => ImplicitPayload
    /\ SymbolCount
    /\ FramesComplete

(* Publishing enough words of the current reception.                       *)
LEMMA CompletePublished ==
    ASSUME TypeOK, d_phdr.cr \in 1..4, FramesComplete, UNCHANGED conf,
           NEW words \in Seq(Nat), NEW demodulated \in Seq(SUBSET Nat),
           NEW len \in Nat, Publish(words, demodulated, len),
           2 * len <= Len(demodulated),
           d_decoded.rx = rx \/ demodulated # <<>>,
           conf.implicit \/ d_phdr.rx = rx
    PROVE  FramesComplete'
<1> DEFINE frame == [rx |-> rx, phdr |-> d_phdr, length |-> len,
                     words |-> demodulated, bytes_of |-> d_decoded'.rx,
                     snr_of |-> d_snr]
<1>1. d_decoded'.rx = rx
  <2>1. HammingDecodes
    BY DEF HammingDecodes
  <2> QED BY <2>1 DEF Publish, DecodedPayload
<1>2. frames' = Append(frames, frame)
  BY DEF Publish
<1>3. /\ frame.length = len /\ frame.words = demodulated
      /\ frame.bytes_of = rx /\ frame.rx = rx /\ frame.phdr = d_phdr
  BY <1>1
<1> HIDE DEF frame
<1>4. frames \in Seq(Reception)
  BY DEF TypeOK
<1>5. \A f \in 1..Len(frames) : frames'[f] = frames[f]
  BY <1>2, <1>4
<1>6. Len(frames') = Len(frames) + 1 /\ frames'[Len(frames) + 1] = frame
  BY <1>2, <1>4
<1>7. ASSUME NEW f \in 1..Len(frames')
      PROVE  /\ 2 * frames'[f].length <= Len(frames'[f].words)
             /\ frames'[f].bytes_of = frames'[f].rx
             /\ conf'.implicit \/ frames'[f].phdr.rx = frames'[f].rx
  <2>1. CASE f = Len(frames) + 1
    BY <2>1, <1>3, <1>6
  <2>2. CASE f # Len(frames) + 1
    <3>1. f \in 1..Len(frames)
      BY <2>2, <1>4, <1>6
    <3> QED BY <3>1, <1>5 DEF FramesComplete
  <2> QED BY <2>1, <2>2
<1> QED BY <1>7 DEF FramesComplete

(* The end of DECODE_PAYLOAD for a payload with a header: b blocks are     *)
(* still missing.                                                          *)
LEMMA ExplicitFinishOrContinue ==
    ASSUME TypeOK, CodingInv, d_state = "DECODE_PAYLOAD", ~ conf.implicit,
           UNCHANGED <<conf, d_phdr, d_payload_length, rx>>,
           NEW words \in Seq(Nat), NEW demodulated \in Seq(SUBSET Nat),
           NEW b \in 0..BlocksNeeded(d_payload_length, PayloadBits),
           FinishOrContinue(words, demodulated, b * (4 + d_phdr.cr)),
           Len(demodulated) =
              (conf.sf - 7) +
              PayloadBits * (BlocksNeeded(d_payload_length, PayloadBits) - b)
    PROVE  CodingInv'
<1> DEFINE w == 4 + d_phdr.cr
           needed == BlocksNeeded(d_payload_length, PayloadBits)
<1>0. /\ w \in 5..8 /\ d_payload_length \in Nat /\ PayloadBits \in 4..13
      /\ conf.sf \in 7..13 /\ ExplicitPayload
  <2>1. ExplicitPayload /\ d_phdr.cr \in 1..4
    BY DEF CodingInv
  <2>2. conf.sf \in 6..13 /\ PayloadBits \in 4..13
    BY BitsFacts DEF Config
  <2>3. conf.sf \in 7..13
    BY <2>1, <2>2 DEF ExplicitPayload
  <2>4. w \in 5..8
    BY <2>1
  <2> QED BY <2>1, <2>2, <2>3, <2>4 DEF TypeOK
<1>1. needed \in Nat /\ 2 * d_payload_length <= (conf.sf - 7) + PayloadBits * (needed - 0)
  <2>1. conf.sf - 7 \in Nat
    BY <1>0
  <2> QED BY <2>1, <1>0, WordsSuffice
<1>2. b \in Nat
  BY <1>1
<1>3. b * w \in Nat /\ (b * w <= 0 => b = 0) /\ (b # 0 => b * w > 0)
  <2> HIDE DEF w
  <2> QED BY <1>0, <1>2, NoBlocksLeft
<1>4. CASE b * w <= 0
  <2>1. b = 0
    BY <1>3, <1>4
  <2>2. Publish(words, demodulated, d_payload_length)
    BY <1>4 DEF FinishOrContinue
  <2>3. 2 * d_payload_length <= Len(demodulated)
    BY <1>1, <2>1
  <2>4. FramesComplete'
    BY <1>0, <2>2, <2>3, CompletePublished DEF CodingInv, ExplicitPayload
  <2>5. d_state' = "DETECT"
    BY <2>2 DEF Publish
  <2> QED BY <2>4, <2>5 DEF CodingInv, SymbolCount
<1>5. CASE ~ (b * w <= 0)
  <2>1. /\ d_words' = words /\ d_demodulated' = demodulated
        /\ d_state' = "DECODE_PAYLOAD"
        /\ d_payload_symbols' = b * w
        /\ UNCHANGED <<d_decoded, frames>>
    BY <1>5 DEF FinishOrContinue
  <2>2. d_payload_symbols' > 0
    <3>1. b # 0
      BY <1>3, <1>5, NoBlocksLeft, <1>0
    <3> QED BY <3>1, <1>3, <2>1
  <2>3. ExplicitPayload'
    BY <2>1, <2>2, <1>0 DEF ExplicitPayload
  <2>4. FramesComplete'
    BY <2>1 DEF CodingInv, FramesComplete
  <2>5. SymbolCount'
    <3>1. PayloadBits' = PayloadBits
      BY DEF PayloadBits
    <3>2. BlocksNeeded(d_payload_length, PayloadBits)' = needed
      BY <3>1 DEF BlocksNeeded
    <3>3. /\ d_payload_symbols' = b * (4 + d_phdr'.cr)
          /\ Len(d_demodulated') = (conf'.sf - 7) + PayloadBits' * (needed - b)
      BY <2>1, <3>1
    <3>4. d_payload_length' = d_phdr'.length + MAC_CRC_SIZE * d_phdr'.has_mac_crc
      BY DEF CodingInv, SymbolCount
    <3> QED BY <3>2, <3>3, <3>4 DEF SymbolCount
  <2> QED BY <2>1, <2>3, <2>4, <2>5 DEF CodingInv
<1> QED BY <1>4, <1>5

(* A header is read from the reception's own words, and asks for as many   *)
(* blocks as its payload takes.                                            *)
LEMMA HeaderBlockCodingInv ==
    ASSUME TypeOK, TypeOK', BlockInv, CodingInv, HeaderBlockExplicit,
           HeadersHaveCr
    PROVE  CodingInv'
<1> DEFINE read == Deinterleaved(HeaderBits)
           n == Len(d_demodulated) + HeaderBits - HeaderWords
<1>1. /\ d_state = "DECODE_HEADER" /\ d_state' = "DECODE_PAYLOAD"
      /\ ~ conf.implicit /\ d_words' = <<>>
      /\ UNCHANGED <<conf, frames, rx>>
      /\ d_demodulated' = SubSeq(read, HeaderWords + 1, Len(read))
      /\ HeaderBits >= HeaderWords
  BY DEF HeaderBlockExplicit, Scheduled, signal
<1>2. HammingDecodes
  BY DEF CodingInv, HammingDecodes
<1>3. d_decoded'.rx = rx /\ d_decoded'.reads_as \subseteq Headers
  BY <1>2 DEF HeaderBlockExplicit, DecodedHeader
<1>4. PICK h \in Headers :
         /\ d_phdr' = [length |-> h.length, has_mac_crc |-> h.has_mac_crc,
                       cr |-> ClampedCr(h.cr), rx |-> d_decoded'.rx]
         /\ d_payload_length' = AnnouncedLength(h)
  BY <1>3 DEF HeaderBlockExplicit
<1>5. d_phdr'.cr \in 1..4
  <2>1. h.cr \in 1..7
    BY HeadersAssumption DEF Header, HeadersHaveCr
  <2> QED BY <1>4, <2>1 DEF ClampedCr
<1>6. /\ d_phdr'.rx = rx
      /\ d_payload_length' =
            d_phdr'.length + MAC_CRC_SIZE * d_phdr'.has_mac_crc
  BY <1>3, <1>4 DEF AnnouncedLength
<1>7. Len(d_demodulated') = conf.sf - 7
  <2>1. /\ d_demodulated = <<>> /\ Len(d_demodulated) = 0
        /\ HeaderBits \in Nat /\ HeaderBits = conf.sf - 2 /\ conf.sf \in Int
    BY <1>1, BitsFacts DEF BlockInv, Config
  <2>2. read \in Seq(SUBSET Nat) /\ Len(read) = Len(d_demodulated) + HeaderBits
    BY <2>1, DeinterleavedFacts
  <2>3. n \in Nat /\ Len(read) = n + HeaderWords
    BY <1>1, <2>1, <2>2 DEF HeaderWords
  <2>4. n = conf.sf - 7
    BY <2>1 DEF HeaderWords
  <2> HIDE DEF read, n
  <2> QED BY <1>1, <2>2, <2>3, <2>4, HeaderErasedFacts
<1>8. conf.sf >= 7 /\ conf.sf \in Int
  BY <1>1, BitsFacts DEF HeaderWords, Config
<1> DEFINE len == d_payload_length'
           needed == BlocksNeeded(len, PayloadBits)
<1>9. needed \in Nat /\ PayloadBits \in 4..13
  <2>1. len \in Nat /\ PayloadBits \in 4..13
    BY BitsFacts DEF TypeOK
  <2> HIDE DEF len
  <2> QED BY <2>1, WordsSuffice
<1>10. PayloadBits' = PayloadBits
  BY <1>1 DEF PayloadBits
<1>11. BlocksNeeded(d_payload_length, PayloadBits)' = needed
  BY <1>10 DEF BlocksNeeded
<1>12. d_payload_symbols' = needed * (4 + d_phdr'.cr)
  BY DEF HeaderBlockExplicit
<1> HIDE DEF needed
<1>13. SymbolCount'
  <2>1. PayloadBits * (needed - needed) = 0
    BY <1>9
  <2>2. Len(d_demodulated') = (conf'.sf - 7) + PayloadBits' * (needed - needed)
    <3>1. PayloadBits' * (needed - needed) = 0
      BY <1>10, <2>1
    <3>2. Len(d_demodulated') = conf'.sf - 7 /\ conf'.sf - 7 \in Int
      <4>1. conf' = conf
        BY <1>1
      <4>2. conf'.sf = conf.sf
        BY <4>1
      <4> QED BY <4>2, <1>7, <1>8
    <3> QED BY <3>1, <3>2
  <2>3. needed \in 0..needed
    BY <1>9
  <2> QED BY <1>6, <1>11, <1>12, <2>2, <2>3 DEF SymbolCount
<1>14. ExplicitPayload'
  BY <1>1, <1>3, <1>6, <1>8 DEF ExplicitPayload
<1>15. FramesComplete'
  BY <1>1 DEF CodingInv, FramesComplete
<1> QED BY <1>1, <1>5, <1>13, <1>14, <1>15 DEF CodingInv

(* A payload block is only completed where one was still missing: when     *)
(* none is, the first symbol of the next already ends the payload.         *)
LEMMA BlockWasMissing ==
    ASSUME TypeOK, CodingInv, PayloadBlock, ~ conf.implicit
    PROVE  \E b \in 1..BlocksNeeded(d_payload_length, PayloadBits) :
              /\ d_payload_symbols = b * (4 + d_phdr.cr)
              /\ Len(d_demodulated) =
                    (conf.sf - 7) +
                    PayloadBits *
                       (BlocksNeeded(d_payload_length, PayloadBits) - b)
<1> DEFINE needed == BlocksNeeded(d_payload_length, PayloadBits)
<1>1. d_state = "DECODE_PAYLOAD"
  BY DEF PayloadBlock, Scheduled
<1>2. PICK b \in 0..needed :
         /\ d_payload_symbols = b * (4 + d_phdr.cr)
         /\ Len(d_demodulated) = (conf.sf - 7) + PayloadBits * (needed - b)
  BY <1>1 DEF CodingInv, SymbolCount
<1>3. needed \in Nat /\ b \in Nat /\ d_phdr.cr \in 1..4
  <2>1. PayloadBits \in 4..13 /\ d_payload_length \in Nat
    BY Ranges
  <2>2. needed \in Nat
    BY <2>1, WordsSuffice
  <2> QED BY <1>2, <2>2 DEF CodingInv
<1>4. b # 0
  <2>1. SUFFICES ASSUME b = 0 PROVE FALSE
    OBVIOUS
  <2>2. d_payload_symbols = 0
    BY <1>2, <1>3, <2>1
  <2>3. d_words = <<>>
    BY <1>1, <2>2 DEF CodingInv, ExplicitPayload
  <2>4. Len(WordsRead) = 1
    BY <2>3, WordsReadFacts
  <2> QED BY <1>3, <2>4 DEF PayloadBlock, BlockComplete, BlockWidth
<1> HIDE DEF needed
<1>5. b \in 1..needed
  BY <1>2, <1>3, <1>4
<1> QED BY <1>2, <1>5 DEF needed

(* A block brings its words and takes its symbols.                         *)
LEMMA PayloadBlockCodingInv ==
    ASSUME TypeOK, TypeOK', BlockInv, CodingInv, PayloadBlock
    PROVE  CodingInv'
<1> DEFINE read == Deinterleaved(PayloadBits)
           needed == BlocksNeeded(d_payload_length, PayloadBits)
<1>1. /\ d_state = "DECODE_PAYLOAD"
      /\ FinishOrContinue(<<>>, read, SymbolsLeft)
      /\ UNCHANGED <<conf, rx, d_phdr, d_payload_length>>
  BY DEF PayloadBlock, Scheduled, signal
<1>2. /\ PayloadBits \in Nat /\ PayloadBits >= 4
      /\ Len(d_demodulated) \in Nat
      /\ <<>> \in Seq(Nat)
  BY Ranges
<1>3. /\ read \in Seq(SUBSET Nat)
      /\ Len(read) = Len(d_demodulated) + PayloadBits
  BY <1>2, DeinterleavedFacts
<1> HIDE DEF read
<1>4. CASE conf.implicit
  <2>1. SymbolsLeft = 1
    BY <1>1, <1>4 DEF SymbolsLeft, CodingInv, ImplicitPayload
  <2>2. /\ d_payload_symbols' = 1 /\ d_demodulated' = read /\ UNCHANGED frames
    BY <1>1, <2>1 DEF FinishOrContinue
  <2>3. d_demodulated' # <<>>
    <3>1. Len(d_demodulated') > 0
      BY <1>2, <1>3, <2>2
    <3> QED BY <3>1
  <2>4. ImplicitPayload' /\ FramesComplete' /\ SymbolCount'
    BY <1>1, <1>4, <2>2, <2>3
    DEF ImplicitPayload, CodingInv, FramesComplete, SymbolCount
  <2> QED BY <1>1, <1>4, <2>4 DEF CodingInv
<1>5. CASE ~ conf.implicit
  <2>1. PICK b \in 1..needed :
           /\ d_payload_symbols = b * (4 + d_phdr.cr)
           /\ Len(d_demodulated) = (conf.sf - 7) + PayloadBits * (needed - b)
    BY <1>5, BlockWasMissing
  <2>2. /\ needed \in Nat /\ b \in Nat /\ conf.sf \in Int
        /\ PayloadBits \in Int /\ d_phdr.cr \in 1..4
    <3>1. PayloadBits \in 4..13 /\ d_payload_length \in Nat /\ conf.sf \in Int
      BY Ranges
    <3>2. needed \in Nat
      BY <3>1, WordsSuffice
    <3> QED BY <2>1, <3>1, <3>2 DEF CodingInv
  <2> HIDE DEF needed
  <2>4. SymbolsLeft = (b - 1) * (4 + d_phdr.cr)
    <3>1. SymbolsLeft = b * (4 + d_phdr.cr) - (4 + d_phdr.cr)
      BY <1>5, <2>1 DEF SymbolsLeft
    <3> QED BY <2>2, <3>1, OneBlockLess
  <2>5. Len(read) = (conf.sf - 7) + PayloadBits * (needed - (b - 1))
    <3>1. PayloadBits * (needed - b) + PayloadBits = PayloadBits * (needed - (b - 1))
      BY <2>2, OneBlockLess
    <3>2. PayloadBits * (needed - b) \in Int
      BY <2>2
    <3> QED BY <1>3, <2>1, <2>2, <3>1, <3>2
  <2>6. b - 1 \in 0..needed
    BY <2>1, <2>2
  <2>7. FinishOrContinue(<<>>, read, (b - 1) * (4 + d_phdr.cr))
    BY <1>1, <2>4
  <2> QED
    BY <1>1, <1>2, <1>3, <1>5, <2>5, <2>6, <2>7, ExplicitFinishOrContinue
    DEF needed
<1> QED BY <1>4, <1>5

LEMMA NextCodingInv ==
    ASSUME TypeOK, TypeOK', BlockInv, CodingInv, [Next]_vars, HeadersHaveCr
    PROVE  CodingInv'
<1>1. CASE DetectNothing \/ DetectPreamble \/ Sync \/ FindSfdDownchirp
           \/ FindSfdUpchirp \/ FindSfdFail \/ Pause \/ HeaderSymbol
  <2>1. d_state' # "DECODE_PAYLOAD" /\ UNCHANGED <<conf, frames, d_phdr>>
    BY <1>1 DEF DetectNothing, DetectPreamble, Sync, FindSfdDownchirp,
       FindSfdUpchirp, FindSfdFail, Pause, HeaderSymbol, Scheduled,
       GiveUpOrStay, header
  <2> QED BY <2>1 DEF CodingInv, SymbolCount, FramesComplete
<1>2. CASE HeaderBlockImplicit
  <2>1. /\ conf.implicit /\ d_payload_symbols' = 1
        /\ d_demodulated' = Deinterleaved(HeaderBits)
        /\ UNCHANGED <<conf, frames, d_phdr>>
    BY <1>2 DEF HeaderBlockImplicit
  <2>2. d_demodulated' # <<>>
    <3>1. /\ HeaderBits \in Nat /\ HeaderBits >= 4
          /\ Len(d_demodulated) \in Nat
      BY Ranges
    <3>2. Len(Deinterleaved(HeaderBits)) = Len(d_demodulated) + HeaderBits
      BY <3>1, DeinterleavedFacts
    <3>3. Len(d_demodulated') > 0
      BY <2>1, <3>1, <3>2
    <3> QED BY <3>3
  <2>3. FramesComplete' /\ ImplicitPayload'
    BY <2>1, <2>2 DEF CodingInv, FramesComplete, ImplicitPayload
  <2>4. SymbolCount'
    BY <2>1 DEF SymbolCount
  <2> QED BY <2>1, <2>3, <2>4 DEF CodingInv
<1>3. CASE HeaderBlockExplicit
  BY <1>3, HeaderBlockCodingInv
<1>4. CASE HeaderBlockTooShort \/ UNCHANGED vars
  <2>1. UNCHANGED <<conf, d_state, d_words, d_demodulated, d_phdr,
                    d_payload_length, d_payload_symbols, d_decoded, frames, rx>>
    BY <1>4 DEF HeaderBlockTooShort, vars, buffers, header, signal
  <2>2. PayloadBits' = PayloadBits
    BY <2>1 DEF PayloadBits
  <2>3. BlocksNeeded(d_payload_length, PayloadBits)' =
           BlocksNeeded(d_payload_length, PayloadBits)
    BY <2>1, <2>2 DEF BlocksNeeded
  <2>4. SymbolCount'
    BY <2>1, <2>2, <2>3 DEF SymbolCount, CodingInv
  <2> QED
    BY <2>1, <2>4 DEF CodingInv, ExplicitPayload, ImplicitPayload,
       FramesComplete
<1>5. CASE PayloadSymbol
  <2>1. /\ d_state = "DECODE_PAYLOAD"
        /\ FinishOrContinue(WordsRead, d_demodulated, d_payload_symbols)
        /\ UNCHANGED <<conf, rx, d_phdr, d_payload_length>>
        /\ WordsRead \in Seq(Nat) /\ d_demodulated \in Seq(SUBSET Nat)
    BY <1>5, WordsReadFacts DEF PayloadSymbol, Scheduled, signal, TypeOK
  <2>2. CASE conf.implicit
    <3>1. /\ d_payload_symbols = 1 /\ d_demodulated # <<>>
      BY <2>1, <2>2 DEF CodingInv, ImplicitPayload
    <3>2. /\ d_payload_symbols' = 1 /\ d_demodulated' = d_demodulated
          /\ UNCHANGED frames
      BY <2>1, <3>1 DEF FinishOrContinue
    <3>3. ImplicitPayload' /\ FramesComplete' /\ SymbolCount'
      BY <2>1, <2>2, <3>1, <3>2
      DEF ImplicitPayload, CodingInv, FramesComplete, SymbolCount
    <3> QED BY <2>1, <2>2, <3>3 DEF CodingInv
  <2>3. CASE ~ conf.implicit
    <3>1. PICK b \in 0..BlocksNeeded(d_payload_length, PayloadBits) :
             /\ d_payload_symbols = b * (4 + d_phdr.cr)
             /\ Len(d_demodulated) =
                   (conf.sf - 7) +
                   PayloadBits *
                     (BlocksNeeded(d_payload_length, PayloadBits) - b)
      BY <2>1, <2>3 DEF CodingInv, SymbolCount
    <3> QED BY <2>1, <2>3, <3>1, ExplicitFinishOrContinue
  <2> QED BY <2>2, <2>3
<1>6. CASE PayloadBlock
  BY <1>6, PayloadBlockCodingInv
<1>7. CASE PayloadEnergyDrop
  <2>1. /\ d_state = "DECODE_PAYLOAD" /\ conf.implicit
        /\ Publish(d_words, d_demodulated, d_payload_length')
        /\ d_payload_length' = Len(d_demodulated) \div 2
        /\ UNCHANGED <<conf, d_phdr>>
    BY <1>7 DEF PayloadEnergyDrop, Scheduled, ImplicitLength
  <2>2. d_demodulated # <<>>
    BY <2>1 DEF CodingInv, ImplicitPayload
  <2>3. /\ d_words \in Seq(Nat) /\ d_demodulated \in Seq(SUBSET Nat)
        /\ Len(d_demodulated) \in Nat
    BY DEF TypeOK
  <2> DEFINE len == Len(d_demodulated) \div 2
  <2>4. len \in Nat /\ 2 * len <= Len(d_demodulated)
    BY <2>3
  <2>5. Publish(d_words, d_demodulated, len)
    BY <2>1
  <2> HIDE DEF len
  <2>6. FramesComplete'
    BY <2>1, <2>2, <2>3, <2>4, <2>5, CompletePublished DEF CodingInv
  <2>7. d_state' = "DETECT"
    BY <2>5 DEF Publish
  <2> QED BY <2>1, <2>6, <2>7 DEF CodingInv, SymbolCount
<1> QED BY <1>1, <1>2, <1>3, <1>4, <1>5, <1>6, <1>7 DEF Next

LEMMA CodingInvariance ==
    ASSUME HeadersHaveCr
    PROVE  Spec => []CodingInv
<1>1. Init => CodingInv
  <2> SUFFICES ASSUME Init PROVE CodingInv
    OBVIOUS
  <2>1. d_phdr.cr \in 1..4
    <3>1. conf \in Config /\ d_phdr.cr = conf.cr
      BY ConfigsAssumption DEF Init
    <3> QED BY <3>1 DEF Config
  <2> QED BY <2>1 DEF Init, CodingInv, SymbolCount, FramesComplete
<1>2. TypeOK /\ TypeOK' /\ BlockInv /\ CodingInv /\ [Next]_vars => CodingInv'
  BY NextCodingInv
<1> QED BY <1>1, <1>2, TypeCorrect, BlockInvariance, PTL DEF Spec

(* A payload is decoded with the header of its own reception.              *)
THEOREM HeadersAreOwn ==
    ASSUME HeadersHaveCr
    PROVE  Spec => []HeaderIsOwn
<1>1. CodingInv => HeaderIsOwn
  BY DEF CodingInv, ExplicitPayload, HeaderIsOwn
<1> QED BY <1>1, CodingInvariance, PTL

(* The symbols still asked for and the words received always add up to the *)
(* payload the header announced.                                           *)
THEOREM SymbolsAddUp ==
    ASSUME HeadersHaveCr
    PROVE  Spec => []SymbolCount
<1>1. CodingInv => SymbolCount
  BY DEF CodingInv
<1> QED BY <1>1, CodingInvariance, PTL

(* Every byte a frame publishes was decoded from two words of the frame's  *)
(* own reception.                                                          *)
THEOREM FramesAreComplete ==
    ASSUME HeadersHaveCr
    PROVE  Spec => []FrameComplete
<1>1. CodingInv => FrameComplete
  BY DEF CodingInv, FramesComplete, FrameComplete
<1> QED BY <1>1, CodingInvariance, PTL

-----------------------------------------------------------------------------
(* A checksum that is announced is there: with a header by the count of    *)
(* SymbolCount, without one by the words of the first block.               *)

LengthInv ==
    /\ MacFits
    /\ d_state = "DECODE_PAYLOAD" /\ conf.implicit => Len(d_demodulated) >= 4

(* Publishing a payload in which the checksum has room.                    *)
LEMMA FittingPublished ==
    ASSUME TypeOK, MacFits,
           NEW words \in Seq(Nat), NEW demodulated \in Seq(SUBSET Nat),
           NEW len \in Nat, Publish(words, demodulated, len),
           len >= MAC_CRC_SIZE * d_phdr.has_mac_crc
    PROVE  LengthInv'
<1> DEFINE frame == [rx |-> rx, phdr |-> d_phdr, length |-> len,
                     words |-> demodulated, bytes_of |-> d_decoded'.rx,
                     snr_of |-> d_snr]
<1>1. frames' = Append(frames, frame) /\ d_state' = "DETECT"
  BY DEF Publish
<1>2. frame.length = len /\ frame.phdr = d_phdr
  OBVIOUS
<1> HIDE DEF frame
<1>3. frames \in Seq(Reception)
  BY DEF TypeOK
<1>4. /\ Len(frames') = Len(frames) + 1 /\ frames'[Len(frames) + 1] = frame
      /\ \A f \in 1..Len(frames) : frames'[f] = frames[f]
  BY <1>1, <1>3
<1>5. ASSUME NEW f \in 1..Len(frames')
      PROVE  frames'[f].length >= MAC_CRC_SIZE * frames'[f].phdr.has_mac_crc
  <2>1. CASE f = Len(frames) + 1
    BY <2>1, <1>2, <1>4
  <2>2. CASE f # Len(frames) + 1
    <3>1. f \in 1..Len(frames)
      BY <2>2, <1>3, <1>4
    <3> QED BY <3>1, <1>4 DEF MacFits
  <2> QED BY <2>1, <2>2
<1> QED BY <1>1, <1>5 DEF LengthInv, MacFits

LEMMA SumCovers ==
    ASSUME NEW length \in 0..255, NEW crc \in 0..1
    PROVE  length + MAC_CRC_SIZE * crc >= MAC_CRC_SIZE * crc
BY DEF MAC_CRC_SIZE

(* The end of DECODE_PAYLOAD: the announced length has room for what it    *)
(* announces, and without a header the words do not become fewer.          *)
LEMMA FinishOrContinueFits ==
    ASSUME TypeOK, CodingInv, LengthInv, d_state = "DECODE_PAYLOAD",
           UNCHANGED conf, NEW words \in Seq(Nat),
           NEW demodulated \in Seq(SUBSET Nat), NEW symbols \in Int,
           Len(demodulated) >= Len(d_demodulated),
           conf.implicit => symbols = 1,
           FinishOrContinue(words, demodulated, symbols)
    PROVE  LengthInv'
<1>1. CASE symbols <= 0
  <2>1. ~ conf.implicit
    BY <1>1
  <2>2. d_payload_length = d_phdr.length + MAC_CRC_SIZE * d_phdr.has_mac_crc
    BY <2>1 DEF CodingInv, SymbolCount
  <2>3. /\ d_phdr.length \in 0..255 /\ d_phdr.has_mac_crc \in 0..1
        /\ d_payload_length \in Nat
    BY DEF TypeOK
  <2>4. d_payload_length >= MAC_CRC_SIZE * d_phdr.has_mac_crc
    BY <2>2, <2>3, SumCovers
  <2>5. Publish(words, demodulated, d_payload_length)
    BY <1>1 DEF FinishOrContinue
  <2> QED BY <2>3, <2>4, <2>5, FittingPublished DEF LengthInv
<1>2. CASE ~ (symbols <= 0)
  <2>1. /\ d_demodulated' = demodulated
        /\ UNCHANGED <<d_state, frames>>
    BY <1>2 DEF FinishOrContinue
  <2>2. conf.implicit => Len(d_demodulated') >= 4
    <3>1. Len(d_demodulated) \in Nat /\ Len(demodulated) \in Nat
      BY DEF TypeOK
    <3> QED BY <2>1, <3>1 DEF LengthInv
  <2> QED BY <2>1, <2>2 DEF LengthInv, MacFits
<1> QED BY <1>1, <1>2

LEMMA NextLengthInv ==
    ASSUME TypeOK, CodingInv, LengthInv, [Next]_vars
    PROVE  LengthInv'
<1>1. CASE DetectNothing \/ DetectPreamble \/ Sync \/ FindSfdDownchirp
           \/ FindSfdUpchirp \/ FindSfdFail \/ Pause \/ HeaderSymbol
  <2>1. d_state' # "DECODE_PAYLOAD" /\ UNCHANGED frames
    BY <1>1 DEF DetectNothing, DetectPreamble, Sync, FindSfdDownchirp,
       FindSfdUpchirp, FindSfdFail, Pause, HeaderSymbol, Scheduled,
       GiveUpOrStay
  <2> QED BY <2>1 DEF LengthInv, MacFits
<1>2. CASE HeaderBlockImplicit
  <2>1. d_demodulated' = Deinterleaved(HeaderBits) /\ UNCHANGED frames
    BY <1>2 DEF HeaderBlockImplicit
  <2>2. /\ HeaderBits \in Nat /\ HeaderBits >= 4
        /\ Len(d_demodulated) \in Nat
    BY Ranges
  <2>3. Len(Deinterleaved(HeaderBits)) = Len(d_demodulated) + HeaderBits
    BY <2>2, DeinterleavedFacts
  <2>4. Len(d_demodulated') >= 4
    BY <2>1, <2>2, <2>3
  <2> QED BY <2>1, <2>4 DEF LengthInv, MacFits
<1>3. CASE HeaderBlockExplicit
  <2>1. ~ conf.implicit /\ UNCHANGED <<conf, frames>>
    BY <1>3 DEF HeaderBlockExplicit
  <2> QED BY <2>1 DEF LengthInv, MacFits
<1>4. CASE HeaderBlockTooShort \/ UNCHANGED vars
  <2>1. UNCHANGED <<conf, d_state, d_demodulated, frames>>
    BY <1>4 DEF HeaderBlockTooShort, vars, buffers
  <2> QED BY <2>1 DEF LengthInv, MacFits
<1>5. CASE PayloadSymbol
  <2>1. /\ d_state = "DECODE_PAYLOAD" /\ UNCHANGED conf
        /\ FinishOrContinue(WordsRead, d_demodulated, d_payload_symbols)
        /\ WordsRead \in Seq(Nat)
    BY <1>5, WordsReadFacts DEF PayloadSymbol, Scheduled
  <2>2. conf.implicit => d_payload_symbols = 1
    BY <2>1 DEF CodingInv, ImplicitPayload
  <2>3. /\ d_demodulated \in Seq(SUBSET Nat) /\ d_payload_symbols \in Int
        /\ Len(d_demodulated) >= Len(d_demodulated)
    BY DEF TypeOK
  <2> QED BY <2>1, <2>2, <2>3, FinishOrContinueFits
<1>6. CASE PayloadBlock
  <2>1. /\ d_state = "DECODE_PAYLOAD" /\ UNCHANGED conf
        /\ FinishOrContinue(<<>>, Deinterleaved(PayloadBits), SymbolsLeft)
    BY <1>6 DEF PayloadBlock, Scheduled
  <2>2. conf.implicit => SymbolsLeft = 1
    BY <2>1 DEF CodingInv, ImplicitPayload, SymbolsLeft
  <2>3. SymbolsLeft \in Int
    <3>1. d_payload_symbols \in Int /\ d_phdr.cr \in 0..4
      BY DEF TypeOK
    <3> QED BY <3>1 DEF SymbolsLeft
  <2>4. /\ Deinterleaved(PayloadBits) \in Seq(SUBSET Nat)
        /\ Len(Deinterleaved(PayloadBits)) >= Len(d_demodulated)
    <3>1. /\ PayloadBits \in Nat /\ PayloadBits >= 4
          /\ Len(d_demodulated) \in Nat
      BY Ranges
    <3>2. /\ Deinterleaved(PayloadBits) \in Seq(SUBSET Nat)
          /\ Len(Deinterleaved(PayloadBits)) = Len(d_demodulated) + PayloadBits
      BY <3>1, DeinterleavedFacts
    <3> QED BY <3>1, <3>2
  <2>5. <<>> \in Seq(Nat)
    OBVIOUS
  <2> QED BY <2>1, <2>2, <2>3, <2>4, <2>5, FinishOrContinueFits
<1>7. CASE PayloadEnergyDrop
  <2>1. /\ d_state = "DECODE_PAYLOAD" /\ conf.implicit
        /\ Publish(d_words, d_demodulated, Len(d_demodulated) \div 2)
    BY <1>7 DEF PayloadEnergyDrop, Scheduled, ImplicitLength
  <2>2. /\ d_words \in Seq(Nat) /\ d_demodulated \in Seq(SUBSET Nat)
        /\ Len(d_demodulated) \in Nat /\ d_phdr.has_mac_crc \in 0..1
    BY DEF TypeOK
  <2>3. Len(d_demodulated) >= 4
    BY <2>1 DEF LengthInv
  <2>4. /\ Len(d_demodulated) \div 2 \in Nat
        /\ Len(d_demodulated) \div 2 >= MAC_CRC_SIZE * d_phdr.has_mac_crc
    BY <2>2, <2>3 DEF MAC_CRC_SIZE
  <2> QED BY <2>1, <2>2, <2>4, FittingPublished DEF LengthInv
<1> QED BY <1>1, <1>2, <1>3, <1>4, <1>5, <1>6, <1>7 DEF Next

(* A frame whose header announces a checksum has the bytes of one, so that *)
(* the length the socket sink computes is never negative.                  *)
THEOREM ChecksumsFit ==
    ASSUME HeadersHaveCr
    PROVE  Spec => []MacFits
<1>1. Init => LengthInv
  BY DEF Init, LengthInv, MacFits
<1>2. TypeOK /\ CodingInv /\ LengthInv /\ [Next]_vars => LengthInv'
  BY NextLengthInv
<1>3. LengthInv => MacFits
  BY DEF LengthInv
<1> QED BY <1>1, <1>2, <1>3, TypeCorrect, CodingInvariance, PTL DEF Spec

-----------------------------------------------------------------------------
(* The whitening sequence, for packets that are not among the longest.     *)

LengthsAreCovered == \A h \in Headers : AnnouncedLength(h) <= 249

CoverInv ==
    /\ d_state = "DECODE_PAYLOAD" /\ ~ conf.implicit => d_payload_length <= 249
    /\ WhiteningCovers

(* The words of a payload, and those its last block has beyond it.         *)
LEMMA WordsAreCovered ==
    ASSUME NEW sf \in 7..13, NEW p \in 4..13, NEW len \in 0..249,
           NEW b \in 0..BlocksNeeded(len, p)
    PROVE  (sf - 7) + p * (BlocksNeeded(len, p) - b) <= 516
<1> DEFINE needed == BlocksNeeded(len, p)
<1>1. /\ needed \in Nat
      /\ p * needed < 2 * len + p
  <2>1. 2 * len \in Nat
    OBVIOUS
  <2> QED BY <2>1, CeilDivCovers DEF BlocksNeeded
<1> HIDE DEF needed
<1>2. b \in 0..needed
  BY DEF needed
<1>3. (sf - 7) + p * (needed - b) <= 516
  <2>1. CASE p = 4  BY <1>1, <1>2, <2>1
  <2>2. CASE p = 5  BY <1>1, <1>2, <2>2
  <2>3. CASE p = 6  BY <1>1, <1>2, <2>3
  <2>4. CASE p = 7  BY <1>1, <1>2, <2>4
  <2>5. CASE p = 8  BY <1>1, <1>2, <2>5
  <2>6. CASE p = 9  BY <1>1, <1>2, <2>6
  <2>7. CASE p = 10 BY <1>1, <1>2, <2>7
  <2>8. CASE p = 11 BY <1>1, <1>2, <2>8
  <2>9. CASE p = 12 BY <1>1, <1>2, <2>9
  <2>10. CASE p = 13 BY <1>1, <1>2, <2>10
  <2> QED BY <2>1, <2>2, <2>3, <2>4, <2>5, <2>6, <2>7, <2>8, <2>9, <2>10
<1> QED BY <1>3 DEF needed

(* Publishing a frame that has a byte of the sequence for each word.       *)
LEMMA CoveredPublished ==
    ASSUME TypeOK, CoverInv, UNCHANGED conf, NEW words \in Seq(Nat),
           NEW demodulated \in Seq(SUBSET Nat), NEW len \in Nat,
           Publish(words, demodulated, len),
           conf.implicit \/ Len(demodulated) <= 516
    PROVE  CoverInv'
<1> DEFINE frame == [rx |-> rx, phdr |-> d_phdr, length |-> len,
                     words |-> demodulated, bytes_of |-> d_decoded'.rx,
                     snr_of |-> d_snr]
<1>1. frames' = Append(frames, frame) /\ d_state' = "DETECT"
  BY DEF Publish
<1>2. frame.words = demodulated /\ frame.phdr = d_phdr
  OBVIOUS
<1> HIDE DEF frame
<1>3. frames \in Seq(Reception)
  BY DEF TypeOK
<1>4. /\ \A f \in 1..Len(frames) : frames'[f] = frames[f]
      /\ Len(frames') = Len(frames) + 1 /\ frames'[Len(frames) + 1] = frame
  BY <1>1, <1>3
<1>5. CASE conf.implicit
  BY <1>1, <1>5 DEF CoverInv, WhiteningCovers
<1>6. CASE ~ conf.implicit
  <2>1. ASSUME NEW f \in 1..Len(frames')
        PROVE  Len(frames'[f].words) <= WhiteningBytes(frames'[f].phdr.cr)
    <3>1. CASE f = Len(frames) + 1
      <4>1. Len(demodulated) \in Nat
        OBVIOUS
      <4>2. Len(frames'[f].words) <= 516
        BY <3>1, <1>2, <1>4, <1>6
      <4>3. WhiteningBytes(frames'[f].phdr.cr) \in {516, 518}
        BY DEF WhiteningBytes
      <4> QED BY <3>1, <1>2, <1>4, <4>1, <4>2, <4>3
    <3>2. CASE f # Len(frames) + 1
      <4>1. f \in 1..Len(frames)
        BY <3>2, <1>3, <1>4
      <4> QED BY <4>1, <1>4, <1>6 DEF CoverInv, WhiteningCovers
    <3> QED BY <3>1, <3>2
  <2>2. WhiteningCovers'
    BY <2>1 DEF WhiteningCovers, WhiteningBytes
  <2> QED BY <1>1, <2>2 DEF CoverInv
<1> QED BY <1>5, <1>6

(* The end of DECODE_PAYLOAD, with the words of a whole number of blocks.  *)
LEMMA FinishOrContinueCovered ==
    ASSUME TypeOK, CoverInv, d_state = "DECODE_PAYLOAD",
           UNCHANGED <<conf, d_payload_length>>, NEW words \in Seq(Nat),
           NEW demodulated \in Seq(SUBSET Nat), NEW symbols \in Int,
           conf.implicit \/ Len(demodulated) <= 516,
           FinishOrContinue(words, demodulated, symbols)
    PROVE  CoverInv'
<1>1. CASE symbols <= 0
  <2>1. Publish(words, demodulated, d_payload_length)
    BY <1>1 DEF FinishOrContinue
  <2>2. d_payload_length \in Nat
    BY DEF TypeOK
  <2> QED BY <2>1, <2>2, CoveredPublished
<1>2. CASE ~ (symbols <= 0)
  <2>1. UNCHANGED <<d_state, frames>>
    BY <1>2 DEF FinishOrContinue
  <2> QED BY <2>1 DEF CoverInv, WhiteningCovers, WhiteningBytes
<1> QED BY <1>1, <1>2

(* What the words of a payload with a header come to, b blocks missing.    *)
LEMMA MissingBlocksCovered ==
    ASSUME TypeOK, CodingInv, CoverInv, d_state = "DECODE_PAYLOAD",
           ~ conf.implicit,
           NEW b \in 0..BlocksNeeded(d_payload_length, PayloadBits)
    PROVE  (conf.sf - 7) +
           PayloadBits * (BlocksNeeded(d_payload_length, PayloadBits) - b) <= 516
<1>1. PayloadBits \in 4..13 /\ conf.sf \in 6..13
  BY BitsFacts DEF Config
<1>2. conf.sf \in 7..13
  BY <1>1 DEF CodingInv, ExplicitPayload
<1>3. d_payload_length \in 0..249
  BY DEF CoverInv, TypeOK
<1> QED BY <1>1, <1>2, <1>3, WordsAreCovered

LEMMA NextCoverInv ==
    ASSUME TypeOK, TypeOK', CodingInv, CoverInv, [Next]_vars, LengthsAreCovered
    PROVE  CoverInv'
<1>1. CASE DetectNothing \/ DetectPreamble \/ Sync \/ FindSfdDownchirp
           \/ FindSfdUpchirp \/ FindSfdFail \/ Pause \/ HeaderSymbol
  <2>1. d_state' # "DECODE_PAYLOAD" /\ UNCHANGED <<conf, frames>>
    BY <1>1 DEF DetectNothing, DetectPreamble, Sync, FindSfdDownchirp,
       FindSfdUpchirp, FindSfdFail, Pause, HeaderSymbol, Scheduled,
       GiveUpOrStay
  <2> QED BY <2>1 DEF CoverInv, WhiteningCovers
<1>2. CASE HeaderBlockImplicit
  <2>1. conf.implicit /\ UNCHANGED <<conf, frames>>
    BY <1>2 DEF HeaderBlockImplicit
  <2> QED BY <2>1 DEF CoverInv, WhiteningCovers
<1>3. CASE HeaderBlockExplicit
  <2>1. UNCHANGED <<conf, frames>>
    BY <1>3 DEF HeaderBlockExplicit
  <2>2. d_decoded'.reads_as \subseteq Headers
    BY DEF TypeOK
  <2>3. PICK h \in Headers : d_payload_length' = AnnouncedLength(h)
    BY <1>3, <2>2 DEF HeaderBlockExplicit
  <2>4. d_payload_length' <= 249
    BY <2>3 DEF LengthsAreCovered
  <2> QED BY <2>1, <2>4 DEF CoverInv, WhiteningCovers
<1>4. CASE HeaderBlockTooShort \/ UNCHANGED vars
  <2>1. UNCHANGED <<conf, d_state, d_payload_length, frames>>
    BY <1>4 DEF HeaderBlockTooShort, vars, header
  <2> QED BY <2>1 DEF CoverInv, WhiteningCovers
<1>5. CASE PayloadSymbol
  <2>1. /\ d_state = "DECODE_PAYLOAD" /\ UNCHANGED <<conf, d_payload_length>>
        /\ FinishOrContinue(WordsRead, d_demodulated, d_payload_symbols)
        /\ WordsRead \in Seq(Nat)
    BY <1>5, WordsReadFacts DEF PayloadSymbol, Scheduled
  <2>2. conf.implicit \/ Len(d_demodulated) <= 516
    <3>1. SUFFICES ASSUME ~ conf.implicit PROVE Len(d_demodulated) <= 516
      OBVIOUS
    <3>2. PICK b \in 0..BlocksNeeded(d_payload_length, PayloadBits) :
             Len(d_demodulated) =
                (conf.sf - 7) +
                PayloadBits * (BlocksNeeded(d_payload_length, PayloadBits) - b)
      BY <2>1, <3>1 DEF CodingInv, SymbolCount
    <3> QED BY <2>1, <3>1, <3>2, MissingBlocksCovered
  <2>3. d_demodulated \in Seq(SUBSET Nat) /\ d_payload_symbols \in Int
    BY DEF TypeOK
  <2> QED BY <2>1, <2>2, <2>3, FinishOrContinueCovered
<1>6. CASE PayloadBlock
  <2> DEFINE needed == BlocksNeeded(d_payload_length, PayloadBits)
  <2>1. /\ d_state = "DECODE_PAYLOAD" /\ UNCHANGED <<conf, d_payload_length>>
        /\ FinishOrContinue(<<>>, Deinterleaved(PayloadBits), SymbolsLeft)
    BY <1>6 DEF PayloadBlock, Scheduled
  <2>2. SymbolsLeft \in Int
    BY SymbolsLeftType
  <2>3. /\ PayloadBits \in 4..13 /\ PayloadBits \in Nat
        /\ Len(d_demodulated) \in Nat /\ conf.sf \in Int
        /\ d_payload_length \in Nat
    BY Ranges
  <2>4. /\ Deinterleaved(PayloadBits) \in Seq(SUBSET Nat)
        /\ Len(Deinterleaved(PayloadBits)) = Len(d_demodulated) + PayloadBits
    BY <2>3, DeinterleavedFacts
  <2>5. conf.implicit \/ Len(Deinterleaved(PayloadBits)) <= 516
    <3>1. SUFFICES ASSUME ~ conf.implicit
                   PROVE  Len(d_demodulated) + PayloadBits <= 516
      BY <2>4
    <3>2. PICK b \in 1..needed :
             Len(d_demodulated) = (conf.sf - 7) + PayloadBits * (needed - b)
      BY <1>6, <3>1, BlockWasMissing
    <3>3. needed \in Nat
      BY <2>3, WordsSuffice
    <3> HIDE DEF needed
    <3>4. b - 1 \in 0..needed /\ b \in Int
      BY <3>2, <3>3
    <3>5. (conf.sf - 7) + PayloadBits * (needed - (b - 1)) <= 516
      BY <2>1, <3>1, <3>4, MissingBlocksCovered DEF needed
    <3>6. PayloadBits * (needed - b) + PayloadBits
             = PayloadBits * (needed - (b - 1))
      BY <2>3, <3>3, <3>4, OneBlockLess
    <3>7. PayloadBits * (needed - b) \in Int
      BY <2>3, <3>3, <3>4
    <3> QED BY <2>3, <3>2, <3>5, <3>6, <3>7
  <2>6. <<>> \in Seq(Nat)
    OBVIOUS
  <2> QED BY <2>1, <2>2, <2>4, <2>5, <2>6, FinishOrContinueCovered
<1>7. CASE PayloadEnergyDrop
  <2>1. /\ conf.implicit /\ UNCHANGED conf
        /\ Publish(d_words, d_demodulated, Len(d_demodulated) \div 2)
    BY <1>7 DEF PayloadEnergyDrop, ImplicitLength
  <2>2. /\ d_words \in Seq(Nat) /\ d_demodulated \in Seq(SUBSET Nat)
        /\ Len(d_demodulated) \in Nat
    BY DEF TypeOK
  <2>3. Len(d_demodulated) \div 2 \in Nat
    BY <2>2
  <2> QED BY <2>1, <2>2, <2>3, CoveredPublished
<1> QED BY <1>1, <1>2, <1>3, <1>4, <1>5, <1>6, <1>7 DEF Next

(* The whitening sequence is long enough whenever no packet has more than  *)
(* 249 bytes, checksum included.  The longest packets do pass its end: the *)
(* run "whitening" has one.                                                *)
THEOREM WhiteningSuffices ==
    ASSUME HeadersHaveCr, LengthsAreCovered
    PROVE  Spec => []WhiteningCovers
<1>1. Init => CoverInv
  BY DEF Init, CoverInv, WhiteningCovers
<1>2. TypeOK /\ TypeOK' /\ CodingInv /\ CoverInv /\ [Next]_vars => CoverInv'
  BY NextCoverInv
<1>3. CoverInv => WhiteningCovers
  BY DEF CoverInv
<1> QED BY <1>1, <1>2, <1>3, TypeCorrect, CodingInvariance, PTL DEF Spec

-----------------------------------------------------------------------------
(* The decoder implements FrameReceiver.                                   *)

(* With complete frames, what is delivered is made of the frame's own      *)
(* reception, header and payload alike.                                    *)
OwnPairs(fs) ==
    [f \in 1..Len(fs) |-> [header |-> fs[f].rx, payload |-> fs[f].rx]]

LEMMA PairsAreOwn ==
    ASSUME NEW fs, NEW implicit,
           \A f \in 1..Len(fs) : /\ fs[f].bytes_of = fs[f].rx
                                 /\ implicit \/ fs[f].phdr.rx = fs[f].rx
    PROVE  [f \in 1..Len(fs) |->
              [header  |-> IF implicit THEN fs[f].rx ELSE fs[f].phdr.rx,
               payload |-> fs[f].bytes_of]] = OwnPairs(fs)
<1>1. ASSUME NEW f \in 1..Len(fs)
      PROVE  /\ fs[f].bytes_of = fs[f].rx
             /\ (IF implicit THEN fs[f].rx ELSE fs[f].phdr.rx) = fs[f].rx
  <2>1. implicit \/ fs[f].phdr.rx = fs[f].rx
    OBVIOUS
  <2>2. fs[f].bytes_of = fs[f].rx
    OBVIOUS
  <2> QED BY <2>1, <2>2, Zenon
<1> QED BY <1>1, Zenon DEF OwnPairs

(* The pairs of one more frame are the pairs so far and the frame's own.   *)
LEMMA OneMorePair ==
    ASSUME NEW fs \in Seq(Reception), NEW frame \in Reception
    PROVE  OwnPairs(Append(fs, frame)) =
             Append(OwnPairs(fs), [header |-> frame.rx, payload |-> frame.rx])
<1> DEFINE S    == [header : Nat, payload : Nat]
           last == [header |-> frame.rx, payload |-> frame.rx]
           R    == Reception
           more == Append(fs, frame)
<1>1. \A r \in R : r.rx \in Nat
  BY DEF Reception
<1>2. fs \in Seq(R) /\ frame \in R
  OBVIOUS
<1> HIDE DEF R
<1>3. /\ more \in Seq(R) /\ Len(more) = Len(fs) + 1 /\ Len(fs) \in Nat
      /\ more[Len(fs) + 1] = frame
      /\ \A f \in 1..Len(fs) : more[f] = fs[f]
  BY <1>2, AppendProperties
<1> HIDE DEF more
<1>4. \A f \in 1..Len(fs) : fs[f].rx \in Nat
  BY <1>1, <1>2, ElementOfSeq
<1>5. \A f \in 1..Len(more) : more[f].rx \in Nat
  BY <1>1, <1>3, ElementOfSeq
<1>6. OwnPairs(fs) \in Seq(S) /\ Len(OwnPairs(fs)) = Len(fs)
  BY <1>3, <1>4 DEF OwnPairs
<1>7. OwnPairs(more) \in Seq(S) /\ Len(OwnPairs(more)) = Len(more)
  BY <1>3, <1>5 DEF OwnPairs
<1>8. last \in S
  BY <1>1, <1>2
<1>9. /\ OwnPairs(more)[Len(fs) + 1] = last
      /\ \A f \in 1..Len(fs) : OwnPairs(more)[f] = OwnPairs(fs)[f]
  BY <1>3 DEF OwnPairs
<1> HIDE DEF S, last
<1>10. /\ Append(OwnPairs(fs), last) \in Seq(S)
       /\ Len(Append(OwnPairs(fs), last)) = Len(fs) + 1
       /\ Append(OwnPairs(fs), last)[Len(fs) + 1] = last
       /\ \A f \in 1..Len(fs) : Append(OwnPairs(fs), last)[f] = OwnPairs(fs)[f]
  BY <1>6, <1>8, AppendProperties
<1>11. \A f \in 1..Len(OwnPairs(more)) :
          OwnPairs(more)[f] = Append(OwnPairs(fs), last)[f]
  BY <1>3, <1>7, <1>9, <1>10
<1>12. OwnPairs(more) = Append(OwnPairs(fs), last)
  BY <1>3, <1>7, <1>10, <1>11, SeqEqual
<1> QED BY <1>12 DEF last, more

(* Publishing one more frame delivers one more pair.                       *)
LEMMA OneMoreDelivered ==
    ASSUME TypeOK, FramesComplete, FramesComplete', NEW frame \in Reception,
           frames' = Append(frames, frame), frame.rx = rx
    PROVE  Delivered' = Append(Delivered, [header |-> rx, payload |-> rx])
<1>1. Delivered = OwnPairs(frames)
  BY PairsAreOwn DEF FramesComplete, Delivered
<1>2. Delivered' = OwnPairs(frames')
  BY PairsAreOwn DEF FramesComplete, Delivered
<1>3. frames \in Seq(Reception)
  BY DEF TypeOK
<1>4. OwnPairs(Append(frames, frame)) =
        Append(OwnPairs(frames), [header |-> rx, payload |-> rx])
  BY <1>3, OneMorePair
<1> QED BY <1>1, <1>2, <1>4

(* Every step of the decoder is one of the receiver's, or none.            *)
LEMMA StepRefines ==
    ASSUME TypeOK, TypeOK', FramesComplete, FramesComplete', [Next]_vars
    PROVE  [Receiver!Next]_(Receiver!vars)
<1>0. conf' = conf
  BY DEF Next, DetectNothing, DetectPreamble, Sync, FindSfdDownchirp,
     FindSfdUpchirp, FindSfdFail, Pause, HeaderSymbol, HeaderBlockImplicit,
     HeaderBlockExplicit, HeaderBlockTooShort, PayloadSymbol, PayloadBlock,
     PayloadEnergyDrop, vars
<1>1. ASSUME UNCHANGED frames PROVE Delivered' = Delivered
  BY <1>0, <1>1 DEF Delivered
<1>2. ASSUME UNCHANGED <<frames, rx>>, Phase' = Phase
      PROVE  UNCHANGED Receiver!vars
  BY <1>1, <1>2 DEF Receiver!vars
<1>3. CASE DetectPreamble
  <2>1. /\ d_state = "DETECT" /\ d_state' = "SYNC"
        /\ rx' = rx + 1 /\ UNCHANGED frames
    BY <1>3 DEF DetectPreamble, Scheduled
  <2>2. Phase = "listening" /\ Phase' = "acquired"
    BY <2>1 DEF Phase
  <2> QED BY <2>1, <2>2, <1>1 DEF Receiver!Next, Receiver!Acquire
<1>4. CASE FindSfdDownchirp
  <2>1. /\ d_state = "FIND_SFD" /\ d_state' = "PAUSE"
        /\ UNCHANGED <<rx, frames>>
    BY <1>4 DEF FindSfdDownchirp, Scheduled, signal
  <2>2. Phase = "acquired" /\ Phase' = "locked"
    BY <2>1 DEF Phase
  <2> QED BY <2>1, <2>2, <1>1 DEF Receiver!Next, Receiver!Lock
<1>5. CASE FindSfdUpchirp \/ FindSfdFail
  <2>1. /\ d_state = "FIND_SFD" /\ d_state' \in {"DETECT", "FIND_SFD"}
        /\ UNCHANGED <<rx, frames>>
    BY <1>5 DEF FindSfdUpchirp, FindSfdFail, GiveUpOrStay, Scheduled
  <2>2. CASE d_state' = "DETECT"
    <3>1. Phase = "acquired" /\ Phase' = "listening"
      BY <2>1, <2>2 DEF Phase
    <3> QED BY <2>1, <3>1, <1>1 DEF Receiver!Next, Receiver!Lose
  <2>3. CASE d_state' = "FIND_SFD"
    <3>1. Phase' = Phase
      BY <2>1, <2>3 DEF Phase
    <3> QED BY <2>1, <3>1, <1>2
  <2> QED BY <2>1, <2>2, <2>3
<1>6. CASE DetectNothing \/ Sync \/ Pause \/ HeaderSymbol \/ HeaderBlockImplicit
           \/ HeaderBlockExplicit \/ HeaderBlockTooShort \/ UNCHANGED vars
  <2>1. UNCHANGED <<rx, frames>>
    BY <1>6 DEF DetectNothing, Sync, Pause, HeaderSymbol, HeaderBlockImplicit,
       HeaderBlockExplicit, HeaderBlockTooShort, signal, vars
  <2>2. Phase' = Phase
    BY <1>6 DEF DetectNothing, Sync, Pause, HeaderSymbol, HeaderBlockImplicit,
       HeaderBlockExplicit, HeaderBlockTooShort, Scheduled, vars, Phase
  <2> QED BY <2>1, <2>2, <1>2
<1>7. CASE PayloadSymbol \/ PayloadBlock \/ PayloadEnergyDrop
  <2>1. /\ d_state = "DECODE_PAYLOAD" /\ UNCHANGED rx
        /\ \/ d_state' = "DECODE_PAYLOAD" /\ UNCHANGED frames
           \/ d_state' = "DETECT" /\ frames' # frames
    <3>1. ASSUME NEW words, NEW demodulated, NEW len,
                 Publish(words, demodulated, len)
          PROVE  d_state' = "DETECT" /\ frames' # frames
      <4>1. \E frame : frames' = Append(frames, frame)
        BY <3>1 DEF Publish
      <4>2. frames \in Seq(Reception)
        BY DEF TypeOK
      <4>3. Len(frames') = Len(frames) + 1 /\ Len(frames) \in Nat
        BY <4>1, <4>2
      <4>4. frames' # frames
        BY <4>3
      <4> QED BY <3>1, <4>4 DEF Publish
    <3>2. CASE PayloadSymbol
      BY <3>1, <3>2 DEF PayloadSymbol, Scheduled, FinishOrContinue, signal
    <3>3. CASE PayloadBlock
      BY <3>1, <3>3 DEF PayloadBlock, Scheduled, FinishOrContinue, signal
    <3>4. CASE PayloadEnergyDrop
      BY <3>1, <3>4 DEF PayloadEnergyDrop, Scheduled, signal
    <3> QED BY <1>7, <3>2, <3>3, <3>4
  <2>2. Phase = "locked"
    BY <2>1 DEF Phase
  <2>3. CASE d_state' = "DECODE_PAYLOAD" /\ UNCHANGED frames
    <3>1. Phase' = Phase
      BY <2>1, <2>3 DEF Phase
    <3> QED BY <2>1, <2>3, <3>1, <1>2
  <2>4. CASE d_state' = "DETECT" /\ frames' # frames
    <3>1. PICK frame \in Reception :
             frames' = Append(frames, frame) /\ frame.rx = rx
      <4>1. Next
        BY <1>7 DEF Next
      <4>2. ~ DetectNothing /\ ~ DetectPreamble
        BY <2>1 DEF DetectNothing, DetectPreamble, Scheduled
      <4> QED BY <4>1, <4>2, <2>4, SnrStep
    <3>2. Delivered' = Append(Delivered, [header |-> rx, payload |-> rx])
      BY <3>1, OneMoreDelivered
    <3>3. Phase' = "listening"
      BY <2>4 DEF Phase
    <3> QED BY <2>1, <2>2, <3>2, <3>3 DEF Receiver!Next, Receiver!Deliver
  <2> QED BY <2>1, <2>3, <2>4
<1> QED BY <1>3, <1>4, <1>5, <1>6, <1>7 DEF Next

(* Every behaviour of the decoder is a behaviour of the receiver its users *)
(* rely on: at most one frame for a signal, of that signal only.           *)
THEOREM DecoderImplementsReceiver ==
    ASSUME HeadersHaveCr
    PROVE  Spec => ImplementsReceiver
<1>1. Init => Receiver!Init
  BY DEF Init, Receiver!Init, Phase, Delivered
<1>2. /\ TypeOK /\ TypeOK' /\ CodingInv /\ CodingInv' /\ [Next]_vars
      => [Receiver!Next]_(Receiver!vars)
  BY StepRefines DEF CodingInv
<1> QED
  BY <1>1, <1>2, TypeCorrect, CodingInvariance, PTL
  DEF Spec, ImplementsReceiver, Receiver!Spec
=============================================================================
