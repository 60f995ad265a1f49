------------------------- MODULE LoraDecoderProofs -------------------------
(***************************************************************************)
(* Proofs about LoraDecoder, for every set of configurations and headers,  *)
(* every symbol length and every stream.                                   *)
(***************************************************************************)
EXTENDS LoraDecoder, SequenceTheorems, TLAPS

-----------------------------------------------------------------------------
(* Lemmas about the operators.                                             *)

(* The rounded-up quotient is the smallest number of blocks that covers a. *)
(* A symbol carries 4 (sf 6, reduced) to 13 bits.                          *)
LEMMA CeilDivCovers ==
    ASSUME NEW a \in Nat, NEW b \in 4..13
    PROVE  /\ CeilDiv(a, b) \in Nat
           /\ a <= b * CeilDiv(a, b)
           /\ b * CeilDiv(a, b) < a + b
<1>1. CASE b = 4  BY <1>1 DEF CeilDiv
<1>2. CASE b = 5  BY <1>2 DEF CeilDiv
<1>3. CASE b = 6  BY <1>3 DEF CeilDiv
<1>4. CASE b = 7  BY <1>4 DEF CeilDiv
<1>5. CASE b = 8  BY <1>5 DEF CeilDiv
<1>6. CASE b = 9  BY <1>6 DEF CeilDiv
<1>7. CASE b = 10 BY <1>7 DEF CeilDiv
<1>8. CASE b = 11 BY <1>8 DEF CeilDiv
<1>9. CASE b = 12 BY <1>9 DEF CeilDiv
<1>10. CASE b = 13 BY <1>10 DEF CeilDiv
<1> QED BY <1>1, <1>2, <1>3, <1>4, <1>5, <1>6, <1>7, <1>8, <1>9, <1>10

(* A drift correction moves a window by less than half a symbol, so that a *)
(* call that demodulates consumes something, and not more than 2 symbols.  *)
LEMMA DriftsAreSmall ==
    /\ \A lag \in Drifts(4 * DecimFactor) :
          /\ SamplesPerSymbol - lag \in 1..(2 * SamplesPerSymbol)
    /\ \A lag \in SymbolDrifts :
          /\ SamplesPerSymbol - lag \in 1..(2 * SamplesPerSymbol)
<1>1. /\ DecimFactor \in Nat /\ DecimFactor >= 1
      /\ SamplesPerSymbol \in Nat /\ SamplesPerSymbol >= 8 * DecimFactor
  BY SamplesAssumption
<1>2. \A lag \in Drifts(4 * DecimFactor) :
          SamplesPerSymbol - lag \in 1..(2 * SamplesPerSymbol)
  BY <1>1 DEF Drifts
<1>3. /\ Larger(DecimFactor \div 4, 2) \in Nat
      /\ Larger(DecimFactor \div 4, 2) <= 2 * DecimFactor
  BY <1>1 DEF Larger
<1>4. \A lag \in SymbolDrifts :
          SamplesPerSymbol - lag \in 1..(2 * SamplesPerSymbol)
  BY <1>1, <1>3 DEF SymbolDrifts, Drifts
<1> QED BY <1>2, <1>4

(* Appending the symbol's word to a block.                                 *)
LEMMA WordsReadFacts ==
    ASSUME TypeOK
    PROVE  /\ WordsRead \in Seq(Nat)
           /\ Len(WordsRead) = Len(d_words) + 1
           /\ \A i \in 1..Len(d_words) : WordsRead[i] = d_words[i]
           /\ WordsRead[Len(d_words) + 1] = rx
<1>1. d_words \in Seq(Nat) /\ rx \in Nat
  BY DEF TypeOK
<1> QED BY <1>1 DEF WordsRead

(* A completed block adds bits words, each made of every word read.        *)
LEMMA DeinterleavedFacts ==
    ASSUME TypeOK, NEW bits \in Nat
    PROVE  /\ Deinterleaved(bits) \in Seq(SUBSET Nat)
           /\ Len(Deinterleaved(bits)) = Len(d_demodulated) + bits
           /\ \A i \in 1..Len(Deinterleaved(bits)) :
                 Deinterleaved(bits)[i] =
                    IF i <= Len(d_demodulated)
                    THEN d_demodulated[i]
                    ELSE {WordsRead[j] : j \in 1..Len(WordsRead)}
<1> DEFINE word == {WordsRead[j] : j \in 1..Len(WordsRead)}
           block == [i \in 1..bits |-> word]
<1>1. word \in SUBSET Nat
  <2>1. WordsRead \in Seq(Nat)
    BY WordsReadFacts
  <2>2. \A j \in 1..Len(WordsRead) : WordsRead[j] \in Nat
    BY <2>1
  <2> QED BY <2>2
<1>2. block \in Seq(SUBSET Nat) /\ Len(block) = bits
  <2> HIDE DEF word
  <2> QED BY <1>1
<1>3. d_demodulated \in Seq(SUBSET Nat)
  BY DEF TypeOK
<1>4. \A i \in 1..bits : block[i] = word
  OBVIOUS
<1>5. Deinterleaved(bits) = d_demodulated \o block
  BY DEF Deinterleaved
<1> HIDE DEF block, word
<1>6. /\ Deinterleaved(bits) \in Seq(SUBSET Nat)
      /\ Len(Deinterleaved(bits)) = Len(d_demodulated) + Len(block)
      /\ \A i \in 1..(Len(d_demodulated) + Len(block)) :
            Deinterleaved(bits)[i] = IF i <= Len(d_demodulated)
                                     THEN d_demodulated[i]
                                     ELSE block[i - Len(d_demodulated)]
  <2> DEFINE S == SUBSET Nat
  <2>1. d_demodulated \in Seq(S) /\ block \in Seq(S)
    BY <1>2, <1>3
  <2> HIDE DEF S
  <2>2. /\ Deinterleaved(bits) \in Seq(S)
        /\ Len(Deinterleaved(bits)) = Len(d_demodulated) + Len(block)
        /\ \A i \in 1..(Len(d_demodulated) + Len(block)) :
              Deinterleaved(bits)[i] = IF i <= Len(d_demodulated)
                                       THEN d_demodulated[i]
                                       ELSE block[i - Len(d_demodulated)]
    BY <2>1, <1>5, ConcatProperties
  <2> QED BY <2>2 DEF S
<1>7. Len(d_demodulated) \in Nat
  BY <1>3
<1>8. \A i \in 1..Len(Deinterleaved(bits)) :
         Deinterleaved(bits)[i] = IF i <= Len(d_demodulated)
                                  THEN d_demodulated[i] ELSE word
  <2> TAKE i \in 1..Len(Deinterleaved(bits))
  <2>1. CASE i <= Len(d_demodulated)
    BY <2>1, <1>2, <1>6, <1>7
  <2>2. CASE i > Len(d_demodulated)
    <3>1. i - Len(d_demodulated) \in 1..bits
      BY <2>2, <1>2, <1>6, <1>7
    <3> QED BY <3>1, <2>2, <1>2, <1>4, <1>6, <1>7
  <2> QED BY <2>1, <2>2, <1>7
<1> QED BY <1>2, <1>6, <1>8 DEF word

(* The header's words are cut off the front of its block.                  *)
LEMMA HeaderErasedFacts ==
    ASSUME NEW S, NEW s \in Seq(S), NEW n \in Nat, Len(s) = n + HeaderWords
    PROVE  /\ SubSeq(s, HeaderWords + 1, Len(s)) \in Seq(S)
           /\ Len(SubSeq(s, HeaderWords + 1, Len(s))) = n
           /\ \A i \in 1..n :
                 SubSeq(s, HeaderWords + 1, Len(s))[i] = s[i + HeaderWords]
<1> DEFINE left == SubSeq(s, 6, n + 5)
<1>1. Len(s) = n + 5
  BY DEF HeaderWords
<1>2. \A i \in 6..(n + 5) : s[i] \in S
  BY <1>1
<1>3. /\ left \in Seq(S)
      /\ Len(left) = IF 6 <= n + 5 THEN n + 5 - 6 + 1 ELSE 0
      /\ \A i \in 1..(n + 5 - 6 + 1) : left[i] = s[6 + i - 1]
  BY <1>2, SubSeqProperties
<1>4. left = SubSeq(s, HeaderWords + 1, Len(s))
  BY <1>1 DEF HeaderWords
<1> HIDE DEF left
<1>5. Len(left) = n
  BY <1>3
<1>6. ASSUME NEW i \in 1..n PROVE left[i] = s[i + 5]
  BY <1>3
<1> QED BY <1>3, <1>4, <1>5, <1>6 DEF HeaderWords

(* Bits of a symbol.                                                       *)
LEMMA BitsFacts ==
    ASSUME TypeOK
    PROVE  /\ PayloadBits \in 4..13
           /\ HeaderBits \in 4..11
           /\ HeaderBits = conf.sf - 2
           /\ conf \in Config
<1>1. conf \in Config
  BY ConfigsAssumption DEF TypeOK
<1> QED BY <1>1 DEF Config, PayloadBits, HeaderBits

(* The symbols left after a block; as an integer it may pass below 0.      *)
LEMMA SymbolsLeftType ==
    ASSUME TypeOK
    PROVE  SymbolsLeft \in Int
<1>1. d_payload_symbols \in Int /\ d_phdr.cr \in 0..4
  BY DEF TypeOK
<1>2. d_payload_symbols - (4 + d_phdr.cr) \in Int
  BY <1>1
<1> QED BY <1>1, <1>2, Zenon DEF SymbolsLeft

-----------------------------------------------------------------------------
(* Type correctness.  The bound of d_corr_fails needs the state that       *)
(* counts it: it reaches 5 only when FIND_SFD is left.                     *)

TypeInv ==
    /\ TypeOK
    /\ d_state \in {"SYNC", "FIND_SFD"} => d_corr_fails <= 4

LEMMA InitTypeInv == Init => TypeInv
<1> SUFFICES ASSUME Init PROVE TypeInv
  OBVIOUS
<1>1. conf \in Config /\ StreamLength[conf] \in Nat
  BY ConfigsAssumption, SamplesAssumption DEF Init
<1>2. d_phdr \in [length : 0..255, has_mac_crc : 0..1, cr : 0..4, rx : Nat]
  <2>1. PICK h \in Headers :
           d_phdr = [length |-> h.length, has_mac_crc |-> conf.has_mac_crc,
                     cr |-> conf.cr, rx |-> 0]
    BY DEF Init
  <2> QED BY <2>1, <1>1, HeadersAssumption DEF Config, Header
<1> QED BY <1>1, <1>2 DEF Init, TypeInv, TypeOK, States, MAX_PWR_QUEUE_SIZE

(* What a published frame looks like.                                      *)
LEMMA PublishType ==
    ASSUME TypeOK, NEW words \in Seq(Nat), NEW demodulated \in Seq(SUBSET Nat),
           NEW len \in Nat, Publish(words, demodulated, len)
    PROVE  /\ d_decoded' \in [reads_as : SUBSET Headers, rx : Nat]
           /\ frames' \in Seq(Reception)
           /\ d_state' = "DETECT"
           /\ d_words' = <<>>
           /\ d_demodulated' = <<>>
<1>1. d_decoded' \in [reads_as : SUBSET Headers, rx : Nat]
  BY DEF Publish, DecodedPayload, TypeOK
<1> DEFINE frame == [rx |-> rx, phdr |-> d_phdr, length |-> len,
                     words |-> demodulated, bytes_of |-> d_decoded'.rx,
                     snr_of |-> d_snr]
<1>2. frame \in Reception
  BY <1>1 DEF TypeOK, Reception
<1>3. frames' = Append(frames, frame)
  BY DEF Publish
<1>4. frames' \in Seq(Reception)
  <2> HIDE DEF frame
  <2> QED BY <1>2, <1>3 DEF TypeOK
<1> QED BY <1>1, <1>4 DEF Publish, Cleared

(* One symbol consumes an integer number of samples.                       *)
LEMMA ConsumedType ==
    ASSUME TypeOK, ConsumeSymbol
    PROVE  avail' \in Int
<1>1. PICK lag \in SymbolDrifts : avail' = avail - (SamplesPerSymbol - lag)
  BY DEF ConsumeSymbol, Consume
<1>2. SamplesPerSymbol - lag \in 1..(2 * SamplesPerSymbol)
  BY DriftsAreSmall
<1> QED BY <1>1, <1>2, SamplesAssumption DEF TypeOK

(* What work() does once it knows the symbols left.                        *)
LEMMA FinishOrContinueType ==
    ASSUME TypeOK, NEW words \in Seq(Nat), NEW demodulated \in Seq(SUBSET Nat),
           NEW symbols \in Int, d_state = "DECODE_PAYLOAD",
           FinishOrContinue(words, demodulated, symbols)
    PROVE  /\ d_decoded' \in [reads_as : SUBSET Headers, rx : Nat]
           /\ frames' \in Seq(Reception)
           /\ d_state' \in {"DETECT", "DECODE_PAYLOAD"}
           /\ d_words' \in Seq(Nat)
           /\ d_demodulated' \in Seq(SUBSET Nat)
           /\ d_payload_symbols' \in Int
<1>1. CASE symbols <= 0
  <2>1. Publish(words, demodulated, d_payload_length) /\ d_payload_symbols' = symbols
    BY <1>1 DEF FinishOrContinue
  <2>2. d_payload_length \in Nat
    BY DEF TypeOK
  <2>3. /\ d_decoded' \in [reads_as : SUBSET Headers, rx : Nat]
        /\ frames' \in Seq(Reception)
        /\ d_state' = "DETECT" /\ d_words' = <<>> /\ d_demodulated' = <<>>
    BY <2>1, <2>2, PublishType
  <2> QED BY <2>1, <2>3
<1>2. CASE ~ (symbols <= 0)
  BY <1>2 DEF FinishOrContinue, TypeOK
<1> QED BY <1>1, <1>2

LEMMA NextTypeInv ==
    ASSUME TypeInv, [Next]_vars
    PROVE  TypeInv'
<1> USE DEF TypeInv
<1>0. /\ SamplesPerSymbol \in Nat
      /\ SamplesPerSymbol \div 4 \in Nat
  BY SamplesAssumption
<1>a. TypeOK
  OBVIOUS
<1>b. /\ Deinterleaved(HeaderBits) \in Seq(SUBSET Nat)
      /\ Len(Deinterleaved(HeaderBits)) = Len(d_demodulated) + HeaderBits
      /\ Deinterleaved(PayloadBits) \in Seq(SUBSET Nat)
  <2>1. HeaderBits \in Nat /\ PayloadBits \in Nat
    BY <1>a, BitsFacts
  <2> HIDE DEF TypeInv
  <2> QED BY <1>a, <2>1, DeinterleavedFacts
<1>1. CASE DetectNothing
  BY <1>0, <1>1 DEF DetectNothing, Scheduled, Consume, PwrQueuePushed, TypeOK,
     buffers, header, MAX_PWR_QUEUE_SIZE
<1>2. CASE DetectPreamble
  BY <1>2 DEF DetectPreamble, Scheduled, PwrQueuePushed, NoiseKnown, TypeOK,
     States, buffers, header, MAX_PWR_QUEUE_SIZE
<1>3. CASE Sync
  BY <1>0, <1>3 DEF Sync, Scheduled, Consume, TypeOK, States, buffers, header,
     signal
<1>4. CASE FindSfdDownchirp
  BY <1>0, <1>4 DEF FindSfdDownchirp, Scheduled, Consume, TypeOK, States,
     buffers, header, signal
<1>5. CASE FindSfdUpchirp
  <2>1. avail' \in Int
    BY <1>0, <1>5, DriftsAreSmall DEF FindSfdUpchirp, Consume, TypeOK
  <2> QED
    BY <1>5, <2>1 DEF FindSfdUpchirp, GiveUpOrStay, Scheduled, TypeOK, States,
       buffers, header
<1>6. CASE FindSfdFail
  BY <1>0, <1>6 DEF FindSfdFail, GiveUpOrStay, Scheduled, Consume, TypeOK,
     States, buffers, header
<1>7. CASE Pause
  BY <1>0, <1>7 DEF Pause, Scheduled, Consume, TypeOK, States, buffers, header,
     signal
<1>8. CASE HeaderSymbol
  BY <1>8, WordsReadFacts, ConsumedType DEF HeaderSymbol, Scheduled, TypeOK,
     header, signal
<1>9. CASE HeaderBlockImplicit
  <2>1. d_demodulated' \in Seq(SUBSET Nat)
    BY <1>9, <1>b DEF HeaderBlockImplicit
  <2>2. status' \in {"running", "exited", "undefined"}
    BY <1>9 DEF HeaderBlockImplicit, StatusAfterBlock
  <2> QED
    BY <1>9, <2>1, <2>2, ConsumedType DEF HeaderBlockImplicit, Scheduled,
       TypeOK, States, signal
<1>10. CASE HeaderBlockExplicit
  <2>1. d_demodulated' \in Seq(SUBSET Nat)
    <3> DEFINE n == Len(d_demodulated) + HeaderBits - HeaderWords
    <3>1. HeaderBits \in Nat /\ HeaderBits >= HeaderWords
      BY <1>10, BitsFacts DEF HeaderBlockExplicit
    <3>2. d_demodulated \in Seq(SUBSET Nat)
      BY DEF TypeOK
    <3>3. n \in Nat
      BY <3>1, <3>2 DEF HeaderWords
    <3>4. /\ Deinterleaved(HeaderBits) \in Seq(SUBSET Nat)
          /\ Len(Deinterleaved(HeaderBits)) = n + HeaderWords
      BY <3>1, <3>2, <1>b DEF HeaderWords
    <3> HIDE DEF n
    <3> QED BY <1>10, <3>3, <3>4, HeaderErasedFacts DEF HeaderBlockExplicit
  <2>2. status' \in {"running", "exited", "undefined"}
    BY <1>10 DEF HeaderBlockExplicit, StatusAfterBlock
  <2>3. d_decoded' \in [reads_as : SUBSET Headers, rx : Nat]
    BY <1>10 DEF HeaderBlockExplicit, DecodedHeader, TypeOK
  <2>4. PICK h \in Headers :
           /\ d_phdr' = [length |-> h.length, has_mac_crc |-> h.has_mac_crc,
                         cr |-> ClampedCr(h.cr), rx |-> d_decoded'.rx]
           /\ d_payload_length' = AnnouncedLength(h)
    BY <1>10, <2>3 DEF HeaderBlockExplicit
  <2>5. h \in Header
    BY HeadersAssumption
  <2>6. /\ d_phdr' \in [length : 0..255, has_mac_crc : 0..1, cr : 0..4, rx : Nat]
        /\ d_payload_length' \in Nat
    BY <2>3, <2>4, <2>5 DEF Header, ClampedCr, AnnouncedLength, MAC_CRC_SIZE
  <2>7. d_payload_symbols' \in Int
    <3> DEFINE len == d_payload_length'
    <3>a. len \in Nat
      BY <2>6
    <3>1. 2 * len \in Nat
      <4> HIDE DEF len
      <4> QED BY <3>a
    <3>2. BlocksNeeded(d_payload_length', PayloadBits) \in Nat
      BY <3>1, BitsFacts, CeilDivCovers DEF BlocksNeeded
    <3> QED BY <1>10, <2>6, <3>2 DEF HeaderBlockExplicit
  <2> QED
    <3>1. /\ d_words' = <<>> /\ d_state' = "DECODE_PAYLOAD"
          /\ UNCHANGED <<conf, signal, frames>>
      BY <1>10 DEF HeaderBlockExplicit
    <3>2. avail' \in Int
      BY <1>10, ConsumedType DEF HeaderBlockExplicit
    <3> QED
      BY <2>1, <2>2, <2>3, <2>6, <2>7, <3>1, <3>2 DEF TypeOK, States, signal
<1>11. CASE HeaderBlockTooShort
  BY <1>11 DEF HeaderBlockTooShort, TypeOK, buffers, header, signal
<1>12. CASE PayloadSymbol
  <2>1. /\ d_demodulated \in Seq(SUBSET Nat)
        /\ d_payload_symbols \in Int
        /\ d_state = "DECODE_PAYLOAD"
    BY <1>12 DEF TypeOK, PayloadSymbol, Scheduled
  <2> QED
    BY <1>12, <2>1, WordsReadFacts, FinishOrContinueType, ConsumedType
    DEF PayloadSymbol, TypeOK, States, signal
<1>13. CASE PayloadBlock
  <2>1. /\ Deinterleaved(PayloadBits) \in Seq(SUBSET Nat)
        /\ SymbolsLeft \in Int
        /\ d_state = "DECODE_PAYLOAD"
        /\ <<>> \in Seq(Nat)
    BY <1>13, <1>a, <1>b, SymbolsLeftType DEF PayloadBlock, Scheduled
  <2>2. status' \in {"running", "exited", "undefined"}
    BY <1>13 DEF PayloadBlock, StatusAfterBlock
  <2> QED
    BY <1>13, <2>1, <2>2, FinishOrContinueType, ConsumedType
    DEF PayloadBlock, TypeOK, States, signal
<1>14. CASE PayloadEnergyDrop
  <2>1. d_payload_length' \in Nat
    BY <1>14 DEF PayloadEnergyDrop, ImplicitLength, TypeOK
  <2>2. /\ d_decoded' \in [reads_as : SUBSET Headers, rx : Nat]
        /\ frames' \in Seq(Reception)
        /\ d_state' = "DETECT" /\ d_words' = <<>> /\ d_demodulated' = <<>>
    BY <1>14, <2>1, PublishType DEF PayloadEnergyDrop, TypeOK
  <2> QED
    BY <1>0, <1>14, <2>1, <2>2
    DEF PayloadEnergyDrop, Consume, TypeOK, States, signal
<1>15. CASE UNCHANGED vars
  BY <1>15 DEF vars, buffers, header, signal, TypeOK
<1> QED
  BY <1>1, <1>2, <1>3, <1>4, <1>5, <1>6, <1>7, <1>8, <1>9, <1>10, <1>11,
     <1>12, <1>13, <1>14, <1>15 DEF Next

(* Every field of the decoder keeps to its range, whatever is received.    *)
THEOREM TypeCorrect == Spec => []TypeOK
<1>1. Spec => []TypeInv
  BY InitTypeInv, NextTypeInv, PTL DEF Spec
<1>2. TypeInv => TypeOK
  BY DEF TypeInv
<1> QED BY <1>1, <1>2, PTL

-----------------------------------------------------------------------------
(* Consumption: what a call of work() takes from the stream.               *)

LEMMA SymbolConsumes ==
    ASSUME TypeOK, ConsumeSymbol
    PROVE  avail' < avail /\ avail' >= avail - 2 * SamplesPerSymbol
<1>1. PICK lag \in SymbolDrifts : avail' = avail - (SamplesPerSymbol - lag)
  BY DEF ConsumeSymbol, Consume
<1>2. SamplesPerSymbol - lag \in 1..(2 * SamplesPerSymbol)
  BY DriftsAreSmall
<1> QED BY <1>1, <1>2, SamplesAssumption DEF TypeOK

(* Every call is made with two symbols of input, takes no more than that,  *)
(* and takes something unless it moves towards the search for the SFD.     *)
LEMMA StepConsumes ==
    ASSUME TypeOK, Next
    PROVE  /\ avail >= 2 * SamplesPerSymbol
           /\ avail' >= avail - 2 * SamplesPerSymbol
           /\ \/ avail' < avail
              \/ avail' = avail /\ Rank(d_state') > Rank(d_state)
              \/ status' # "running"
<1>1. /\ SamplesPerSymbol \in Nat /\ SamplesPerSymbol >= 8
      /\ SamplesPerSymbol \div 4 \in 0..SamplesPerSymbol
  BY SamplesAssumption
<1>2. avail \in Int
  BY DEF TypeOK
<1>3. CASE DetectNothing
  BY <1>1, <1>2, <1>3 DEF DetectNothing, Scheduled, Consume
<1>4. CASE DetectPreamble
  BY <1>1, <1>2, <1>4 DEF DetectPreamble, Scheduled, Rank
<1>5. CASE Sync
  BY <1>1, <1>2, <1>5 DEF Sync, Scheduled, Consume, Rank
<1>6. CASE FindSfdDownchirp
  BY <1>1, <1>2, <1>6 DEF FindSfdDownchirp, Scheduled, Consume
<1>7. CASE FindSfdUpchirp
  <2>1. PICK lag \in Drifts(4 * DecimFactor) :
           avail' = avail - (SamplesPerSymbol - lag)
    BY <1>7 DEF FindSfdUpchirp, Consume
  <2>2. SamplesPerSymbol - lag \in 1..(2 * SamplesPerSymbol)
    BY DriftsAreSmall
  <2>3. avail >= 2 * SamplesPerSymbol
    BY <1>7 DEF FindSfdUpchirp, Scheduled
  <2> QED BY <1>1, <1>2, <2>1, <2>2, <2>3
<1>8. CASE FindSfdFail
  BY <1>1, <1>2, <1>8 DEF FindSfdFail, Scheduled, Consume
<1>9. CASE Pause
  BY <1>1, <1>2, <1>9 DEF Pause, Scheduled, Consume
<1>10. CASE HeaderSymbol
  BY <1>10, SymbolConsumes DEF HeaderSymbol, Scheduled
<1>11. CASE HeaderBlockImplicit
  BY <1>11, SymbolConsumes DEF HeaderBlockImplicit, Scheduled
<1>12. CASE HeaderBlockExplicit
  BY <1>12, SymbolConsumes DEF HeaderBlockExplicit, Scheduled
<1>13. CASE HeaderBlockTooShort
  BY <1>1, <1>2, <1>13 DEF HeaderBlockTooShort, Scheduled
<1>14. CASE PayloadSymbol
  BY <1>14, SymbolConsumes DEF PayloadSymbol, Scheduled
<1>15. CASE PayloadBlock
  BY <1>15, SymbolConsumes DEF PayloadBlock, Scheduled
<1>16. CASE PayloadEnergyDrop
  BY <1>1, <1>2, <1>16 DEF PayloadEnergyDrop, Scheduled, Consume
<1> QED
  BY <1>3, <1>4, <1>5, <1>6, <1>7, <1>8, <1>9, <1>10, <1>11, <1>12, <1>13,
     <1>14, <1>15, <1>16 DEF Next

(* work() never consumes more samples than it was given, whatever the      *)
(* symbol length and the drift.                                            *)
THEOREM ConsumptionBounded == Spec => []NeverOverConsumes
<1>1. Init => NeverOverConsumes
  BY SamplesAssumption DEF Init, NeverOverConsumes
<1>2. TypeOK /\ TypeOK' /\ NeverOverConsumes /\ [Next]_vars => NeverOverConsumes'
  <2> SUFFICES ASSUME TypeOK, TypeOK', NeverOverConsumes, [Next]_vars
               PROVE  NeverOverConsumes'
    OBVIOUS
  <2>1. CASE Next
    <3>1. /\ avail \in Int /\ avail' \in Int
          /\ 2 * SamplesPerSymbol \in Nat
      BY SamplesAssumption DEF TypeOK
    <3> QED BY <2>1, <3>1, StepConsumes DEF NeverOverConsumes
  <2>2. CASE UNCHANGED vars
    BY <2>2 DEF vars, NeverOverConsumes
  <2> QED BY <2>1, <2>2
<1> QED BY <1>1, <1>2, TypeCorrect, PTL DEF Spec

(* No sequence of calls keeps the decoder on the same samples for ever.    *)
THEOREM WorkMovesOn == Spec => MovesOn
<1>1. TypeOK /\ [Next]_vars =>
         [ \/ avail' < avail
           \/ avail' = avail /\ Rank(d_state') > Rank(d_state)
           \/ status' # "running" ]_vars
  BY StepConsumes
<1> QED BY <1>1, TypeCorrect, PTL DEF Spec, MovesOn

-----------------------------------------------------------------------------
(* The SNR.  A window without a predecessor is the first of the stream.    *)

SnrInv ==
    /\ d_pwr_queue = 0 => rx = 0 /\ d_snr = 0
    /\ d_state # "DETECT" => \/ d_snr = rx
                             \/ d_snr = 0 /\ rx = 1
    /\ SnrIsOwn

(* The three variables the SNR depends on change in DETECT only.           *)
LEMMA SnrStep ==
    ASSUME TypeOK, Next
    PROVE  \/ DetectNothing
           \/ DetectPreamble
           \/ /\ d_state # "DETECT"
              /\ UNCHANGED <<d_pwr_queue, d_snr, rx>>
              /\ \/ UNCHANGED frames
                 \/ \E frame \in Reception :
                       /\ frames' = Append(frames, frame)
                       /\ frame.rx = rx /\ frame.snr_of = d_snr
<1> DEFINE frame(demodulated, len) ==
              [rx |-> rx, phdr |-> d_phdr, length |-> len,
               words |-> demodulated, bytes_of |-> d_decoded'.rx,
               snr_of |-> d_snr]
<1>1. ASSUME NEW words \in Seq(Nat), NEW demodulated \in Seq(SUBSET Nat),
             NEW len \in Nat, Publish(words, demodulated, len)
      PROVE  /\ frame(demodulated, len) \in Reception
             /\ frames' = Append(frames, frame(demodulated, len))
  <2>1. d_decoded' \in [reads_as : SUBSET Headers, rx : Nat]
    BY <1>1, PublishType
  <2> QED BY <1>1, <2>1 DEF Publish, TypeOK, Reception
<1>2. CASE Sync \/ FindSfdDownchirp \/ FindSfdUpchirp \/ FindSfdFail \/ Pause
           \/ HeaderSymbol
  BY <1>2 DEF Sync, FindSfdDownchirp, FindSfdUpchirp, FindSfdFail, Pause,
     HeaderSymbol, Scheduled, signal
<1>3. CASE HeaderBlockImplicit \/ HeaderBlockExplicit \/ HeaderBlockTooShort
  BY <1>3 DEF HeaderBlockImplicit, HeaderBlockExplicit, HeaderBlockTooShort,
     Scheduled, signal
<1>4. d_payload_length \in Nat
  BY DEF TypeOK
<1>5. CASE PayloadSymbol
  <2>1. \/ UNCHANGED frames
        \/ Publish(WordsRead, d_demodulated, d_payload_length)
    BY <1>5 DEF PayloadSymbol, FinishOrContinue
  <2>2. WordsRead \in Seq(Nat) /\ d_demodulated \in Seq(SUBSET Nat)
    BY WordsReadFacts DEF TypeOK
  <2>3. \/ UNCHANGED frames
        \/ /\ frame(d_demodulated, d_payload_length) \in Reception
           /\ frames' = Append(frames, frame(d_demodulated, d_payload_length))
    BY <2>1, <2>2, <1>1, <1>4
  <2> QED BY <1>5, <2>3 DEF PayloadSymbol, Scheduled, signal
<1>6. CASE PayloadBlock
  <2> DEFINE done == Deinterleaved(PayloadBits)
  <2>1. \/ UNCHANGED frames
        \/ Publish(<<>>, done, d_payload_length)
    BY <1>6 DEF PayloadBlock, FinishOrContinue
  <2>2. <<>> \in Seq(Nat) /\ done \in Seq(SUBSET Nat)
    <3>1. PayloadBits \in Nat
      BY BitsFacts
    <3> QED BY <3>1, DeinterleavedFacts
  <2> HIDE DEF done
  <2>3. \/ UNCHANGED frames
        \/ /\ frame(done, d_payload_length) \in Reception
           /\ frames' = Append(frames, frame(done, d_payload_length))
    BY <2>1, <2>2, <1>1, <1>4
  <2> QED BY <1>6, <2>3 DEF PayloadBlock, Scheduled, signal
<1>7. CASE PayloadEnergyDrop
  <2>1. /\ d_payload_length' \in Nat
        /\ d_words \in Seq(Nat) /\ d_demodulated \in Seq(SUBSET Nat)
    BY <1>7 DEF PayloadEnergyDrop, ImplicitLength, TypeOK
  <2>2. Publish(d_words, d_demodulated, d_payload_length')
    BY <1>7 DEF PayloadEnergyDrop
  <2>3. /\ frame(d_demodulated, d_payload_length') \in Reception
        /\ frames' = Append(frames, frame(d_demodulated, d_payload_length'))
    BY <2>1, <2>2, <1>1
  <2> QED BY <1>7, <2>3 DEF PayloadEnergyDrop, Scheduled, signal
<1> QED BY <1>2, <1>3, <1>5, <1>6, <1>7 DEF Next

(* A frame reports the SNR of its own preamble, unless it is the frame of  *)
(* the first signal and the stream began with its preamble.                *)
THEOREM SnrCorrect == Spec => []SnrIsOwn
<1>1. Init => SnrInv
  BY DEF Init, SnrInv, SnrIsOwn
<1>2. TypeOK /\ TypeOK' /\ SnrInv /\ [Next]_vars => SnrInv'
  <2> SUFFICES ASSUME TypeOK, TypeOK', SnrInv, [Next]_vars
               PROVE  SnrInv'
    OBVIOUS
  <2>1. CASE DetectNothing
    BY <2>1 DEF DetectNothing, PwrQueuePushed, SnrInv, SnrIsOwn, TypeOK,
       Scheduled, MAX_PWR_QUEUE_SIZE
  <2>2. CASE DetectPreamble
    <3>1. /\ d_pwr_queue' > 0
          /\ \/ d_snr' = rx'
             \/ d_snr' = 0 /\ rx' = 1
      BY <2>2 DEF DetectPreamble, PwrQueuePushed, NoiseKnown, SnrInv, TypeOK,
         MAX_PWR_QUEUE_SIZE
    <3> QED BY <2>2, <3>1 DEF DetectPreamble, SnrInv, SnrIsOwn
  <2>3. CASE /\ d_state # "DETECT"
             /\ UNCHANGED <<d_pwr_queue, d_snr, rx>>
             /\ UNCHANGED frames
    BY <2>3 DEF SnrInv, SnrIsOwn
  <2>4. ASSUME d_state # "DETECT", UNCHANGED <<d_pwr_queue, d_snr, rx>>,
               NEW frame \in Reception, frames' = Append(frames, frame),
               frame.rx = rx, frame.snr_of = d_snr
        PROVE  SnrInv'
    <3>1. frames \in Seq(Reception)
      BY DEF TypeOK
    <3>2. SnrIsOwn'
      <4>1. \A f \in 1..Len(frames) : frames'[f] = frames[f]
        BY <2>4, <3>1
      <4>2. Len(frames') = Len(frames) + 1 /\ frames'[Len(frames) + 1] = frame
        BY <2>4, <3>1
      <4> QED BY <2>4, <3>1, <4>1, <4>2 DEF SnrInv, SnrIsOwn
    <3> QED BY <2>4, <3>2 DEF SnrInv
  <2>5. CASE UNCHANGED vars
    BY <2>5 DEF vars, signal, SnrInv, SnrIsOwn
  <2> QED BY <2>1, <2>2, <2>3, <2>4, <2>5, SnrStep
<1>3. SnrInv => SnrIsOwn
  BY DEF SnrInv
<1> QED BY <1>1, <1>2, <1>3, TypeCorrect, PTL DEF Spec

-----------------------------------------------------------------------------
(* The buffers.  They are empty between receptions, so what a reception    *)
(* finds in them is its own; and d_words stays below the width of the      *)
(* block, so the width of a complete block is 8 for the header's and 4 to  *)
(* 8 for the payload's.                                                    *)

OwnBuffers ==
    /\ \A i \in 1..Len(d_words) : d_words[i] = rx
    /\ \A i \in 1..Len(d_demodulated) : d_demodulated[i] = {rx}

OwnFrames ==
    \A f \in 1..Len(frames) : \A i \in 1..Len(frames[f].words) :
        frames[f].words[i] = {frames[f].rx}

BlockInv ==
    /\ d_state \in {"DETECT", "SYNC", "FIND_SFD", "PAUSE"} =>
          d_words = <<>> /\ d_demodulated = <<>>
    /\ d_state = "DECODE_HEADER" => d_demodulated = <<>>
    /\ BlockCanComplete
    /\ OwnBuffers
    /\ OwnFrames
    /\ status # "exited"

(* A symbol of the current reception leaves only its words in d_words, and *)
(* a block of such words only its words in d_demodulated.                  *)
LEMMA OwnBlock ==
    ASSUME TypeOK, OwnBuffers, NEW bits \in Nat
    PROVE  /\ \A i \in 1..Len(WordsRead) : WordsRead[i] = rx
           /\ \A i \in 1..Len(Deinterleaved(bits)) :
                 Deinterleaved(bits)[i] = {rx}
<1>1. /\ Len(d_words) \in Nat
      /\ Len(WordsRead) = Len(d_words) + 1
      /\ \A i \in 1..Len(d_words) : WordsRead[i] = d_words[i]
      /\ WordsRead[Len(d_words) + 1] = rx
  BY WordsReadFacts DEF TypeOK
<1>2. \A i \in 1..Len(WordsRead) : WordsRead[i] = rx
  BY <1>1 DEF OwnBuffers
<1>3. {WordsRead[j] : j \in 1..Len(WordsRead)} = {rx}
  <2>1. 1 \in 1..Len(WordsRead)
    BY <1>1
  <2> QED BY <1>2, <2>1
<1>4. \A i \in 1..Len(Deinterleaved(bits)) :
         Deinterleaved(bits)[i] =
            IF i <= Len(d_demodulated) THEN d_demodulated[i] ELSE {rx}
  BY <1>3, DeinterleavedFacts
<1>5. Len(d_demodulated) \in Nat
  BY DEF TypeOK
<1>6. Len(Deinterleaved(bits)) = Len(d_demodulated) + bits
  BY DeinterleavedFacts
<1>7. ASSUME NEW i \in 1..Len(Deinterleaved(bits))
      PROVE  Deinterleaved(bits)[i] = {rx}
  <2>1. CASE i <= Len(d_demodulated)
    BY <2>1, <1>4, <1>5, <1>6 DEF OwnBuffers
  <2>2. CASE ~ (i <= Len(d_demodulated))
    BY <2>2, <1>4
  <2> QED BY <2>1, <2>2
<1> QED BY <1>2, <1>7

(* Publishing words of the current reception.                              *)
LEMMA OwnPublished ==
    ASSUME TypeOK, OwnFrames,
           NEW words \in Seq(Nat), NEW demodulated \in Seq(SUBSET Nat),
           NEW len \in Nat, Publish(words, demodulated, len),
           \A i \in 1..Len(demodulated) : demodulated[i] = {rx}
    PROVE  OwnFrames'
<1> DEFINE frame == [rx |-> rx, phdr |-> d_phdr, length |-> len,
                     words |-> demodulated, bytes_of |-> d_decoded'.rx,
                     snr_of |-> d_snr]
<1>1. frames' = Append(frames, frame)
  BY DEF Publish
<1>2. frame.words = demodulated /\ frame.rx = rx
  OBVIOUS
<1> HIDE DEF frame
<1>3. frames \in Seq(Reception)
  BY DEF TypeOK
<1>4. \A f \in 1..Len(frames) : frames'[f] = frames[f]
  BY <1>1, <1>3
<1>5. Len(frames') = Len(frames) + 1 /\ frames'[Len(frames) + 1] = frame
  BY <1>1, <1>3
<1>6. ASSUME NEW f \in 1..Len(frames')
      PROVE  \A i \in 1..Len(frames'[f].words) :
                frames'[f].words[i] = {frames'[f].rx}
  <2>1. CASE f = Len(frames) + 1
    BY <2>1, <1>2, <1>5
  <2>2. CASE f # Len(frames) + 1
    <3>1. f \in 1..Len(frames)
      BY <2>2, <1>3, <1>5
    <3> QED BY <3>1, <1>4 DEF OwnFrames
  <2> QED BY <2>1, <2>2
<1> QED BY <1>6 DEF OwnFrames

(* The end of DECODE_PAYLOAD keeps the buffers the reception's own.        *)
LEMMA FinishOrContinueBlockInv ==
    ASSUME TypeOK, BlockInv, d_state = "DECODE_PAYLOAD",
           NEW words \in Seq(Nat), NEW demodulated \in Seq(SUBSET Nat),
           NEW symbols \in Int,
           FinishOrContinue(words, demodulated, symbols),
           \A i \in 1..Len(words) : words[i] = rx,
           \A i \in 1..Len(demodulated) : demodulated[i] = {rx},
           Len(words) < 4 + d_phdr.cr,
           UNCHANGED <<rx, d_phdr>>, status' # "exited"
    PROVE  BlockInv'
<1>1. CASE symbols <= 0
  <2>1. Publish(words, demodulated, d_payload_length) /\ d_payload_length \in Nat
    BY <1>1 DEF FinishOrContinue, TypeOK
  <2>2. d_state' = "DETECT" /\ d_words' = <<>> /\ d_demodulated' = <<>>
    BY <2>1, PublishType
  <2>3. OwnFrames'
    BY <2>1, OwnPublished DEF BlockInv
  <2>4. OwnBuffers'
    BY <2>2 DEF OwnBuffers
  <2>5. BlockCanComplete'
    BY <2>2 DEF BlockCanComplete
  <2> QED BY <2>2, <2>3, <2>4, <2>5 DEF BlockInv
<1>2. CASE ~ (symbols <= 0)
  <2>1. /\ d_words' = words /\ d_demodulated' = demodulated
        /\ d_state' = "DECODE_PAYLOAD" /\ UNCHANGED frames
    BY <1>2 DEF FinishOrContinue
  <2>2. OwnFrames' /\ OwnBuffers'
    BY <2>1 DEF BlockInv, OwnFrames, OwnBuffers
  <2>3. BlockCanComplete'
    BY <2>1 DEF BlockCanComplete, BlockWidth
  <2> QED BY <2>1, <2>2, <2>3 DEF BlockInv
<1> QED BY <1>1, <1>2

LEMMA NextBlockInv ==
    ASSUME TypeOK, TypeOK', BlockInv, [Next]_vars
    PROVE  BlockInv'
<1>0. /\ Len(WordsRead) = Len(d_words) + 1 /\ Len(d_words) \in Nat
      /\ WordsRead \in Seq(Nat)
      /\ d_phdr.cr \in 0..4 /\ d_phdr'.cr \in 0..4
  <2>1. Len(d_words) \in Nat
    <3>1. d_words \in Seq(Nat)
      BY DEF TypeOK
    <3> QED BY <3>1
  <2>2. d_phdr.cr \in 0..4
    BY DEF TypeOK
  <2>3. d_phdr'.cr \in 0..4
    BY DEF TypeOK
  <2>4. Len(WordsRead) = Len(d_words) + 1 /\ WordsRead \in Seq(Nat)
    BY WordsReadFacts
  <2> QED BY <2>1, <2>2, <2>3, <2>4
<1>1. /\ HeaderBits \in Nat /\ PayloadBits \in Nat
  BY BitsFacts
<1>a. /\ Deinterleaved(HeaderBits) \in Seq(SUBSET Nat)
      /\ Len(Deinterleaved(HeaderBits)) = Len(d_demodulated) + HeaderBits
      /\ Deinterleaved(PayloadBits) \in Seq(SUBSET Nat)
  BY <1>1, DeinterleavedFacts
<1>2. /\ \A i \in 1..Len(WordsRead) : WordsRead[i] = rx
      /\ \A i \in 1..Len(Deinterleaved(HeaderBits)) :
            Deinterleaved(HeaderBits)[i] = {rx}
      /\ \A i \in 1..Len(Deinterleaved(PayloadBits)) :
            Deinterleaved(PayloadBits)[i] = {rx}
  BY <1>1, OwnBlock DEF BlockInv
<1>3. CASE DetectNothing \/ DetectPreamble \/ Sync \/ FindSfdDownchirp
           \/ FindSfdUpchirp \/ FindSfdFail \/ Pause
  <2>1. /\ d_state \in {"DETECT", "SYNC", "FIND_SFD", "PAUSE"}
        /\ d_state' \in {"DETECT", "SYNC", "FIND_SFD", "PAUSE", "DECODE_HEADER"}
        /\ UNCHANGED <<d_words, d_demodulated, frames, status>>
    BY <1>3 DEF DetectNothing, DetectPreamble, Sync, FindSfdDownchirp,
       FindSfdUpchirp, FindSfdFail, Pause, Scheduled, GiveUpOrStay, buffers
  <2>2. d_words' = <<>> /\ d_demodulated' = <<>>
    BY <2>1 DEF BlockInv
  <2>3. OwnBuffers' /\ OwnFrames'
    BY <2>1, <2>2 DEF OwnBuffers, BlockInv, OwnFrames
  <2>4. BlockCanComplete'
    BY <2>1, <2>2 DEF BlockCanComplete, BlockWidth
  <2> QED BY <2>1, <2>2, <2>3, <2>4 DEF BlockInv
<1>4. CASE HeaderSymbol
  <2>1. /\ d_state = "DECODE_HEADER" /\ d_state' = "DECODE_HEADER"
        /\ d_words' = WordsRead /\ UNCHANGED <<d_demodulated, frames, rx, status>>
    BY <1>4 DEF HeaderSymbol, Scheduled, signal
  <2>2. OwnBuffers' /\ OwnFrames'
    BY <2>1, <1>2 DEF OwnBuffers, BlockInv, OwnFrames
  <2>3. Len(WordsRead) < 8
    BY <1>0, <1>4, <2>1
    DEF HeaderSymbol, BlockComplete, BlockWidth, BlockInv, BlockCanComplete
  <2>4. BlockCanComplete'
    BY <2>1, <2>3 DEF BlockCanComplete, BlockWidth
  <2> QED BY <2>1, <2>2, <2>4 DEF BlockInv
<1>5. CASE HeaderBlockImplicit
  <2>1. /\ d_words' = <<>> /\ d_demodulated' = Deinterleaved(HeaderBits)
        /\ d_state' = "DECODE_PAYLOAD" /\ UNCHANGED <<frames, rx>>
    BY <1>5 DEF HeaderBlockImplicit, signal
  <2>2. OwnBuffers' /\ OwnFrames'
    BY <2>1, <1>2 DEF OwnBuffers, BlockInv, OwnFrames
  <2>3. status' # "exited"
    BY <1>5 DEF HeaderBlockImplicit, BlockComplete, BlockWidth,
       StatusAfterBlock, MaxWordBits
  <2>4. BlockCanComplete'
    BY <1>0, <2>1 DEF BlockCanComplete, BlockWidth
  <2> QED BY <2>1, <2>2, <2>3, <2>4 DEF BlockInv
<1>6. CASE HeaderBlockExplicit
  <2> DEFINE read == Deinterleaved(HeaderBits)
             n == Len(d_demodulated) + HeaderBits - HeaderWords
  <2>1. /\ d_words' = <<>>
        /\ d_demodulated' = SubSeq(read, HeaderWords + 1, Len(read))
        /\ d_state' = "DECODE_PAYLOAD" /\ UNCHANGED <<frames, rx>>
        /\ HeaderBits >= HeaderWords
    BY <1>6 DEF HeaderBlockExplicit, signal
  <2>2. /\ Len(d_demodulated) \in Nat
        /\ read \in Seq(SUBSET Nat)
        /\ Len(read) = Len(d_demodulated) + HeaderBits
    BY <1>a DEF TypeOK
  <2>3. n \in Nat /\ Len(read) = n + HeaderWords
    BY <1>1, <2>1, <2>2 DEF HeaderWords
  <2>4. \A i \in 1..Len(read) : read[i] = {rx}
    BY <1>2
  <2> HIDE DEF read, n
  <2>5. /\ Len(d_demodulated') = n
        /\ \A i \in 1..n : d_demodulated'[i] = read[i + HeaderWords]
    BY <2>1, <2>2, <2>3, HeaderErasedFacts
  <2>6. \A i \in 1..n : d_demodulated'[i] = {rx}
    BY <2>3, <2>4, <2>5 DEF HeaderWords
  <2>7. OwnBuffers' /\ OwnFrames'
    <3>1. OwnFrames'
      BY <2>1 DEF BlockInv, OwnFrames
    <3>2. \A i \in 1..Len(d_demodulated') : d_demodulated'[i] = {rx'}
      BY <2>1, <2>5, <2>6
    <3>3. \A i \in 1..Len(d_words') : d_words'[i] = rx'
      BY <2>1
    <3> QED BY <3>1, <3>2, <3>3 DEF OwnBuffers
  <2>8. status' # "exited"
    BY <1>6 DEF HeaderBlockExplicit, BlockComplete, BlockWidth,
       StatusAfterBlock, MaxWordBits
  <2>9. BlockCanComplete'
    BY <1>0, <2>1 DEF BlockCanComplete, BlockWidth
  <2> QED BY <2>1, <2>7, <2>8, <2>9 DEF BlockInv
<1>7. CASE HeaderBlockTooShort
  <2>1. UNCHANGED <<d_state, d_words, d_demodulated, d_phdr, frames, rx>>
    BY <1>7 DEF HeaderBlockTooShort, buffers, header, signal
  <2>2. status' # "exited"
    BY <1>7 DEF HeaderBlockTooShort
  <2> QED
    BY <2>1, <2>2 DEF BlockInv, BlockCanComplete, BlockWidth, OwnBuffers,
       OwnFrames
<1>8. CASE PayloadSymbol
  <2>1. /\ d_state = "DECODE_PAYLOAD"
        /\ FinishOrContinue(WordsRead, d_demodulated, d_payload_symbols)
        /\ UNCHANGED <<rx, d_phdr, status>>
    BY <1>8 DEF PayloadSymbol, Scheduled, signal
  <2>2. Len(WordsRead) < 4 + d_phdr.cr
    BY <1>0, <1>8, <2>1
    DEF PayloadSymbol, BlockComplete, BlockWidth, BlockInv, BlockCanComplete
  <2>3. /\ d_demodulated \in Seq(SUBSET Nat) /\ d_payload_symbols \in Int
        /\ \A i \in 1..Len(d_demodulated) : d_demodulated[i] = {rx}
        /\ status' # "exited"
    BY <2>1 DEF TypeOK, BlockInv, OwnBuffers
  <2> QED BY <1>0, <1>2, <2>1, <2>2, <2>3, FinishOrContinueBlockInv
<1>9. CASE PayloadBlock
  <2> DEFINE read == Deinterleaved(PayloadBits)
  <2>1. /\ d_state = "DECODE_PAYLOAD"
        /\ FinishOrContinue(<<>>, read, SymbolsLeft)
        /\ UNCHANGED <<rx, d_phdr>>
    BY <1>9 DEF PayloadBlock, Scheduled, signal
  <2>2. status' # "exited"
    BY <1>0, <1>9 DEF PayloadBlock, BlockComplete, BlockWidth,
       StatusAfterBlock, MaxWordBits
  <2>3. /\ read \in Seq(SUBSET Nat) /\ SymbolsLeft \in Int
        /\ \A i \in 1..Len(read) : read[i] = {rx}
    <3>1. SymbolsLeft \in Int
      BY SymbolsLeftType
    <3> QED BY <1>a, <1>2, <3>1
  <2>4. /\ <<>> \in Seq(Nat) /\ Len(<<>>) < 4 + d_phdr.cr
        /\ \A i \in 1..Len(<<>>) : <<>>[i] = rx
    BY <1>0
  <2> HIDE DEF read
  <2> QED BY <2>1, <2>2, <2>3, <2>4, FinishOrContinueBlockInv
<1>10. CASE PayloadEnergyDrop
  <2>1. /\ Publish(d_words, d_demodulated, d_payload_length')
        /\ d_payload_length' \in Nat
        /\ d_words \in Seq(Nat) /\ d_demodulated \in Seq(SUBSET Nat)
        /\ UNCHANGED status
    BY <1>10 DEF PayloadEnergyDrop, TypeOK
  <2>2. d_state' = "DETECT" /\ d_words' = <<>> /\ d_demodulated' = <<>>
    BY <2>1, PublishType
  <2>3. OwnFrames'
    BY <2>1, OwnPublished DEF BlockInv, OwnBuffers
  <2>4. OwnBuffers' /\ BlockCanComplete'
    BY <2>2 DEF OwnBuffers, BlockCanComplete
  <2> QED BY <2>1, <2>2, <2>3, <2>4 DEF BlockInv
<1>11. CASE UNCHANGED vars
  BY <1>11 DEF vars, buffers, header, signal, BlockInv, BlockCanComplete,
     BlockWidth, OwnBuffers, OwnFrames
<1> QED
  BY <1>3, <1>4, <1>5, <1>6, <1>7, <1>8, <1>9, <1>10, <1>11 DEF Next

LEMMA BlockInvariance == Spec => []BlockInv
<1>1. Init => BlockInv
  BY DEF Init, BlockInv, BlockCanComplete, OwnBuffers, OwnFrames
<1>2. TypeOK /\ TypeOK' /\ BlockInv /\ [Next]_vars => BlockInv'
  BY NextBlockInv
<1> QED BY <1>1, <1>2, TypeCorrect, PTL DEF Spec

(* A block always completes: d_words never passes the width demodulate()   *)
(* waits for, whatever header set it.                                      *)
THEOREM BlocksComplete == Spec => []BlockCanComplete
<1>1. BlockInv => BlockCanComplete
  BY DEF BlockInv
<1> QED BY <1>1, BlockInvariance, PTL

(* No word of an earlier reception is decoded with a later one.            *)
THEOREM WordsAreOwn == Spec => []OwnWords
<1>1. BlockInv => OwnWords
  BY DEF BlockInv, OwnBuffers, OwnFrames, OwnWords
<1> QED BY <1>1, BlockInvariance, PTL

(* The decoder never ends itself in deinterleave(), and where the first    *)
(* block has room for the header that is expected in it, it never reads    *)
(* words the block does not have.                                          *)
THEOREM DecoderKeepsRunning == Spec => []KeepsRunning
<1> DEFINE Room    == conf.implicit \/ HeaderBits >= HeaderWords
           Defined == Room => status # "undefined"
<1>1. Init => Defined
  BY DEF Init
<1>2. TypeOK /\ Defined /\ [Next]_vars => Defined'
  <2> SUFFICES ASSUME TypeOK, Defined, [Next]_vars, Room'
               PROVE  status' # "undefined"
    OBVIOUS
  <2>1. conf' = conf
    BY DEF Next, DetectNothing, DetectPreamble, Sync, FindSfdDownchirp,
       FindSfdUpchirp, FindSfdFail, Pause, HeaderSymbol, HeaderBlockImplicit,
       HeaderBlockExplicit, HeaderBlockTooShort, PayloadSymbol, PayloadBlock,
       PayloadEnergyDrop, vars
  <2>2. Room
    BY <2>1 DEF HeaderBits, HeaderWords
  <2>3. ~ HeaderBlockTooShort
    <3>1. HeaderBits \in Int
      BY BitsFacts
    <3>2. conf.implicit \/ ~ (HeaderBits < HeaderWords)
      BY <2>2, <3>1 DEF HeaderWords
    <3> QED BY <3>2 DEF HeaderBlockTooShort
  <2> QED
    BY <2>2, <2>3 DEF Next, DetectNothing, DetectPreamble, Sync,
       FindSfdDownchirp, FindSfdUpchirp, FindSfdFail, Pause, HeaderSymbol,
       HeaderBlockImplicit, HeaderBlockExplicit, PayloadSymbol, PayloadBlock,
       PayloadEnergyDrop, StatusAfterBlock, vars
<1>3. TypeOK /\ BlockInv /\ Defined => KeepsRunning
  BY DEF TypeOK, BlockInv, KeepsRunning
<1> QED
  <2> HIDE DEF Defined
  <2> QED BY <1>1, <1>2, <1>3, TypeCorrect, BlockInvariance, PTL DEF Spec
=============================================================================
