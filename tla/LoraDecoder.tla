---------------------------- MODULE LoraDecoder ----------------------------
(***************************************************************************)
(* The receive state machine of lib/decoder_impl.cc: the block that GNU    *)
(* Radio calls with a window of samples and that publishes one message per *)
(* LoRa frame on its port "frames".                                        *)
(*                                                                         *)
(* Every action is one call of work(), with every function that call runs. *)
(* What the samples look like is the environment's choice: whether a       *)
(* window correlates, where the chirp starts, how far a symbol drifted,    *)
(* whether the energy dropped, which header the transmitter sent.          *)
(*                                                                         *)
(* The words are abstracted to where they come from.  A reception is what  *)
(* starts when DETECT finds a preamble; rx is its number.  A word of       *)
(* d_words is the reception whose symbol it was read from, and a word of   *)
(* d_demodulated the set of receptions that have a bit in it.              *)
(*                                                                         *)
(* Where a definition follows another whose name says what is wrong with   *)
(* it, that other one is a variation with a plausible mistake, used by no  *)
(* action: the properties have to tell it from the real one.               *)
(***************************************************************************)
EXTENDS Integers, Sequences

CONSTANTS
    Configs,            \* the constructor arguments the run considers
    Headers,            \* the PHY headers a transmitter may send
    SamplesPerSymbol,   \* d_samples_per_symbol
    DecimFactor,        \* d_decim_factor, samples per bin
    StreamLength        \* how many samples the source produces (the bound),
                        \* for each of Configs

(* A header as it is on the air; the field cr has three bits (loraphy.h).  *)
Header == [length : 0..255, has_mac_crc : 0..1, cr : 0..7]

(* decoder_impl(): the spreading factors it lets through, the coding rates *)
(* its users can ask for (grc/lora_decoder.block.yml).                     *)
Config == [sf : 6..13, cr : 1..4, has_mac_crc : 0..1, implicit : BOOLEAN,
           reduced_rate : BOOLEAN, enable_fine_sync : BOOLEAN]

ASSUME ConfigsAssumption == Configs \subseteq Config
ASSUME HeadersAssumption == Headers \subseteq Header

(* A symbol has at least 2^6 bins, so this asks less than the code gives.  *)
ASSUME SamplesAssumption ==
    /\ DecimFactor \in Nat \ {0}
    /\ SamplesPerSymbol \in Nat
    /\ SamplesPerSymbol >= 8 * DecimFactor
    /\ StreamLength \in [Configs -> Nat]

MAC_CRC_SIZE == 2
MAX_PWR_QUEUE_SIZE == 4
MaxWordBits == 8        \* the width deinterleave() has room for
HeaderWords == 5        \* the words of the first block that are the header

(* How many bytes prng_payload_cr56 and prng_payload_cr78 have (tables.h). *)
WhiteningBytes(cr) == IF cr <= 2 THEN 516 ELSE 518

VARIABLES
    conf,               \* what the constructor was given; never changes
    d_state,
    d_words,
    d_demodulated,
    d_phdr,             \* the header in force, and the reception it is of
    d_payload_length,
    d_payload_symbols,
    d_corr_fails,
    d_pwr_queue,        \* how many window powers the queue holds
    d_snr,              \* the reception d_snr was computed in, 0: never
    d_decoded,          \* the storage of the vector d_decoded
    rx,                 \* number of preambles detected so far
    frames,             \* what was published on the port "frames"
    avail,              \* samples of the stream not consumed yet
    status              \* "running", or how the process ended

buffers == <<d_words, d_demodulated>>
header  == <<d_phdr, d_payload_length, d_payload_symbols, d_decoded>>
signal  == <<d_corr_fails, d_pwr_queue, d_snr, rx>>
vars == <<conf, d_state, buffers, header, signal, frames, avail, status>>

(* DecoderState.  No line assigns its STOP.                                *)
States == {"DETECT", "SYNC", "FIND_SFD", "PAUSE",
           "DECODE_HEADER", "DECODE_PAYLOAD"}

-----------------------------------------------------------------------------
(* Arithmetic of the symbols.                                              *)

Larger(a, b) == IF a > b THEN a ELSE b

CeilDiv(a, b) == (a + b - 1) \div b

(* Bits a payload symbol carries, and those of a header symbol.            *)
PayloadBits == IF conf.reduced_rate THEN conf.sf - 2 ELSE conf.sf
HeaderBits  == conf.sf - 2

(* The bytes a header announces.                                           *)
AnnouncedLengthWithoutCrc(h) == h.length
AnnouncedLength(h) == h.length + MAC_CRC_SIZE * h.has_mac_crc

(* The blocks DECODE_HEADER asks for.  The code computes them in float; on *)
(* every length, spreading factor and coding rate the result is the        *)
(* rounded-up quotient of the 2 words a byte takes by the words a block    *)
(* yields.                                                                 *)
BlocksRoundedDown(len, bits) == (2 * len) \div bits
BlocksNeeded(len, bits) == CeilDiv(2 * len, bits)

(* How far fine_sync() may move the next window.                           *)
Drifts(search) == (1 - search)..(search - 1)

SymbolDrifts == IF conf.enable_fine_sync
                THEN Drifts(Larger(DecimFactor \div 4, 2))
                ELSE {0}

-----------------------------------------------------------------------------
(* The header in force before any was received is made of the              *)
(* constructor's arguments; its length is whatever the memory held.        *)
Init ==
    /\ conf \in Configs
    /\ d_state = "DETECT"
    /\ d_words = <<>>
    /\ d_demodulated = <<>>
    /\ \E h \in Headers :
          d_phdr = [length |-> h.length, has_mac_crc |-> conf.has_mac_crc,
                    cr |-> conf.cr, rx |-> 0]
    /\ d_payload_length = 0
    /\ d_payload_symbols = 0
    /\ d_corr_fails = 0
    /\ d_pwr_queue = 0
    /\ d_snr = 0
    /\ d_decoded = [reads_as |-> {}, rx |-> 0]
    /\ rx = 0
    /\ frames = <<>>
    /\ avail = StreamLength[conf]
    /\ status = "running"

(* set_output_multiple(2 * d_samples_per_symbol): the scheduler calls      *)
(* work() with at least two symbols of input, or not at all.               *)
ScheduledOnOneSymbol(state) ==
    status = "running" /\ avail >= SamplesPerSymbol /\ d_state = state

ScheduledOnThreeSymbols(state) ==
    status = "running" /\ avail >= 3 * SamplesPerSymbol /\ d_state = state

Scheduled(state) ==
    /\ status = "running"
    /\ avail >= 2 * SamplesPerSymbol
    /\ d_state = state

Consume(n) == avail' = avail - n

(* Every DETECT window adds its power to the bounded queue.                *)
PwrQueueUnbounded == d_pwr_queue + 1

PwrQueuePushed ==
    IF d_pwr_queue < MAX_PWR_QUEUE_SIZE THEN d_pwr_queue + 1 ELSE d_pwr_queue

(* determine_snr() needs a power before the last one: the noise.           *)
NoiseKnownBeforePush(powers) == powers > 2
NoiseKnown(powers) == powers >= 2

(* DETECT, two successive symbols do not correlate.                        *)
DetectNothingConsumesNothing ==
    /\ Scheduled("DETECT")
    /\ d_pwr_queue' = PwrQueuePushed
    /\ UNCHANGED <<conf, d_state, buffers, header, d_corr_fails, d_snr, rx,
                   frames, avail, status>>

DetectNothing ==
    /\ Scheduled("DETECT")
    /\ d_pwr_queue' = PwrQueuePushed
    /\ Consume(SamplesPerSymbol)
    /\ UNCHANGED <<conf, d_state, buffers, header, d_corr_fails, d_snr, rx,
                   frames, status>>

(* DETECT, they do: determine the SNR, consume no sample.                  *)
DetectPreambleKeepsFails ==
    /\ Scheduled("DETECT")
    /\ d_pwr_queue' = PwrQueuePushed
    /\ rx' = rx + 1
    /\ d_snr' = IF NoiseKnown(d_pwr_queue') THEN rx' ELSE d_snr
    /\ d_state' = "SYNC"
    /\ UNCHANGED <<conf, buffers, header, d_corr_fails, frames, avail, status>>

DetectPreamble ==
    /\ Scheduled("DETECT")
    /\ d_pwr_queue' = PwrQueuePushed
    /\ rx' = rx + 1
    /\ d_snr' = IF NoiseKnown(d_pwr_queue') THEN rx' ELSE d_snr
    /\ d_corr_fails' = 0
    /\ d_state' = "SYNC"
    /\ UNCHANGED <<conf, buffers, header, frames, avail, status>>

(* SYNC: move to the sample where an upchirp correlates best.              *)
Sync ==
    /\ Scheduled("SYNC")
    /\ \E i \in 0..(SamplesPerSymbol - 1) : Consume(i)
    /\ d_state' = "FIND_SFD"
    /\ UNCHANGED <<conf, buffers, header, signal, frames, status>>

(* FIND_SFD on a downchirp: the start of frame delimiter.                  *)
FindSfdDownchirp ==
    /\ Scheduled("FIND_SFD")
    /\ d_state' = "PAUSE"
    /\ Consume(SamplesPerSymbol)
    /\ UNCHANGED <<conf, buffers, header, signal, frames, status>>

(* After a window that was no downchirp: give up beyond four failures.     *)
GiveUpOrStay ==
    d_state' = IF d_corr_fails' > 4 THEN "DETECT" ELSE "FIND_SFD"

(* FIND_SFD on one more upchirp of the preamble: realign to it.  This call *)
(* of fine_sync() does not ask d_enable_fine_sync.                         *)
FindSfdUpchirp ==
    /\ Scheduled("FIND_SFD")
    /\ UNCHANGED d_corr_fails
    /\ GiveUpOrStay
    /\ \E lag \in Drifts(4 * DecimFactor) : Consume(SamplesPerSymbol - lag)
    /\ UNCHANGED <<conf, buffers, header, d_pwr_queue, d_snr, rx, frames,
                   status>>

(* FIND_SFD on anything else.                                              *)
FindSfdFail ==
    /\ Scheduled("FIND_SFD")
    /\ d_corr_fails' = d_corr_fails + 1
    /\ GiveUpOrStay
    /\ Consume(SamplesPerSymbol)
    /\ UNCHANGED <<conf, buffers, header, d_pwr_queue, d_snr, rx, frames,
                   status>>

(* PAUSE: skip the second downchirp and the quarter that follows it.       *)
Pause ==
    /\ Scheduled("PAUSE")
    /\ d_state' = "DECODE_HEADER"
    /\ Consume(SamplesPerSymbol + SamplesPerSymbol \div 4)
    /\ UNCHANGED <<conf, buffers, header, signal, frames, status>>

-----------------------------------------------------------------------------
(* demodulate() reads one symbol and, when that completes a block, turns   *)
(* the words of the block into one word per bit of a symbol.               *)

BlockWidth(is_first) == 4 + (IF is_first THEN 4 ELSE d_phdr.cr)

WordsRead == Append(d_words, rx)

BlockComplete(is_first) == Len(WordsRead) = BlockWidth(is_first)

(* deinterleave(): every word of the result has a bit of every word read.  *)
Deinterleaved(bits) ==
    d_demodulated \o
        [i \in 1..bits |-> {WordsRead[j] : j \in 1..Len(WordsRead)}]

(* deinterleave() ends the process on a block it has no room for.  What    *)
(* the rest of the call would then have assigned is read by no one.        *)
StatusAfterBlock == IF Len(WordsRead) > MaxWordBits THEN "exited" ELSE "running"

ConsumeSymbol == \E lag \in SymbolDrifts : Consume(SamplesPerSymbol - lag)

(* DECODE_HEADER, the first block is not complete yet.                     *)
HeaderSymbol ==
    /\ Scheduled("DECODE_HEADER")
    /\ ~ BlockComplete(TRUE)
    /\ d_words' = WordsRead
    /\ ConsumeSymbol
    /\ UNCHANGED <<conf, d_state, d_demodulated, header, signal, frames,
                   status>>

(* The first block is complete and carries no header: its words are        *)
(* payload.                                                                *)
HeaderBlockImplicit ==
    /\ Scheduled("DECODE_HEADER")
    /\ BlockComplete(TRUE)
    /\ conf.implicit
    /\ status' = StatusAfterBlock
    /\ d_words' = <<>>
    /\ d_demodulated' = Deinterleaved(HeaderBits)
    /\ d_payload_symbols' = 1
    /\ d_state' = "DECODE_PAYLOAD"
    /\ ConsumeSymbol
    /\ UNCHANGED <<conf, d_phdr, d_payload_length, d_decoded, signal, frames>>

(* hamming_decode() writes d_decoded only for the coding rates 1 to 4, and *)
(* the coding rate it asks is the one of the header in force.              *)
HammingDecodesFrom2 == d_phdr.cr \in 2..4
HammingDecodesTo3   == d_phdr.cr \in 1..3
HammingDecodes      == d_phdr.cr \in 1..4

(* decode(true): what the storage of d_decoded reads as afterwards, when   *)
(* the transmitter sent h.                                                 *)
DecodedHeader(h) == IF HammingDecodes THEN [reads_as |-> {h}, rx |-> rx]
                                      ELSE d_decoded

UnclampedCr(cr) == cr
ClampedCr(cr) == IF cr > 4 THEN 4 ELSE cr

(* The explicit header: decode it, copy it out of the storage of d_decoded *)
(* whatever the vector's size is, and ask for the symbols of its payload.  *)
(* d_decoded.clear() leaves the storage as it is.                          *)
HeaderBlockExplicit ==
    /\ Scheduled("DECODE_HEADER")
    /\ BlockComplete(TRUE)
    /\ ~ conf.implicit
    /\ HeaderBits >= HeaderWords
    /\ status' = StatusAfterBlock
    /\ d_words' = <<>>
    /\ d_demodulated' = SubSeq(Deinterleaved(HeaderBits), HeaderWords + 1,
                               Len(Deinterleaved(HeaderBits)))
    /\ \E sent \in Headers : d_decoded' = DecodedHeader(sent)
    /\ \E h \in d_decoded'.reads_as :
          /\ d_phdr' = [length |-> h.length, has_mac_crc |-> h.has_mac_crc,
                        cr |-> ClampedCr(h.cr), rx |-> d_decoded'.rx]
          /\ d_payload_length' = AnnouncedLength(h)
    /\ d_payload_symbols' =
          BlocksNeeded(d_payload_length', PayloadBits) * (4 + d_phdr'.cr)
    /\ d_state' = "DECODE_PAYLOAD"
    /\ ConsumeSymbol
    /\ UNCHANGED <<conf, signal, frames>>

(* A first block shorter than the header it should hold: deshuffle() reads *)
(* and erases words d_demodulated does not have.  What follows is          *)
(* undefined.                                                              *)
HeaderBlockTooShort ==
    /\ Scheduled("DECODE_HEADER")
    /\ BlockComplete(TRUE)
    /\ ~ conf.implicit
    /\ HeaderBits < HeaderWords
    /\ status' = "undefined"
    /\ UNCHANGED <<conf, d_state, buffers, header, signal, frames, avail>>

-----------------------------------------------------------------------------
(* decode(false): the payload's bytes overwrite the storage of d_decoded,  *)
(* unless there is none or no decoder for the coding rate.                 *)
DecodedPayload(words) ==
    IF HammingDecodes /\ words # <<>>
    THEN [reads_as |-> Headers, rx |-> rx]
    ELSE d_decoded

(* What work() leaves in d_words and d_demodulated once it published.      *)
LeftAsIs(words) == words
Cleared(words)  == <<>>

(* decode(false) and msg_lora_frame(): what was demodulated goes through   *)
(* the decoder, and len bytes of d_decoded are published behind the header.*)
Publish(words, demodulated, len) ==
    /\ d_decoded' = DecodedPayload(demodulated)
    /\ frames' = Append(frames,
                        [rx |-> rx, phdr |-> d_phdr, length |-> len,
                         words |-> demodulated, bytes_of |-> d_decoded'.rx,
                         snr_of |-> d_snr])
    /\ d_state' = "DETECT"
    /\ d_words' = Cleared(words)
    /\ d_demodulated' = Cleared(demodulated)

(* The end of DECODE_PAYLOAD: publish when no symbol is missing any more.  *)
FinishOrContinue(words, demodulated, symbols) ==
    /\ d_payload_symbols' = symbols
    /\ IF symbols <= 0
       THEN Publish(words, demodulated, d_payload_length)
       ELSE /\ d_words' = words
            /\ d_demodulated' = demodulated
            /\ UNCHANGED <<d_state, d_decoded, frames>>

(* DECODE_PAYLOAD, a symbol inside a block.                                *)
PayloadSymbol ==
    /\ Scheduled("DECODE_PAYLOAD")
    /\ ~ BlockComplete(FALSE)
    /\ FinishOrContinue(WordsRead, d_demodulated, d_payload_symbols)
    /\ ConsumeSymbol
    /\ UNCHANGED <<conf, d_phdr, d_payload_length, signal, status>>

(* Without a header the number of symbols is not known and stays 1.        *)
SymbolsLeftLessOne == IF conf.implicit THEN d_payload_symbols
                                       ELSE d_payload_symbols - 1
SymbolsLeft == IF conf.implicit THEN d_payload_symbols
                                ELSE d_payload_symbols - (4 + d_phdr.cr)

(* DECODE_PAYLOAD, the symbol that completes a block.                      *)
PayloadBlock ==
    /\ Scheduled("DECODE_PAYLOAD")
    /\ BlockComplete(FALSE)
    /\ status' = StatusAfterBlock
    /\ FinishOrContinue(<<>>, Deinterleaved(PayloadBits),
                        SymbolsLeft)
    /\ ConsumeSymbol
    /\ UNCHANGED <<conf, d_phdr, d_payload_length, signal>>

(* The bytes of a payload without a header: two words each.                *)
ImplicitLengthRoundedUp == (Len(d_demodulated) + 1) \div 2
ImplicitLength == Len(d_demodulated) \div 2

(* DECODE_PAYLOAD without a header, when the energy fell: the payload is   *)
(* what was received so far.  Nothing is demodulated, so the drift is 0.   *)
PayloadEnergyDrop ==
    /\ Scheduled("DECODE_PAYLOAD")
    /\ conf.implicit
    /\ d_payload_symbols' = 0
    /\ d_payload_length' = ImplicitLength
    /\ Publish(d_words, d_demodulated, d_payload_length')
    /\ Consume(SamplesPerSymbol)
    /\ UNCHANGED <<conf, d_phdr, signal, status>>

-----------------------------------------------------------------------------
Next == \/ DetectNothing
        \/ DetectPreamble
        \/ Sync
        \/ FindSfdDownchirp
        \/ FindSfdUpchirp
        \/ FindSfdFail
        \/ Pause
        \/ HeaderSymbol
        \/ HeaderBlockImplicit
        \/ HeaderBlockExplicit
        \/ HeaderBlockTooShort
        \/ PayloadSymbol
        \/ PayloadBlock
        \/ PayloadEnergyDrop

Spec == Init /\ [][Next]_vars

(* GNU Radio's scheduler keeps calling work() while the block has the      *)
(* input it asks for.  It promises nothing about which branch is taken.    *)
FairSpec == Spec /\ WF_vars(Next)

-----------------------------------------------------------------------------
Reception == [rx : Nat, phdr : [length : 0..255, has_mac_crc : 0..1,
                                cr : 0..4, rx : Nat],
              length : Nat, words : Seq(SUBSET Nat), bytes_of : Nat,
              snr_of : Nat]

(* The values the decoder's fields (decoder_impl.h) range over.            *)
TypeOK ==
    /\ conf \in Configs
    /\ d_state \in States
    /\ d_words \in Seq(Nat)
    /\ d_demodulated \in Seq(SUBSET Nat)
    /\ d_phdr \in [length : 0..255, has_mac_crc : 0..1, cr : 0..4, rx : Nat]
    /\ d_payload_length \in Nat
    /\ d_payload_symbols \in Int
    /\ d_corr_fails \in 0..5
    /\ d_pwr_queue \in 0..MAX_PWR_QUEUE_SIZE
    /\ d_snr \in Nat
    /\ d_decoded \in [reads_as : SUBSET Headers, rx : Nat]
    /\ rx \in Nat
    /\ frames \in Seq(Reception)
    /\ avail \in Int
    /\ status \in {"running", "exited", "undefined"}

(* demodulate() waits for d_words to reach exactly the width of the block, *)
(* a width that changes with the state and with the header: should         *)
(* d_words ever hold that many words or more, the block would never end.   *)
(* Outside a block nothing may be left in d_words.                         *)
BlockCanComplete ==
    CASE d_state = "DECODE_HEADER"  -> Len(d_words) < BlockWidth(TRUE)
      [] d_state = "DECODE_PAYLOAD" -> Len(d_words) < BlockWidth(FALSE)
      [] OTHER                      -> d_words = <<>>

(* "Not sure if this can ever occur" (deinterleave): it cannot.  Whatever  *)
(* headers arrive, the process neither ends itself nor reads a word that   *)
(* is not there, unless its first block is too short for a header.         *)
KeepsRunning ==
    conf.implicit \/ HeaderBits >= HeaderWords => status = "running"

(* The constructor's message: "Spreading factor should be between 6 and 12 *)
(* (inclusive)".  With any of them the decoder reads only what it has.     *)
SupportedSpreadingFactor == conf.sf \in 6..12 => status # "undefined"

(* Words of a reception that was given up or finished never reach a later  *)
(* one, neither while it is decoded nor in the frame it publishes.         *)
OwnWords ==
    /\ \A i \in 1..Len(d_words) : d_words[i] = rx
    /\ \A i \in 1..Len(d_demodulated) : d_demodulated[i] = {rx}
    /\ \A f \in 1..Len(frames) : \A i \in 1..Len(frames[f].words) :
          frames[f].words[i] = {frames[f].rx}

(* A payload is decoded with the header of its own reception.              *)
HeaderIsOwn ==
    d_state = "DECODE_PAYLOAD" /\ ~ conf.implicit => d_phdr.rx = rx

(* The bytes msg_lora_frame() copies out of d_decoded were all decoded     *)
(* from this reception: each takes two words.                              *)
FrameComplete ==
    \A f \in 1..Len(frames) :
        /\ 2 * frames[f].length <= Len(frames[f].words)
        /\ frames[f].length > 0 => frames[f].bytes_of = frames[f].rx

(* A frame whose header announces a checksum has the bytes of one: the     *)
(* socket sink subtracts them from the length, unsigned.  With a header    *)
(* they come from the announced length, without one from the four words    *)
(* the first block has at least.                                           *)
MacFits ==
    \A f \in 1..Len(frames) :
        frames[f].length >= MAC_CRC_SIZE * frames[f].phdr.has_mac_crc

(* decoder_impl.h says of dewhiten(): "Dewhiten the deshuffled words by    *)
(* XORing with the whitening sequence."  Each word of a frame has its byte *)
(* of the sequence, those included that came beyond the payload's end.     *)
WhiteningCovers ==
    ~ conf.implicit =>
        \A f \in 1..Len(frames) :
            Len(frames[f].words) <= WhiteningBytes(frames[f].phdr.cr)

(* The SNR a frame reports was computed for its own preamble.  Only the    *)
(* very first window of the stream, which has no window before it to take  *)
(* the noise from, leads to a frame whose SNR was never computed.          *)
SnrIsOwn ==
    \A f \in 1..Len(frames) :
        \/ frames[f].snr_of = frames[f].rx
        \/ frames[f].snr_of = 0 /\ frames[f].rx = 1

(* work() never consumes more samples than it was given.                   *)
NeverOverConsumes == avail >= 0

(* The count that links the words received to the symbols still wanted: a  *)
(* block takes 4 + cr symbols and brings PayloadBits words, on top of the  *)
(* words the header's block brought beyond the header.                     *)
SymbolCount ==
    d_state = "DECODE_PAYLOAD" /\ ~ conf.implicit =>
        /\ d_payload_length = d_phdr.length + MAC_CRC_SIZE * d_phdr.has_mac_crc
        /\ \E blocks \in 0..BlocksNeeded(d_payload_length, PayloadBits) :
              /\ d_payload_symbols = blocks * (4 + d_phdr.cr)
              /\ Len(d_demodulated) =
                    (conf.sf - 7) +
                    PayloadBits * (BlocksNeeded(d_payload_length, PayloadBits)
                                     - blocks)

(* The symbols a payload needs: its first words came with the header.      *)
(* decoder_impl.h calls d_payload_symbols "the number of symbols needed to *)
(* decode the payload".                                                    *)
AsksOnlyWhatIsNeeded ==
    d_state = "DECODE_PAYLOAD" /\ ~ conf.implicit =>
        d_payload_symbols <=
            (4 + d_phdr.cr) *
              CeilDiv(Larger(2 * d_payload_length - (conf.sf - 7), 0),
                      PayloadBits)

(* work() returns 0 whatever happens: only what it consumes, or a state    *)
(* that will, keeps the scheduler from calling it on the same samples for  *)
(* ever.  A call that consumes nothing moves towards the search for the    *)
(* SFD, where every call consumes.                                         *)
Rank(state) == CASE state = "DETECT" -> 0 [] state = "SYNC" -> 1 [] OTHER -> 2

MovesOn ==
    [][ \/ avail' < avail
        \/ avail' = avail /\ Rank(d_state') > Rank(d_state)
        \/ status' # "running" ]_vars

(* The source's samples are all consumed in the end, but for less than the *)
(* two symbols work() asks for.                                            *)
StreamIsConsumed == <>(avail < 2 * SamplesPerSymbol \/ status # "running")

-----------------------------------------------------------------------------
(* The decoder implements the receiver its users rely on.  Without a       *)
(* header the constructor's arguments stand for it.                        *)
Phase == CASE d_state = "DETECT"              -> "listening"
           [] d_state \in {"SYNC", "FIND_SFD"} -> "acquired"
           [] OTHER                           -> "locked"

Delivered ==
    [f \in 1..Len(frames) |->
        [header  |-> IF conf.implicit THEN frames[f].rx ELSE frames[f].phdr.rx,
         payload |-> frames[f].bytes_of]]

Receiver == INSTANCE FrameReceiver
                WITH phase <- Phase, reception <- rx, delivered <- Delivered

(* Every behaviour of the decoder is one of the receiver.                  *)
ImplementsReceiver == Receiver!Spec
=============================================================================
