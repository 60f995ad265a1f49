------------------------------ MODULE LoraLink ------------------------------
(***************************************************************************)
(* A transmitter's packets and the decoder that hears them.                *)
(*                                                                         *)
(* LoraDecoder leaves what a window of samples looks like to the           *)
(* environment.  Here it is what a transmitter put there: the samples at   *)
(* the position the decoder reached say whether two windows correlate,     *)
(* where the next upchirp begins, which chirp stands at the window, and    *)
(* which header was sent.  Where a window lies across two kinds of signal, *)
(* the outcome stays open.  There is no noise and no drift.                *)
(*                                                                         *)
(* The air interface is not in the repository.  A packet is a preamble of  *)
(* upchirps, two symbols of a sync word, two downchirps and a quarter, a   *)
(* first block of eight symbols, and the blocks of the rest of the payload.*)
(***************************************************************************)
EXTENDS LoraDecoder, FiniteSets

CONSTANTS
    Transmissions,      \* what may be on the air during the stream
    PreambleSymbols     \* upchirps of a preamble

VARIABLE air            \* the transmission on the air; never changes

linkVars == <<vars, air>>

(* A transmission is the configuration the receiver was made for, and      *)
(* bursts, each from a sample of the stream on.  A burst that is not whole *)
(* ends with its preamble.                                                 *)
Burst == [begin : Nat, whole : BOOLEAN, header : Header]

-----------------------------------------------------------------------------
(* The transmitter, for the configuration c.                               *)

(* The blocks after the first, which carries the first words of the        *)
(* payload behind the header, if there is one.                             *)
BitsSent(c) == IF c.reduced_rate THEN c.sf - 2 ELSE c.sf

WordsInFirstBlock(c) == c.sf - 2 - (IF c.implicit THEN 0 ELSE HeaderWords)

BlocksSent(c, h) ==
    CeilDiv(Larger(2 * AnnouncedLength(h) - WordsInFirstBlock(c), 0),
            BitsSent(c))

DataSymbols(c, h) == 8 + BlocksSent(c, h) * (4 + h.cr)

(* Where the parts of a burst begin, counted from the burst's own begin.   *)
SyncWordAt == PreambleSymbols * SamplesPerSymbol
SfdAt      == SyncWordAt + 2 * SamplesPerSymbol
DataAt     == SfdAt + 2 * SamplesPerSymbol + SamplesPerSymbol \div 4

Duration(c, b) ==
    IF b.whole THEN DataAt + DataSymbols(c, b.header) * SamplesPerSymbol
    ELSE SyncWordAt

(* LoRa's shortest preamble has six upchirps.                              *)
ASSUME PreambleAssumption == PreambleSymbols \in Nat /\ PreambleSymbols >= 6

(* A first block that has no room for a header cannot be sent either, and  *)
(* without a header the two sides have agreed on the coding rate.  Five    *)
(* symbols of silence follow a burst: with less, the failures a preamble   *)
(* that led nowhere leaves are counted with those of the next sync word.   *)
ASSUME TransmissionsAssumption ==
    \A t \in Transmissions :
        /\ t.conf \in Configs
        /\ t.conf.sf >= 7
        /\ t.bursts \in Seq(Burst)
        /\ \A b \in 1..Len(t.bursts) :
              /\ t.bursts[b].header.cr \in 1..4
              /\ t.conf.implicit => t.bursts[b].header.cr = t.conf.cr
        /\ \A a, b \in 1..Len(t.bursts) :
              a < b => t.bursts[a].begin + Duration(t.conf, t.bursts[a])
                         + 5 * SamplesPerSymbol <= t.bursts[b].begin

Bursts == 1..Len(air.bursts)

(* The samples a burst begins and ends at.                                 *)
Begin(b) == air.bursts[b].begin
End(b)   == Begin(b) + Duration(conf, air.bursts[b])

-----------------------------------------------------------------------------
(* What stands in the window of one symbol at the decoder's position.      *)

Position == StreamLength[conf] - avail

(* The n samples from the position on lie between two samples.             *)
Within(n, from, to) == from <= Position /\ Position + n <= to

(* One of them does.                                                       *)
Touches(n, from, to) == Position < to /\ from < Position + n

Preamble(b) == Within(2 * SamplesPerSymbol, Begin(b), Begin(b) + SyncWordAt)

Silence == \A b \in Bursts : ~ Touches(SamplesPerSymbol, Begin(b), End(b))

(* A burst reaches from the window into the one behind it.                 *)
InBothWindows(b) ==
    /\ Touches(SamplesPerSymbol, Begin(b), End(b))
    /\ Position + SamplesPerSymbol < End(b)

(* The window is exactly the symbol of burst b that begins at the offset.  *)
Aligned(b, offset) == Position = Begin(b) + offset

UpchirpBegins(position) ==
    \E b \in Bursts : \E s \in 0..(PreambleSymbols - 1) :
        position = Begin(b) + s * SamplesPerSymbol

UpchirpEnds(position) == UpchirpBegins(position - SamplesPerSymbol)

DownchirpAt(b) == air.bursts[b].whole /\ Aligned(b, SfdAt)

(* Some of the window is a downchirp.                                      *)
Downchirp(b) == /\ air.bursts[b].whole
                /\ Touches(SamplesPerSymbol, Begin(b) + SfdAt,
                                             Begin(b) + DataAt)

(* A whole symbol of the burst's data.                                     *)
DataAligned(b) ==
    /\ air.bursts[b].whole
    /\ \E s \in 0..(DataSymbols(conf, air.bursts[b].header) - 1) :
          Aligned(b, DataAt + s * SamplesPerSymbol)

-----------------------------------------------------------------------------
LinkInit ==
    /\ Init
    /\ air \in Transmissions
    /\ conf = air.conf

(* Two successive windows of a preamble correlate wherever they begin; a   *)
(* window of silence correlates with nothing.                              *)
HearNothing  == DetectNothing /\ \A b \in Bursts : ~ Preamble(b)
HearPreamble == DetectPreamble /\ \E b \in Bursts : InBothWindows(b)

(* If one of the offsets tried is where an upchirp begins, it fits best.   *)
HearUpchirp ==
    /\ Sync
    /\ \/ UpchirpBegins(Position')
       \/ \A i \in 0..(SamplesPerSymbol - 1) : ~ UpchirpBegins(Position + i)

(* A window that is exactly one chirp is recognised for what it is.  One   *)
(* that is not may pass for a downchirp when it has some of one in it, and *)
(* for an upchirp when fine_sync() finds the lag that makes it one.        *)
HearSfd ==
    /\ FindSfdDownchirp
    /\ \E b \in Bursts : Downchirp(b)

HearPreambleGoOn ==
    /\ FindSfdUpchirp
    /\ UpchirpEnds(Position')
    /\ UpchirpBegins(Position) => avail' = avail - SamplesPerSymbol

HearOther ==
    /\ FindSfdFail
    /\ ~ UpchirpBegins(Position)
    /\ \A b \in Bursts : ~ DownchirpAt(b)

(* fine_sync() does not move a window that is exactly one symbol.          *)
InStep ==
    (\E b \in Bursts : DataAligned(b)) => avail' = avail - SamplesPerSymbol

HearFirstBlock == (HeaderSymbol \/ HeaderBlockImplicit) /\ InStep

(* A header read from its own symbols is the header that was sent.         *)
HearHeader ==
    /\ HeaderBlockExplicit
    /\ InStep
    /\ \A b \in Bursts :
          DataAligned(b) => d_decoded'.reads_as = {air.bursts[b].header}

(* The energy falls in silence, and not before.                            *)
HearSymbol ==
    /\ PayloadSymbol \/ PayloadBlock
    /\ InStep
    /\ conf.implicit => ~ Silence

HearEnd ==
    /\ PayloadEnergyDrop
    /\ \A b \in Bursts : ~ Within(SamplesPerSymbol, Begin(b), End(b))

LinkNext ==
    /\ \/ HearNothing
       \/ HearPreamble
       \/ HearUpchirp
       \/ HearSfd
       \/ HearPreambleGoOn
       \/ HearOther
       \/ Pause
       \/ HearFirstBlock
       \/ HearHeader
       \/ HearSymbol
       \/ HearEnd
    /\ UNCHANGED air

(* The scheduler calls work() again and again.                             *)
LinkSpec == LinkInit /\ [][LinkNext]_linkVars /\ WF_linkVars(LinkNext)

-----------------------------------------------------------------------------
(* The packets among the first b bursts.                                   *)
PacketsUpTo(b) == Cardinality({a \in 1..b : air.bursts[a].whole})

(* The bytes published for a packet: with a header what it announces,      *)
(* without one all that the blocks carried.                                *)
LengthOf(h) ==
    IF conf.implicit
    THEN (HeaderBits + BlocksSent(conf, h) * PayloadBits) \div 2
    ELSE AnnouncedLength(h)

IsFrameOf(frame, h) ==
    /\ frame.length = LengthOf(h)
    /\ ~ conf.implicit =>
          /\ frame.phdr.length = h.length
          /\ frame.phdr.has_mac_crc = h.has_mac_crc
          /\ frame.phdr.cr = h.cr

(* Whatever lost preambles, silence and packets the decoder goes through,  *)
(* the f-th frame it publishes is the f-th packet.                         *)
OnlyPackets ==
    \A f \in 1..Len(frames) : \E b \in Bursts :
        /\ air.bursts[b].whole
        /\ PacketsUpTo(b) = f
        /\ IsFrameOf(frames[f], air.bursts[b].header)

(* Each packet that was sent is delivered in the end: neither a preamble   *)
(* that led nowhere nor the symbols demanded beyond the end of the packet  *)
(* before cost it.                                                         *)
EveryPacketDelivered == <>(Len(frames) = PacketsUpTo(Len(air.bursts)))
=============================================================================
