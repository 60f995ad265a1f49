--------------------------- MODULE LoraLinkProofs ---------------------------
(***************************************************************************)
(* The frames the decoder publishes are the packets that were sent, in     *)
(* their order, for all transmissions whose bursts have five symbols of    *)
(* silence between them, all symbol lengths and all preambles of at least  *)
(* six upchirps.                                                           *)
(*                                                                         *)
(* The invariant says where the decoder stands: at which burst, and for    *)
(* each state of work() where in it.  What it can hear there, and so which *)
(* branches of work() are open, follows from the distances.                *)
(***************************************************************************)
EXTENDS LoraLink, LoraDecoderProofs, FiniteSetTheorems

(* The samples of k symbols.                                               *)
Symbols(k) == k * SamplesPerSymbol

HeaderOf(b) == air.bursts[b].header
DataOf(b)   == DataSymbols(conf, HeaderOf(b))

(* The bursts before b are over, and their packets were published.         *)
Passed(b) ==
    /\ Len(frames) = PacketsUpTo(b - 1)
    /\ \A a \in 1..(b - 1) : End(a) <= Position

(* DETECT: two windows of the next preamble are still to come.             *)
Listening(b) ==
    b \in Bursts =>
        Position <= Begin(b) + SyncWordAt - 2 * SamplesPerSymbol

(* SYNC: one of its upchirps begins within a symbol.                       *)
Heard(b) ==
    /\ b \in Bursts
    /\ Begin(b) < Position + SamplesPerSymbol
    /\ Position <= Begin(b) + SyncWordAt - 2 * SamplesPerSymbol
    /\ d_corr_fails = 0

OnUpchirp(b, position) ==
    \E s \in 0..(PreambleSymbols - 1) : position = Begin(b) + Symbols(s)

(* FIND_SFD: on an upchirp, or as many symbols behind the preamble as      *)
(* failed: the sync word's, or those of the silence after a preamble that  *)
(* led nowhere.                                                            *)
Searching(b) ==
    /\ b \in Bursts
    /\ \/ OnUpchirp(b, Position) /\ d_corr_fails = 0
       \/ /\ Position = Begin(b) + SyncWordAt + Symbols(d_corr_fails)
          /\ d_corr_fails <= IF air.bursts[b].whole THEN 2 ELSE 4

InPacket(b) == b \in Bursts /\ air.bursts[b].whole

(* PAUSE: on the second downchirp.                                         *)
Pausing(b) ==
    /\ InPacket(b)
    /\ Position = Begin(b) + SfdAt + SamplesPerSymbol

(* Where the decoder stands when it read n symbols of the data.  When it   *)
(* reads on behind the last, fine_sync() may move the window by an eighth  *)
(* of a symbol each time.                                                  *)
InData(b, n) ==
    IF n <= DataOf(b)
    THEN Position = Begin(b) + DataAt + Symbols(n)
    ELSE /\ End(b) <= Position
         /\ 8 * Position <= 8 * End(b) + 9 * Symbols(n - DataOf(b))

InFirstBlock(b) == InPacket(b) /\ InData(b, Len(d_words))

BlockSymbols == 4 + d_phdr.cr
Sent(b)      == BlocksSent(conf, HeaderOf(b))
Wanted(b)    == BlocksNeeded(AnnouncedLength(HeaderOf(b)), PayloadBits)

(* DECODE_PAYLOAD: j blocks were received behind the first.                *)
ImplicitCount(b, j) ==
    /\ j <= Sent(b)
    /\ j = Sent(b) => d_words = <<>>
    /\ d_payload_symbols = 1
    /\ Len(d_demodulated) = HeaderBits + j * PayloadBits

ExplicitCount(b, j) ==
    /\ d_phdr.length = HeaderOf(b).length
    /\ d_phdr.has_mac_crc = HeaderOf(b).has_mac_crc
    /\ d_payload_length = AnnouncedLength(HeaderOf(b))
    /\ j <= Wanted(b)
    /\ j = Wanted(b) => j = 0 /\ d_words = <<>>
    /\ d_payload_symbols = (Wanted(b) - j) * BlockSymbols

InPayload(b, j) ==
    /\ InPacket(b)
    /\ d_phdr.cr = HeaderOf(b).cr
    /\ InData(b, 8 + j * BlockSymbols + Len(d_words))
    /\ IF conf.implicit THEN ImplicitCount(b, j) ELSE ExplicitCount(b, j)

Place(b) ==
    /\ d_state = "DETECT"         => Listening(b)
    /\ d_state = "SYNC"           => Heard(b)
    /\ d_state = "FIND_SFD"       => Searching(b)
    /\ d_state = "PAUSE"          => Pausing(b)
    /\ d_state = "DECODE_HEADER"  => InFirstBlock(b)
    /\ d_state = "DECODE_PAYLOAD" => \E j \in Nat : InPayload(b, j)

(* The burst the decoder is at, or else comes to next.                     *)
At(b) == Passed(b) /\ Place(b)

Linked == air \in Transmissions /\ conf = air.conf

CodingRate ==
    /\ d_phdr.cr \in 1..4
    /\ conf.implicit => d_phdr.cr = conf.cr

(* The decoder is at one burst, or behind the last, and every frame so far *)
(* is a packet.                                                            *)
LinkInv ==
    /\ Linked
    /\ CodingRate
    /\ OnlyPackets
    /\ \E b \in 1..(Len(air.bursts) + 1) : At(b)

-----------------------------------------------------------------------------
(* Distances.                                                              *)

LEMMA SymbolFacts ==
    /\ SamplesPerSymbol \in Nat /\ SamplesPerSymbol >= 8
    /\ SamplesPerSymbol \div 4 \in 0..SamplesPerSymbol
<1>1. SamplesPerSymbol \in Nat /\ SamplesPerSymbol >= 8
  BY SamplesAssumption
<1> QED BY <1>1

LEMMA SymbolsAdd ==
    ASSUME NEW j \in Int, NEW k \in Int
    PROVE  /\ Symbols(j) \in Int
           /\ Symbols(j + k) = Symbols(j) + Symbols(k)
BY SymbolFacts DEF Symbols

LEMMA OneSymbolMore ==
    ASSUME NEW k \in Int
    PROVE  /\ Symbols(k) \in Int
           /\ Symbols(k + 1) = Symbols(k) + SamplesPerSymbol
           /\ Symbols(k - 1) = Symbols(k) - SamplesPerSymbol
BY SymbolFacts DEF Symbols

LEMMA FewSymbols ==
    /\ Symbols(0) = 0
    /\ Symbols(1) = SamplesPerSymbol
    /\ Symbols(2) = 2 * SamplesPerSymbol
    /\ Symbols(3) = 3 * SamplesPerSymbol
    /\ Symbols(4) = 4 * SamplesPerSymbol
    /\ Symbols(5) = 5 * SamplesPerSymbol
    /\ Symbols(6) = 6 * SamplesPerSymbol
    /\ Symbols(8) = 8 * SamplesPerSymbol
BY SymbolFacts DEF Symbols

LEMMA SymbolsInOrder ==
    ASSUME NEW j \in Int, NEW k \in Int, j <= k
    PROVE  Symbols(j) <= Symbols(k)
<1>1. k - j \in Nat /\ SamplesPerSymbol \in Nat
  BY SymbolFacts
<1>2. (k - j) * SamplesPerSymbol >= 0
  BY <1>1
<1>3. k * SamplesPerSymbol = j * SamplesPerSymbol + (k - j) * SamplesPerSymbol
  BY <1>1
<1> QED BY <1>1, <1>2, <1>3 DEF Symbols

LEMMA PreambleLength ==
    /\ SyncWordAt = Symbols(PreambleSymbols)
    /\ SyncWordAt \in Nat
    /\ SyncWordAt >= 6 * SamplesPerSymbol
<1>1. SyncWordAt = Symbols(PreambleSymbols) /\ PreambleSymbols \in Int
  BY PreambleAssumption DEF SyncWordAt, Symbols
<1>2. Symbols(6) <= Symbols(PreambleSymbols) /\ Symbols(PreambleSymbols) \in Int
  BY <1>1, PreambleAssumption, SymbolsInOrder, SymbolsAdd
<1> QED BY <1>1, <1>2, FewSymbols, SymbolFacts

LEMMA Parts ==
    /\ SyncWordAt \in Nat /\ SyncWordAt >= 6 * SamplesPerSymbol
    /\ SfdAt = SyncWordAt + 2 * SamplesPerSymbol
    /\ DataAt \in Nat /\ DataAt >= SyncWordAt
<1>1. SyncWordAt \in Nat /\ SyncWordAt >= 6 * SamplesPerSymbol
  BY PreambleLength
<1> QED BY <1>1, SymbolFacts DEF SfdAt, DataAt

(* The upchirps of a preamble.                                             *)
LEMMA Upchirps ==
    ASSUME NEW s \in 0..(PreambleSymbols - 1)
    PROVE  /\ Symbols(s) \in Nat
           /\ Symbols(s) <= SyncWordAt - SamplesPerSymbol
           /\ Symbols(s + 1) = Symbols(s) + SamplesPerSymbol
<1>1. s \in Int /\ PreambleSymbols \in Int /\ 0 <= s /\ s <= PreambleSymbols - 1
      /\ PreambleSymbols - 1 \in Int /\ 0 \in Int
  BY PreambleAssumption
<1>2. Symbols(0) <= Symbols(s) /\ Symbols(s) <= Symbols(PreambleSymbols - 1)
  BY <1>1, SymbolsInOrder
<1> QED BY <1>1, <1>2, OneSymbolMore, FewSymbols, PreambleLength, SymbolFacts

-----------------------------------------------------------------------------
(* The transmission.                                                       *)

LEMMA BurstFacts ==
    ASSUME TypeOK, Linked
    PROVE  /\ conf \in Config /\ conf.sf >= 7
           /\ Len(air.bursts) \in Nat
           /\ \A b \in Bursts :
                 /\ b \in Int /\ b >= 1
                 /\ Begin(b) \in Nat
                 /\ air.bursts[b].whole \in BOOLEAN
                 /\ HeaderOf(b) \in Header
                 /\ HeaderOf(b).cr \in 1..4
                 /\ conf.implicit => HeaderOf(b).cr = conf.cr
<1>1. conf \in Config
  BY ConfigsAssumption DEF TypeOK
<1>2. /\ air \in Transmissions /\ conf = air.conf
      /\ conf.sf >= 7
      /\ air.bursts \in Seq(Burst)
      /\ \A b \in Bursts :
            /\ air.bursts[b].header.cr \in 1..4
            /\ conf.implicit => air.bursts[b].header.cr = conf.cr
  BY TransmissionsAssumption DEF Linked, Bursts
<1>3. Len(air.bursts) \in Nat /\ \A b \in Bursts : air.bursts[b] \in Burst
  BY <1>2 DEF Bursts
<1>4. \A b \in Bursts : b \in Int /\ b >= 1
  BY <1>3 DEF Bursts
<1>5. \A b \in Bursts : /\ air.bursts[b].begin \in Nat
                        /\ air.bursts[b].whole \in BOOLEAN
                        /\ air.bursts[b].header \in Header
  BY <1>3 DEF Burst
<1> QED BY <1>1, <1>2, <1>3, <1>4, <1>5 DEF Begin, HeaderOf

(* The blocks that follow the first.                                       *)
LEMMA BlockFacts ==
    ASSUME TypeOK, Linked, NEW b \in Bursts
    PROVE  /\ Sent(b) \in Nat
           /\ DataOf(b) = 8 + Sent(b) * (4 + HeaderOf(b).cr)
           /\ DataOf(b) \in Nat /\ DataOf(b) >= 8
<1>1. /\ conf \in Config /\ conf.sf >= 7
      /\ HeaderOf(b) \in Header /\ HeaderOf(b).cr \in 1..4
  BY BurstFacts
<1>2. AnnouncedLength(HeaderOf(b)) \in Nat
  BY <1>1 DEF AnnouncedLength, Header, MAC_CRC_SIZE
<1>3. BitsSent(conf) \in 4..13 /\ WordsInFirstBlock(conf) \in Int
  BY <1>1 DEF Config, BitsSent, WordsInFirstBlock, HeaderWords
<1>4. Larger(2 * AnnouncedLength(HeaderOf(b)) - WordsInFirstBlock(conf), 0)
         \in Nat
  BY <1>2, <1>3 DEF Larger
<1>5. Sent(b) \in Nat
  BY <1>3, <1>4, CeilDivCovers DEF Sent, BlocksSent
<1>6. DataOf(b) = 8 + Sent(b) * (4 + HeaderOf(b).cr)
  BY DEF DataOf, DataSymbols, Sent
<1>7. Sent(b) * (4 + HeaderOf(b).cr) \in Nat
  BY <1>1, <1>5
<1> QED BY <1>5, <1>6, <1>7

LEMMA EndFacts ==
    ASSUME TypeOK, Linked, NEW b \in Bursts
    PROVE  /\ End(b) \in Nat
           /\ Begin(b) + SyncWordAt <= End(b)
           /\ ~ air.bursts[b].whole => End(b) = Begin(b) + SyncWordAt
           /\ air.bursts[b].whole =>
                 /\ End(b) = Begin(b) + DataAt + Symbols(DataOf(b))
                 /\ Begin(b) + DataAt <= End(b)
<1>1. Begin(b) \in Nat /\ air.bursts[b].whole \in BOOLEAN
  BY BurstFacts
<1>2. CASE ~ air.bursts[b].whole
  <2>1. End(b) = Begin(b) + SyncWordAt
    BY <1>2 DEF End, Duration
  <2> QED BY <2>1, <1>1, <1>2, Parts
<1>3. CASE air.bursts[b].whole
  <2>1. End(b) = Begin(b) + (DataAt + Symbols(DataOf(b)))
    BY <1>3 DEF End, Duration, Symbols, DataOf, HeaderOf
  <2>2. DataOf(b) \in Nat /\ 0 \in Int
    BY BlockFacts
  <2>3. Symbols(0) = 0 /\ Symbols(DataOf(b)) \in Int
        /\ Symbols(0) <= Symbols(DataOf(b))
    BY <2>2, FewSymbols, SymbolsAdd, SymbolsInOrder
  <2> QED BY <2>1, <2>3, <1>1, <1>3, Parts, SymbolFacts
<1> QED BY <1>1, <1>2, <1>3

LEMMA Spacing ==
    ASSUME TypeOK, Linked, NEW a \in Bursts, NEW b \in Bursts, a < b
    PROVE  End(a) + 5 * SamplesPerSymbol <= Begin(b)
BY TransmissionsAssumption DEF Linked, Bursts, End, Begin

(* The packets among the bursts, one by one.                               *)
LEMMA PacketsFacts ==
    ASSUME NEW b \in Nat
    PROVE  PacketsUpTo(b) \in Nat
<1>1. IsFiniteSet(1..b)
  BY FS_Interval
<1>2. {a \in 1..b : air.bursts[a].whole} \in SUBSET (1..b)
  OBVIOUS
<1>3. IsFiniteSet({a \in 1..b : air.bursts[a].whole})
  BY <1>1, <1>2, FS_Subset
<1> QED BY <1>3, FS_CardinalityType DEF PacketsUpTo

LEMMA OnePacketMore ==
    ASSUME NEW b \in Nat, b >= 1, air.bursts[b].whole \in BOOLEAN
    PROVE  PacketsUpTo(b) = IF air.bursts[b].whole THEN PacketsUpTo(b - 1) + 1
                                                   ELSE PacketsUpTo(b - 1)
<1> DEFINE packets(n) == {a \in 1..n : air.bursts[a].whole}
<1>1. IsFiniteSet(packets(b - 1))
  <2>1. IsFiniteSet(1..(b - 1))
    BY FS_Interval
  <2>2. packets(b - 1) \in SUBSET (1..(b - 1))
    OBVIOUS
  <2> QED BY <2>1, <2>2, FS_Subset
<1>2. b \notin packets(b - 1)
  OBVIOUS
<1>3. packets(b) = IF air.bursts[b].whole THEN packets(b - 1) \cup {b}
                                          ELSE packets(b - 1)
  <2>1. 1..b = (1..(b - 1)) \cup {b}
    OBVIOUS
  <2> QED BY <2>1
<1> HIDE DEF packets
<1>4. Cardinality(packets(b - 1) \cup {b}) = Cardinality(packets(b - 1)) + 1
  BY <1>1, <1>2, FS_AddElement
<1>5. /\ PacketsUpTo(b) = Cardinality(packets(b))
      /\ PacketsUpTo(b - 1) = Cardinality(packets(b - 1))
  BY DEF PacketsUpTo, packets
<1> QED BY <1>3, <1>4, <1>5

-----------------------------------------------------------------------------
(* The decoder's position in the transmission.                             *)

LEMMA PositionMoves ==
    ASSUME TypeOK, TypeOK', conf' = conf, NEW n \in Int, avail' = avail - n
    PROVE  Position \in Int /\ Position' \in Int /\ Position' = Position + n
<1>1. StreamLength[conf] \in Nat /\ avail \in Int
  BY SamplesAssumption DEF TypeOK
<1> QED BY <1>1 DEF Position

LEMMA PositionType ==
    ASSUME TypeOK
    PROVE  Position \in Int
BY SamplesAssumption DEF TypeOK, Position

(* Neither what is on the air nor the configuration changes.               *)
Settled == UNCHANGED <<air, conf>>

LEMMA Stays ==
    ASSUME Settled, NEW b
    PROVE  /\ Bursts' = Bursts
           /\ air' = air /\ conf' = conf
           /\ Begin(b)' = Begin(b)
           /\ End(b)' = End(b)
           /\ HeaderOf(b)' = HeaderOf(b)
           /\ DataOf(b)' = DataOf(b)
           /\ Sent(b)' = Sent(b)
           /\ Wanted(b)' = Wanted(b)
           /\ PacketsUpTo(b)' = PacketsUpTo(b)
<1>1. air' = air /\ conf' = conf
  BY DEF Settled
<1>2. Begin(b)' = Begin(b) /\ HeaderOf(b)' = HeaderOf(b) /\ Bursts' = Bursts
  BY <1>1 DEF Begin, HeaderOf, Bursts
<1>3. End(b)' = End(b)
  BY <1>1, <1>2 DEF End
<1>4. DataOf(b)' = DataOf(b) /\ Sent(b)' = Sent(b)
  BY <1>1, <1>2 DEF DataOf, Sent
<1>5. PayloadBits' = PayloadBits
  BY <1>1 DEF PayloadBits
<1>6. Wanted(b)' = Wanted(b)
  BY <1>2, <1>5 DEF Wanted
<1>7. PacketsUpTo(b)' = PacketsUpTo(b)
  BY <1>1 DEF PacketsUpTo
<1> QED BY <1>1, <1>2, <1>3, <1>4, <1>6, <1>7

(* Where the decoder is at burst b, the bursts before it are over.         *)
LEMMA BurstsBefore ==
    ASSUME TypeOK, Linked, NEW b \in 1..(Len(air.bursts) + 1), Passed(b),
           NEW a \in Bursts, End(a) > Position
    PROVE  a >= b
<1>1. Len(air.bursts) \in Nat /\ a \in Int /\ a >= 1
  BY BurstFacts
<1>2. Position \in Int /\ End(a) \in Nat
  BY PositionType, EndFacts
<1>3. CASE a < b
  <2>1. a \in 1..(b - 1)
    BY <1>1, <1>3
  <2> QED BY <2>1, <1>2 DEF Passed
<1> QED BY <1>1, <1>3

LEMMA PassedKept ==
    ASSUME TypeOK, TypeOK', Linked, Settled, frames' = frames,
           Position <= Position', NEW b \in 1..(Len(air.bursts) + 1), Passed(b)
    PROVE  Passed(b)'
<1>1. Position \in Int /\ Position' \in Int
  <2>1. /\ StreamLength[conf] \in Nat /\ avail \in Int
        /\ conf' = conf /\ avail' \in Int
    BY SamplesAssumption DEF TypeOK, Settled
  <2> QED BY <2>1 DEF Position
<1>2. PacketsUpTo(b - 1)' = PacketsUpTo(b - 1)
  BY Stays
<1>3. ASSUME NEW a \in 1..(b - 1)
      PROVE  End(a)' <= Position'
  <2>1. a \in Bursts
    BY BurstFacts DEF Bursts
  <2>2. End(a) \in Nat /\ End(a)' = End(a) /\ End(a) <= Position
    BY <2>1, EndFacts, Stays DEF Passed
  <2> QED BY <2>2, <1>1
<1> QED BY <1>2, <1>3 DEF Passed

(* The burst is over, and the next has not begun.                          *)
LEMMA PassedToNext ==
    ASSUME TypeOK, TypeOK', Linked, Settled, NEW b \in Bursts, Passed(b),
           NEW next, next = b + 1,
           Position' \in Int,
           Len(frames') = PacketsUpTo(b),
           Position <= Position', End(b) <= Position',
           Position' <= End(b) + 9 * SamplesPerSymbol
    PROVE  /\ Passed(next)' /\ Listening(next)'
           /\ next \in 1..(Len(air.bursts) + 1)
<1>1. Position \in Int /\ Position' \in Int
  BY PositionType
<1>2. /\ Len(air.bursts) \in Nat /\ b \in Int /\ b >= 1
      /\ b <= Len(air.bursts)
  BY BurstFacts DEF Bursts
<1>3. next - 1 = b /\ PacketsUpTo(b)' = PacketsUpTo(b)
  BY <1>2, Stays
<1>4. ASSUME NEW a \in 1..b
      PROVE  End(a)' <= Position'
  <2>1. a \in Bursts
    BY <1>2 DEF Bursts
  <2>2. End(a) \in Nat /\ End(a)' = End(a)
    BY <2>1, EndFacts, Stays
  <2>3. CASE a = b
    BY <2>3, <2>2
  <2>4. CASE a # b
    <3>1. a \in 1..(b - 1)
      BY <2>4, <1>2
    <3>2. End(a) <= Position
      BY <3>1 DEF Passed
    <3> QED BY <3>2, <2>2, <1>1
  <2> QED BY <2>3, <2>4
<1>5. Passed(next)'
  <2>1. Len(frames)' = PacketsUpTo(next - 1)'
    BY <1>3
  <2>2. \A a \in 1..(next - 1) : End(a)' <= Position'
    BY <1>3, <1>4
  <2> QED BY <2>1, <2>2 DEF Passed
<1>6. ASSUME next \in Bursts
      PROVE  Position' <= Begin(next) + SyncWordAt - 2 * SamplesPerSymbol
  <2>1. End(b) + 5 * SamplesPerSymbol <= Begin(next)
    BY <1>2, <1>6, Spacing
  <2>2. Begin(next) \in Nat /\ End(b) \in Nat
    BY <1>6, BurstFacts, EndFacts
  <2>3. Position' <= End(b) + 9 * SamplesPerSymbol
    OBVIOUS
  <2>4. SyncWordAt \in Nat /\ SyncWordAt >= 6 * SamplesPerSymbol
    BY Parts
  <2> QED BY <2>1, <2>2, <2>3, <2>4, <1>1, SymbolFacts
<1>7. Listening(next)'
  BY <1>6, Stays, Parts, SymbolFacts DEF Listening
<1> QED BY <1>2, <1>5, <1>7

(* An upchirp that begins near the position is one of burst b.             *)
LEMMA UpchirpIsOwn ==
    ASSUME TypeOK, Linked, NEW b \in Bursts, Passed(b), NEW position \in Int,
           Position - SamplesPerSymbol < position,
           position < End(b) + 5 * SamplesPerSymbol,
           UpchirpBegins(position)
    PROVE  OnUpchirp(b, position)
<1>1. PICK a \in Bursts, s \in 0..(PreambleSymbols - 1) :
         position = Begin(a) + s * SamplesPerSymbol
  BY DEF UpchirpBegins
<1>2. position = Begin(a) + Symbols(s)
  BY <1>1 DEF Symbols
<1>3. Symbols(s) \in Nat /\ Symbols(s) <= SyncWordAt - SamplesPerSymbol
  BY Upchirps
<1>4. /\ Begin(a) \in Nat /\ Begin(b) \in Nat
      /\ a \in Int /\ b \in Int /\ Len(air.bursts) \in Nat
  BY BurstFacts
<1>5. /\ End(a) \in Nat /\ Begin(a) + SyncWordAt <= End(a)
      /\ End(b) \in Nat
  BY EndFacts
<1>6. Position \in Int /\ SamplesPerSymbol \in Nat /\ SyncWordAt \in Nat
  BY PositionType, SymbolFacts, Parts
<1>7. End(a) > Position
  BY <1>2, <1>3, <1>4, <1>5, <1>6
<1>8. a >= b
  <2>1. b \in 1..(Len(air.bursts) + 1)
    BY <1>4 DEF Bursts
  <2> QED BY <2>1, <1>7, BurstsBefore
<1>9. CASE a > b
  <2>1. End(b) + 5 * SamplesPerSymbol <= Begin(a)
    BY <1>9, Spacing
  <2> QED BY <2>1, <1>2, <1>3, <1>4, <1>5, <1>6
<1>10. CASE a = b
  BY <1>2, <1>10 DEF OnUpchirp
<1> QED BY <1>4, <1>8, <1>9, <1>10

LEMMA UpchirpBeginsThere ==
    ASSUME NEW b \in Bursts, NEW position, OnUpchirp(b, position)
    PROVE  UpchirpBegins(position)
BY DEF OnUpchirp, UpchirpBegins, Symbols

(* Within a symbol of any sample of a preamble, but for its last symbol,   *)
(* an upchirp begins.                                                      *)
LEMMA UpchirpIsNear ==
    ASSUME TypeOK, Linked, NEW b \in Bursts, Heard(b)
    PROVE  \E i \in 0..(SamplesPerSymbol - 1) : OnUpchirp(b, Position + i)
<1>1. /\ Position \in Int /\ Begin(b) \in Nat
      /\ SamplesPerSymbol \in Nat /\ SamplesPerSymbol >= 8
      /\ PreambleSymbols \in Nat /\ PreambleSymbols >= 6
      /\ SyncWordAt \in Nat
  BY PositionType, BurstFacts, SymbolFacts, PreambleAssumption, Parts
<1>2. /\ Begin(b) < Position + SamplesPerSymbol
      /\ Position <= Begin(b) + SyncWordAt - 2 * SamplesPerSymbol
  BY DEF Heard
<1>3. CASE Position <= Begin(b)
  <2>1. Begin(b) - Position \in 0..(SamplesPerSymbol - 1)
    BY <1>1, <1>2, <1>3
  <2>2. OnUpchirp(b, Position + (Begin(b) - Position))
    <3>1. 0 \in 0..(PreambleSymbols - 1)
      BY <1>1
    <3>2. Position + (Begin(b) - Position) = Begin(b) + Symbols(0)
      BY <1>1, FewSymbols
    <3> QED BY <3>1, <3>2 DEF OnUpchirp
  <2> QED BY <2>1, <2>2
<1>4. CASE Position > Begin(b)
  <2> DEFINE d == Position - Begin(b) + SamplesPerSymbol - 1
             s == d \div SamplesPerSymbol
  <2>1. d \in Nat /\ d > 0
    BY <1>1, <1>4
  <2>2. s \in Nat /\ s * SamplesPerSymbol <= d
        /\ d < s * SamplesPerSymbol + SamplesPerSymbol
    <3> HIDE DEF d
    <3>1. /\ s \in Int
          /\ d % SamplesPerSymbol \in 0..(SamplesPerSymbol - 1)
          /\ d = SamplesPerSymbol * s + (d % SamplesPerSymbol)
      BY <2>1, <1>1
    <3>2. s >= 0
      BY <2>1, <1>1
    <3> QED BY <3>1, <3>2, <2>1, <1>1
  <2> HIDE DEF s
  <2>3. Symbols(s) \in Int /\ Symbols(s) <= d /\ d < Symbols(s) + SamplesPerSymbol
    BY <2>2, <1>1 DEF Symbols
  <2>4. s \in 0..(PreambleSymbols - 1)
    <3>1. CASE s >= PreambleSymbols
      <4>1. Symbols(PreambleSymbols) <= Symbols(s)
        BY <3>1, <2>2, <1>1, SymbolsInOrder
      <4> QED BY <4>1, <2>3, <1>1, <1>2, PreambleLength
    <3> QED BY <3>1, <2>2, <1>1
  <2> DEFINE i == Begin(b) + Symbols(s) - Position
  <2>5. i \in 0..(SamplesPerSymbol - 1)
    BY <2>3, <1>1
  <2>6. Position + i = Begin(b) + Symbols(s)
    BY <2>3, <1>1
  <2>7. OnUpchirp(b, Position + i)
    BY <2>4, <2>6 DEF OnUpchirp
  <2> QED BY <2>5, <2>7
<1> QED BY <1>1, <1>3, <1>4

(* How far fine_sync() moves: less than half a symbol when it looks for    *)
(* the preamble, an eighth at most when it follows the data.               *)
LEMMA DriftBounds ==
    /\ \A lag \in Drifts(4 * DecimFactor) :
          lag \in Int /\ 2 * lag < SamplesPerSymbol /\ -2 * lag < SamplesPerSymbol
    /\ \A lag \in SymbolDrifts :
          lag \in Int /\ 8 * lag <= SamplesPerSymbol /\ -8 * lag <= SamplesPerSymbol
<1>1. /\ DecimFactor \in Nat /\ DecimFactor >= 1
      /\ SamplesPerSymbol \in Nat /\ SamplesPerSymbol >= 8 * DecimFactor
  BY SamplesAssumption
<1>2. \A lag \in Drifts(4 * DecimFactor) :
         lag \in Int /\ 2 * lag < SamplesPerSymbol /\ -2 * lag < SamplesPerSymbol
  BY <1>1 DEF Drifts
<1>3. /\ Larger(DecimFactor \div 4, 2) \in Nat
      /\ Larger(DecimFactor \div 4, 2) <= DecimFactor + 1
  BY <1>1 DEF Larger
<1>4. \A lag \in Drifts(Larger(DecimFactor \div 4, 2)) :
         lag \in Int /\ 8 * lag <= SamplesPerSymbol /\ -8 * lag <= SamplesPerSymbol
  BY <1>1, <1>3 DEF Drifts
<1> QED BY <1>1, <1>2, <1>4 DEF SymbolDrifts

-----------------------------------------------------------------------------
(* The preamble.                                                           *)

LEMMA HearNothingStep ==
    ASSUME TypeOK, TypeOK', Linked, NEW b \in 1..(Len(air.bursts) + 1), At(b),
           HearNothing, UNCHANGED air
    PROVE  At(b)'
<1>1. /\ d_state = "DETECT" /\ d_state' = "DETECT"
      /\ avail' = avail - SamplesPerSymbol
      /\ conf' = conf /\ frames' = frames
      /\ \A a \in Bursts : ~ Preamble(a)
  BY DEF HearNothing, DetectNothing, Scheduled, Consume
<1>2. Settled
  BY <1>1 DEF Settled
<1>3. /\ Position \in Int /\ Position' = Position + SamplesPerSymbol
      /\ SamplesPerSymbol \in Nat
  BY <1>1, SymbolFacts, PositionMoves
<1>4. Passed(b)'
  BY <1>1, <1>2, <1>3, PassedKept DEF At
<1>5. ASSUME b \in Bursts
      PROVE  Position' <= Begin(b) + SyncWordAt - 2 * SamplesPerSymbol
  <2>1. Begin(b) \in Nat /\ SyncWordAt \in Nat
        /\ SyncWordAt >= 6 * SamplesPerSymbol
    BY <1>5, BurstFacts, Parts
  <2>2. Position <= Begin(b) + SyncWordAt - 2 * SamplesPerSymbol
    BY <1>1, <1>5 DEF At, Place, Listening
  <2>3. ~ Preamble(b)
    BY <1>1, <1>5
  <2>4. Position < Begin(b)
    BY <2>1, <2>2, <2>3, <1>3 DEF Preamble, Within
  <2> QED BY <2>1, <2>4, <1>3
<1>6. Listening(b)'
  BY <1>2, <1>5, Stays DEF Listening
<1> QED BY <1>1, <1>4, <1>6 DEF At, Place

LEMMA HearPreambleStep ==
    ASSUME TypeOK, TypeOK', Linked, NEW b \in 1..(Len(air.bursts) + 1), At(b),
           HearPreamble, UNCHANGED air
    PROVE  At(b)'
<1>1. /\ d_state = "DETECT" /\ d_state' = "SYNC"
      /\ d_corr_fails' = 0
      /\ avail' = avail - 0
      /\ conf' = conf /\ frames' = frames
  <2>1. avail \in Int
    BY DEF TypeOK
  <2> QED BY <2>1 DEF HearPreamble, DetectPreamble, Scheduled
<1>2. Settled
  BY <1>1 DEF Settled
<1>3. /\ Position \in Int /\ Position' = Position
      /\ SamplesPerSymbol \in Nat
  <2>1. Position \in Int /\ Position' = Position + 0
    BY <1>1, PositionMoves
  <2> QED BY <2>1, SymbolFacts
<1>4. Passed(b) /\ Passed(b)'
  BY <1>1, <1>2, <1>3, PassedKept DEF At
<1>5. PICK a \in Bursts : InBothWindows(a)
  BY DEF HearPreamble
<1>6. /\ Begin(a) < Position + SamplesPerSymbol
      /\ Position < End(a)
      /\ Begin(a) \in Nat /\ End(a) \in Nat /\ a \in Int
      /\ Len(air.bursts) \in Nat
  BY <1>5, BurstFacts, EndFacts DEF InBothWindows, Touches
<1>7. a >= b
  BY <1>4, <1>6, <1>3, BurstsBefore
<1>8. b \in Bursts
  BY <1>6, <1>7 DEF Bursts
<1>9. Position <= Begin(b) + SyncWordAt - 2 * SamplesPerSymbol
  BY <1>1, <1>8 DEF At, Place, Listening
<1>10. Begin(b) \in Nat /\ b \in Int /\ SyncWordAt \in Nat
       /\ Begin(b) + SyncWordAt <= End(b) /\ End(b) \in Nat
  BY <1>8, BurstFacts, EndFacts, Parts
<1>11. a = b
  <2>1. CASE a > b
    <3>1. End(b) + 5 * SamplesPerSymbol <= Begin(a)
      BY <2>1, <1>8, Spacing
    <3> QED BY <3>1, <1>3, <1>6, <1>9, <1>10
  <2> QED BY <2>1, <1>6, <1>7, <1>10
<1>12. Heard(b)'
  BY <1>1, <1>2, <1>3, <1>6, <1>8, <1>9, <1>11, Stays DEF Heard
<1> QED BY <1>1, <1>4, <1>12 DEF At, Place

LEMMA HearUpchirpStep ==
    ASSUME TypeOK, TypeOK', Linked, NEW b \in 1..(Len(air.bursts) + 1), At(b),
           HearUpchirp, UNCHANGED air
    PROVE  At(b)'
<1>1. PICK i \in 0..(SamplesPerSymbol - 1) : avail' = avail - i
  BY DEF HearUpchirp, Sync, Consume
<1>2. /\ d_state = "SYNC" /\ d_state' = "FIND_SFD"
      /\ d_corr_fails' = d_corr_fails
      /\ conf' = conf /\ frames' = frames
  BY DEF HearUpchirp, Sync, Scheduled, signal
<1>3. Settled
  BY <1>2 DEF Settled
<1>4. /\ Position \in Int /\ Position' \in Int /\ Position' = Position + i
      /\ SamplesPerSymbol \in Nat
      /\ 0 <= i /\ i < SamplesPerSymbol /\ i \in Int
  <2>1. i \in Int /\ SamplesPerSymbol \in Nat
    BY SymbolFacts
  <2> QED BY <2>1, <1>1, <1>2, PositionMoves
<1>5. Passed(b) /\ Passed(b)'
  BY <1>2, <1>3, <1>4, PassedKept DEF At
<1>6. Heard(b) /\ b \in Bursts
  BY <1>2 DEF At, Place, Heard
<1>7. UpchirpBegins(Position')
  <2>1. PICK k \in 0..(SamplesPerSymbol - 1) : OnUpchirp(b, Position + k)
    BY <1>6, UpchirpIsNear
  <2>2. UpchirpBegins(Position + k)
    BY <2>1, <1>6, UpchirpBeginsThere
  <2> QED BY <2>2 DEF HearUpchirp
<1>8. OnUpchirp(b, Position')
  <2>1. Position - SamplesPerSymbol < Position'
    BY <1>4, SymbolFacts
  <2>2. Position' < End(b) + 5 * SamplesPerSymbol
    <3>1. Begin(b) + SyncWordAt <= End(b) /\ End(b) \in Nat /\ Begin(b) \in Nat
      BY <1>6, EndFacts, BurstFacts
    <3>2. Position <= Begin(b) + SyncWordAt - 2 * SamplesPerSymbol
      BY <1>6 DEF Heard
    <3> QED BY <3>1, <3>2, <1>4, Parts
  <2> QED BY <2>1, <2>2, <1>4, <1>5, <1>6, <1>7, UpchirpIsOwn
<1>9. OnUpchirp(b, Position)'
  BY <1>3, <1>8, Stays DEF OnUpchirp
<1>10. Searching(b)'
  BY <1>2, <1>3, <1>6, <1>9, Stays DEF Searching, Heard
<1> QED BY <1>2, <1>5, <1>10 DEF At, Place

(* Where it is that the decoder searches the SFD.                          *)
LEMMA OnUpchirpFacts ==
    ASSUME NEW b, Begin(b) \in Nat, NEW position, OnUpchirp(b, position)
    PROVE  /\ position \in Int
           /\ Begin(b) <= position
           /\ position <= Begin(b) + SyncWordAt - SamplesPerSymbol
<1>1. PICK s \in 0..(PreambleSymbols - 1) : position = Begin(b) + Symbols(s)
  BY DEF OnUpchirp
<1>2. Symbols(s) \in Nat /\ Symbols(s) <= SyncWordAt - SamplesPerSymbol
  BY Upchirps
<1>3. SyncWordAt \in Nat /\ SamplesPerSymbol \in Nat
  BY Parts, SymbolFacts
<1> QED BY <1>1, <1>2, <1>3

LEMMA BehindPreamble ==
    ASSUME TypeOK, Linked, NEW b \in Bursts, d_corr_fails <= 4,
           Position = Begin(b) + SyncWordAt + Symbols(d_corr_fails)
    PROVE  /\ Begin(b) + SyncWordAt <= Position
           /\ Position <= Begin(b) + SyncWordAt + 4 * SamplesPerSymbol
           /\ d_corr_fails = 4 =>
                 Position = Begin(b) + SyncWordAt + 4 * SamplesPerSymbol
           /\ d_corr_fails = 2 => Position = Begin(b) + SfdAt
           /\ d_corr_fails < 2 =>
                 Position <= Begin(b) + SyncWordAt + SamplesPerSymbol
<1>1. d_corr_fails \in 0..4
  BY DEF TypeOK
<1>2. /\ Begin(b) \in Nat /\ SyncWordAt \in Nat /\ SamplesPerSymbol \in Nat
      /\ SfdAt = SyncWordAt + 2 * SamplesPerSymbol
  BY BurstFacts, Parts, SymbolFacts
<1>3. CASE d_corr_fails = 0
  <2>1. Symbols(d_corr_fails) = 0
    BY <1>3, FewSymbols
  <2> QED BY <2>1, <1>2, <1>3
<1>4. CASE d_corr_fails = 1
  <2>1. Symbols(d_corr_fails) = SamplesPerSymbol
    BY <1>4, FewSymbols
  <2> QED BY <2>1, <1>2, <1>4
<1>5. CASE d_corr_fails = 2
  <2>1. Symbols(d_corr_fails) = 2 * SamplesPerSymbol
    BY <1>5, FewSymbols
  <2> QED BY <2>1, <1>2, <1>5
<1>6. CASE d_corr_fails = 3
  <2>1. Symbols(d_corr_fails) = 3 * SamplesPerSymbol
    BY <1>6, FewSymbols
  <2> QED BY <2>1, <1>2, <1>6
<1>7. CASE d_corr_fails = 4
  <2>1. Symbols(d_corr_fails) = 4 * SamplesPerSymbol
    BY <1>7, FewSymbols
  <2> QED BY <2>1, <1>2, <1>7
<1> QED BY <1>1, <1>3, <1>4, <1>5, <1>6, <1>7

LEMMA SearchingFacts ==
    ASSUME TypeOK, Linked, NEW b, Searching(b)
    PROVE  \/ /\ OnUpchirp(b, Position)
              /\ d_corr_fails = 0
              /\ Position <= Begin(b) + SyncWordAt - SamplesPerSymbol
           \/ /\ Position = Begin(b) + SyncWordAt + Symbols(d_corr_fails)
              /\ d_corr_fails \in 0..4
              /\ air.bursts[b].whole => d_corr_fails <= 2
<1>1. /\ b \in Bursts
      /\ d_corr_fails \in 0..5
      /\ Begin(b) \in Nat /\ air.bursts[b].whole \in BOOLEAN
  BY BurstFacts DEF Searching, TypeOK
<1>2. CASE OnUpchirp(b, Position) /\ d_corr_fails = 0
  BY <1>1, <1>2, OnUpchirpFacts
<1>3. CASE /\ Position = Begin(b) + SyncWordAt + Symbols(d_corr_fails)
           /\ d_corr_fails <= IF air.bursts[b].whole THEN 2 ELSE 4
  BY <1>1, <1>3
<1> QED BY <1>2, <1>3 DEF Searching

LEMMA HearSfdStep ==
    ASSUME TypeOK, TypeOK', Linked, NEW b \in 1..(Len(air.bursts) + 1), At(b),
           HearSfd, UNCHANGED air
    PROVE  At(b)'
<1>1. /\ d_state = "FIND_SFD" /\ d_state' = "PAUSE"
      /\ avail' = avail - SamplesPerSymbol
      /\ conf' = conf /\ frames' = frames
  BY DEF HearSfd, FindSfdDownchirp, Scheduled, Consume
<1>2. Settled
  BY <1>1 DEF Settled
<1>3. /\ Position \in Int /\ Position' = Position + SamplesPerSymbol
      /\ SamplesPerSymbol \in Nat
  BY <1>1, SymbolFacts, PositionMoves
<1>4. Passed(b) /\ Passed(b)'
  BY <1>1, <1>2, <1>3, PassedKept DEF At
<1>5. Searching(b) /\ b \in Bursts
  BY <1>1 DEF At, Place, Searching
<1>6. PICK a \in Bursts : Downchirp(a)
  BY DEF HearSfd
<1>7. /\ air.bursts[a].whole
      /\ Position < Begin(a) + DataAt
      /\ Begin(a) + SfdAt < Position + SamplesPerSymbol
  BY <1>6 DEF Downchirp, Touches
<1>8. /\ Begin(a) \in Nat /\ End(a) \in Nat /\ a \in Int
      /\ Begin(b) \in Nat /\ End(b) \in Nat /\ b \in Int
      /\ Begin(b) + SyncWordAt <= End(b)
      /\ SyncWordAt \in Nat /\ SfdAt = SyncWordAt + 2 * SamplesPerSymbol
      /\ SamplesPerSymbol >= 8
  BY <1>5, BurstFacts, EndFacts, Parts, SymbolFacts
<1>9. Position < End(a)
  <2>1. Begin(a) + DataAt <= End(a) /\ DataAt \in Nat
    BY <1>7, EndFacts, Parts
  <2> QED BY <2>1, <1>3, <1>7, <1>8
<1>10. a >= b
  BY <1>4, <1>8, <1>9, BurstsBefore
<1>11. \/ Position <= Begin(b) + SyncWordAt - SamplesPerSymbol
       \/ /\ Position = Begin(b) + SyncWordAt + Symbols(d_corr_fails)
          /\ d_corr_fails \in 0..4
          /\ air.bursts[b].whole => d_corr_fails <= 2
  BY <1>5, SearchingFacts
<1>12. Position <= Begin(b) + SyncWordAt + 4 * SamplesPerSymbol
  <2>1. CASE Position <= Begin(b) + SyncWordAt - SamplesPerSymbol
    BY <2>1, <1>3, <1>8
  <2>2. CASE /\ Position = Begin(b) + SyncWordAt + Symbols(d_corr_fails)
             /\ d_corr_fails \in 0..4
    <3>1. d_corr_fails <= 4
      BY <2>2
    <3> QED BY <2>2, <3>1, <1>5, BehindPreamble
  <2> QED BY <2>1, <2>2, <1>11
<1>13. a = b
  <2>1. CASE a > b
    <3>1. End(b) + 5 * SamplesPerSymbol <= Begin(a)
      BY <2>1, <1>5, Spacing
    <3> QED BY <3>1, <1>3, <1>7, <1>8, <1>12
  <2> QED BY <2>1, <1>8, <1>10
<1>14. Position = Begin(b) + SfdAt
  <2>1. Position > Begin(b) + SyncWordAt + SamplesPerSymbol
    BY <1>3, <1>7, <1>8, <1>13
  <2>2. /\ Position = Begin(b) + SyncWordAt + Symbols(d_corr_fails)
        /\ d_corr_fails \in 0..4 /\ d_corr_fails <= 2
    BY <2>1, <1>3, <1>7, <1>8, <1>11, <1>13
  <2>3. d_corr_fails <= 4
    BY <2>2
  <2>4. ~ (d_corr_fails < 2)
    <3>1. d_corr_fails < 2 =>
             Position <= Begin(b) + SyncWordAt + SamplesPerSymbol
      BY <2>2, <2>3, <1>5, BehindPreamble
    <3> QED BY <3>1, <2>1, <1>3, <1>8
  <2>5. d_corr_fails = 2
    BY <2>2, <2>4
  <2> QED BY <2>2, <2>3, <2>5, <1>5, BehindPreamble
<1>15. Pausing(b)'
  <2>1. Position' = Begin(b) + SfdAt + SamplesPerSymbol
    BY <1>3, <1>14
  <2> QED BY <2>1, <1>2, <1>5, <1>7, <1>13, Stays DEF Pausing, InPacket
<1> QED BY <1>1, <1>4, <1>15 DEF At, Place

(* One more upchirp of the preamble.  The window moves to the end of the   *)
(* upchirp it is on, and after the last one to the sync word.              *)
LEMMA HearPreambleGoOnStep ==
    ASSUME TypeOK, TypeOK', Linked, NEW b \in 1..(Len(air.bursts) + 1), At(b),
           HearPreambleGoOn, UNCHANGED air
    PROVE  At(b)'
<1>1. PICK lag \in Drifts(4 * DecimFactor) :
         avail' = avail - (SamplesPerSymbol - lag)
  BY DEF HearPreambleGoOn, FindSfdUpchirp, Consume
<1>2. /\ d_state = "FIND_SFD"
      /\ d_corr_fails' = d_corr_fails
      /\ GiveUpOrStay
      /\ conf' = conf /\ frames' = frames
      /\ UpchirpEnds(Position')
      /\ UpchirpBegins(Position) => avail' = avail - SamplesPerSymbol
  BY DEF HearPreambleGoOn, FindSfdUpchirp, Scheduled
<1>3. Settled
  BY <1>2 DEF Settled
<1>4. /\ lag \in Int /\ 2 * lag < SamplesPerSymbol /\ -2 * lag < SamplesPerSymbol
      /\ SamplesPerSymbol \in Nat /\ SamplesPerSymbol >= 8
  BY DriftBounds, SymbolFacts
<1>5. /\ Position \in Int /\ Position' \in Int
      /\ Position' = Position + (SamplesPerSymbol - lag)
  <2>1. SamplesPerSymbol - lag \in Int
    BY <1>4
  <2> QED BY <2>1, <1>1, <1>2, PositionMoves
<1>6. Passed(b) /\ Passed(b)'
  <2>1. Position <= Position'
    BY <1>4, <1>5
  <2> QED BY <2>1, <1>2, <1>3, PassedKept DEF At
<1>7. Searching(b) /\ b \in Bursts
  BY <1>2 DEF At, Place, Searching
<1>8. /\ Begin(b) \in Nat /\ End(b) \in Nat
      /\ Begin(b) + SyncWordAt <= End(b)
      /\ SyncWordAt \in Nat
  BY <1>7, BurstFacts, EndFacts, Parts
<1>9. \/ /\ OnUpchirp(b, Position)
         /\ d_corr_fails = 0
         /\ Position <= Begin(b) + SyncWordAt - SamplesPerSymbol
      \/ /\ Begin(b) + SyncWordAt <= Position
         /\ Position <= Begin(b) + SyncWordAt + 4 * SamplesPerSymbol
  <2>1. CASE /\ Position = Begin(b) + SyncWordAt + Symbols(d_corr_fails)
             /\ d_corr_fails \in 0..4
    <3>1. d_corr_fails <= 4
      BY <2>1
    <3> QED BY <2>1, <3>1, <1>7, BehindPreamble
  <2> QED BY <2>1, <1>7, SearchingFacts
<1>10. OnUpchirp(b, Position' - SamplesPerSymbol)
  <2>1. UpchirpBegins(Position' - SamplesPerSymbol)
    BY <1>2 DEF UpchirpEnds
  <2>2. /\ Position' - SamplesPerSymbol \in Int
        /\ Position - SamplesPerSymbol < Position' - SamplesPerSymbol
        /\ Position' - SamplesPerSymbol < End(b) + 5 * SamplesPerSymbol
    BY <1>4, <1>5, <1>8, <1>9
  <2> QED BY <2>1, <2>2, <1>6, <1>7, UpchirpIsOwn
<1>11. OnUpchirp(b, Position) /\ d_corr_fails = 0
  <2>1. Position' - SamplesPerSymbol <= Begin(b) + SyncWordAt - SamplesPerSymbol
    BY <1>8, <1>10, OnUpchirpFacts
  <2> QED BY <2>1, <1>4, <1>5, <1>8, <1>9
<1>12. Position' = Position + SamplesPerSymbol
  <2>1. UpchirpBegins(Position)
    BY <1>7, <1>11, UpchirpBeginsThere
  <2> QED BY <2>1, <1>2, <1>4, PositionMoves
<1>13. d_state' = "FIND_SFD"
  BY <1>2, <1>11 DEF GiveUpOrStay
<1>14. Searching(b)'
  <2>1. PICK s \in 0..(PreambleSymbols - 1) : Position = Begin(b) + Symbols(s)
    BY <1>11 DEF OnUpchirp
  <2>2. /\ s \in Int /\ PreambleSymbols \in Int
        /\ 0 <= s /\ s <= PreambleSymbols - 1
    BY PreambleAssumption
  <2>3. Symbols(s) \in Int /\ Symbols(s + 1) = Symbols(s) + SamplesPerSymbol
    BY <2>2, OneSymbolMore
  <2>4. Position' = Begin(b) + Symbols(s + 1)
    BY <2>1, <2>3, <1>4, <1>8, <1>12
  <2>5. CASE s < PreambleSymbols - 1
    <3>1. s + 1 \in 0..(PreambleSymbols - 1)
      BY <2>2, <2>5
    <3>2. OnUpchirp(b, Position)'
      BY <2>4, <3>1, <1>3, Stays DEF OnUpchirp
    <3> QED BY <3>2, <1>2, <1>3, <1>7, <1>11, Stays DEF Searching
  <2>6. CASE s = PreambleSymbols - 1
    <3>1. s + 1 = PreambleSymbols
      BY <2>2, <2>6
    <3>2. Position' = Begin(b) + SyncWordAt
      BY <2>4, <3>1, PreambleLength
    <3>3. Position' = Begin(b) + SyncWordAt + Symbols(d_corr_fails')
      BY <3>2, <1>2, <1>8, <1>11, FewSymbols
    <3>4. d_corr_fails' <= IF air.bursts[b].whole THEN 2 ELSE 4
      BY <1>2, <1>11
    <3> QED BY <3>3, <3>4, <1>3, <1>7, Stays DEF Searching
  <2> QED BY <2>2, <2>5, <2>6
<1> QED BY <1>2, <1>6, <1>13, <1>14 DEF At, Place

(* A symbol that is neither an upchirp nor a downchirp: one of the sync    *)
(* word's two, or silence behind a preamble that led nowhere.  The fifth   *)
(* failure ends the search.                                                *)
LEMMA HearOtherStep ==
    ASSUME TypeOK, TypeOK', Linked, NEW b \in 1..(Len(air.bursts) + 1), At(b),
           HearOther, UNCHANGED air
    PROVE  \E c \in 1..(Len(air.bursts) + 1) : At(c)'
<1>1. /\ d_state = "FIND_SFD"
      /\ avail' = avail - SamplesPerSymbol
      /\ d_corr_fails' = d_corr_fails + 1
      /\ GiveUpOrStay
      /\ conf' = conf /\ frames' = frames
      /\ ~ UpchirpBegins(Position)
      /\ \A a \in Bursts : ~ DownchirpAt(a)
  BY DEF HearOther, FindSfdFail, Scheduled, Consume
<1>2. Settled
  BY <1>1 DEF Settled
<1>3. /\ Position \in Int /\ Position' \in Int
      /\ Position' = Position + SamplesPerSymbol
      /\ SamplesPerSymbol \in Nat
  BY <1>1, SymbolFacts, PositionMoves
<1>4. Passed(b) /\ Passed(b)'
  BY <1>1, <1>2, <1>3, PassedKept DEF At
<1>5. Searching(b) /\ b \in Bursts
  BY <1>1 DEF At, Place, Searching
<1>6. /\ Position = Begin(b) + SyncWordAt + Symbols(d_corr_fails)
      /\ d_corr_fails \in 0..4 /\ d_corr_fails <= 4
      /\ air.bursts[b].whole => d_corr_fails <= 2
  <2>1. ~ OnUpchirp(b, Position)
    BY <1>1, <1>5, UpchirpBeginsThere
  <2>2. /\ Position = Begin(b) + SyncWordAt + Symbols(d_corr_fails)
        /\ d_corr_fails \in 0..4
        /\ air.bursts[b].whole => d_corr_fails <= 2
    BY <2>1, <1>5, SearchingFacts
  <2> QED BY <2>2
<1>7. air.bursts[b].whole => d_corr_fails < 2
  <2>1. CASE air.bursts[b].whole /\ d_corr_fails = 2
    <3>1. Position = Begin(b) + SfdAt
      BY <2>1, <1>5, <1>6, BehindPreamble
    <3> QED BY <2>1, <3>1, <1>1, <1>5 DEF DownchirpAt, Aligned
  <2> QED BY <2>1, <1>6
<1>8. air.bursts[b].whole \in BOOLEAN /\ Begin(b) \in Nat
  BY <1>5, BurstFacts
<1>9. CASE d_corr_fails < 4
  <2>1. d_state' = "FIND_SFD"
    <3>1. ~ (d_corr_fails' > 4)
      BY <1>1, <1>6, <1>9
    <3> QED BY <3>1, <1>1 DEF GiveUpOrStay
  <2>2. Position' = Begin(b) + SyncWordAt + Symbols(d_corr_fails')
    <3>1. d_corr_fails \in Int /\ SyncWordAt \in Nat
      BY <1>6, Parts
    <3>2. /\ Symbols(d_corr_fails) \in Int
          /\ Symbols(d_corr_fails + 1) = Symbols(d_corr_fails) + SamplesPerSymbol
      BY <3>1, OneSymbolMore
    <3>3. Position' = Begin(b) + SyncWordAt + Symbols(d_corr_fails + 1)
      BY <3>1, <3>2, <1>3, <1>6, <1>8
    <3> QED BY <3>3, <1>1
  <2>3. d_corr_fails' <= IF air.bursts[b].whole THEN 2 ELSE 4
    BY <1>1, <1>6, <1>7, <1>8, <1>9
  <2>4. Searching(b)'
    BY <2>2, <2>3, <1>2, <1>5, Stays DEF Searching
  <2>5. At(b)'
    BY <2>1, <2>4, <1>4 DEF At, Place
  <2> QED BY <2>5
<1>10. CASE d_corr_fails = 4
  <2>1. d_state' = "DETECT"
    <3>1. d_corr_fails' > 4
      BY <1>1, <1>6, <1>10
    <3> QED BY <3>1, <1>1 DEF GiveUpOrStay
  <2>2. ~ air.bursts[b].whole
    BY <1>7, <1>10
  <2>3. Position = End(b) + 4 * SamplesPerSymbol /\ End(b) \in Nat
    BY <2>2, <1>5, <1>6, <1>10, BehindPreamble, EndFacts
  <2>4. Len(frames') = PacketsUpTo(b)
    <3>1. b \in Nat /\ b >= 1
      BY <1>5, BurstFacts
    <3>2. PacketsUpTo(b) = PacketsUpTo(b - 1)
      BY <2>2, <3>1, <1>8, OnePacketMore
    <3> QED BY <3>2, <1>1, <1>4 DEF Passed
  <2>5. /\ Position <= Position' /\ End(b) <= Position'
        /\ Position' <= End(b) + 9 * SamplesPerSymbol
    BY <2>3, <1>3
  <2> DEFINE next == b + 1
  <2>6. /\ Passed(next)' /\ Listening(next)'
        /\ next \in 1..(Len(air.bursts) + 1)
    BY <2>4, <2>5, <1>2, <1>3, <1>4, <1>5, PassedToNext
  <2>7. At(next)'
    BY <2>1, <2>6 DEF At, Place
  <2> QED BY <2>6, <2>7
<1> QED BY <1>6, <1>9, <1>10

LEMMA PauseStep ==
    ASSUME TypeOK, TypeOK', BlockInv, Linked,
           NEW b \in 1..(Len(air.bursts) + 1), At(b), Pause, UNCHANGED air
    PROVE  At(b)'
<1>1. /\ d_state = "PAUSE" /\ d_state' = "DECODE_HEADER"
      /\ avail' = avail - (SamplesPerSymbol + SamplesPerSymbol \div 4)
      /\ d_words' = d_words
      /\ conf' = conf /\ frames' = frames
  BY DEF Pause, Scheduled, Consume, buffers
<1>2. Settled
  BY <1>1 DEF Settled
<1>3. /\ Position \in Int
      /\ Position' = Position + (SamplesPerSymbol + SamplesPerSymbol \div 4)
      /\ SamplesPerSymbol + SamplesPerSymbol \div 4 \in Nat
  <2>1. SamplesPerSymbol + SamplesPerSymbol \div 4 \in Nat
    BY SymbolFacts
  <2> QED BY <2>1, <1>1, PositionMoves
<1>4. Passed(b)'
  <2>1. Position <= Position'
    BY <1>3
  <2> QED BY <2>1, <1>1, <1>2, PassedKept DEF At
<1>5. Pausing(b) /\ InPacket(b) /\ b \in Bursts
  BY <1>1 DEF At, Place, Pausing, InPacket
<1>6. Len(d_words') = 0
  BY <1>1 DEF BlockInv
<1>7. Position' = Begin(b) + DataAt + Symbols(0)
  <2> DEFINE quarter == SamplesPerSymbol \div 4
  <2>1. /\ Begin(b) \in Nat /\ SamplesPerSymbol \in Nat /\ SfdAt \in Int
        /\ quarter \in Int
    <3>1. SyncWordAt \in Nat /\ SfdAt = SyncWordAt + 2 * SamplesPerSymbol
      BY Parts
    <3> QED BY <3>1, <1>5, BurstFacts, SymbolFacts
  <2>2. /\ Position = Begin(b) + SfdAt + SamplesPerSymbol
        /\ DataAt = SfdAt + 2 * SamplesPerSymbol + quarter
        /\ Position' = Position + (SamplesPerSymbol + quarter)
        /\ Symbols(0) = 0
    BY <1>3, <1>5, FewSymbols DEF Pausing, DataAt
  <2> HIDE DEF quarter
  <2> QED BY <2>1, <2>2
<1>8. InData(b, 0)'
  <2>1. DataOf(b) \in Nat
    BY <1>5, BlockFacts
  <2>2. 0 <= DataOf(b)
    BY <2>1
  <2> QED BY <2>2, <1>2, <1>7, Stays DEF InData
<1>9. InFirstBlock(b)'
  BY <1>2, <1>5, <1>6, <1>8, Stays DEF InFirstBlock, InPacket
<1> QED BY <1>1, <1>4, <1>9 DEF At, Place

-----------------------------------------------------------------------------
(* The frames.                                                             *)

IsPacket(f, b) ==
    /\ air.bursts[b].whole
    /\ PacketsUpTo(b) = f
    /\ IsFrameOf(frames[f], air.bursts[b].header)

LEMMA PacketStays ==
    ASSUME Settled, NEW f, NEW b, frames'[f] = frames[f], IsPacket(f, b)
    PROVE  IsPacket(f, b)'
<1>1. conf' = conf /\ air' = air
  BY DEF Settled
<1>2. LengthOf(air.bursts[b].header)' = LengthOf(air.bursts[b].header)
  BY <1>1 DEF LengthOf, HeaderBits, PayloadBits
<1>3. IsFrameOf(frames[f], air.bursts[b].header)'
  BY <1>1, <1>2 DEF IsFrameOf, IsPacket
<1>4. air'.bursts[b].whole /\ PacketsUpTo(b)' = f
  BY <1>1, Stays DEF IsPacket
<1> QED BY <1>3, <1>4 DEF IsPacket

LEMMA OnlyPacketsKept ==
    ASSUME Settled, frames' = frames, OnlyPackets
    PROVE  OnlyPackets'
<1>1. ASSUME NEW f \in 1..Len(frames')
      PROVE  \E b \in Bursts' : IsPacket(f, b)'
  <2>1. PICK b \in Bursts : IsPacket(f, b)
    BY <1>1 DEF OnlyPackets, IsPacket
  <2>2. frames'[f] = frames[f] /\ b \in Bursts'
    BY <2>1, Stays
  <2>3. IsPacket(f, b)'
    BY <2>1, <2>2, PacketStays
  <2> QED BY <2>2, <2>3
<1> QED BY <1>1 DEF OnlyPackets, IsPacket

(* The frame of burst b is published, and with it the burst is passed.     *)
LEMMA PacketPublished ==
    ASSUME TypeOK, TypeOK', Linked, Settled, OnlyPackets, CodingRate,
           NEW b \in Bursts, InPacket(b), Passed(b),
           NEW words \in Seq(Nat), NEW demodulated \in Seq(SUBSET Nat),
           NEW len \in Nat, Publish(words, demodulated, len),
           len = LengthOf(HeaderOf(b)),
           ~ conf.implicit => /\ d_phdr.length = HeaderOf(b).length
                              /\ d_phdr.has_mac_crc = HeaderOf(b).has_mac_crc
                              /\ d_phdr.cr = HeaderOf(b).cr,
           d_phdr' = d_phdr,
           Position' \in Int,
           Position <= Position', End(b) <= Position',
           Position' <= End(b) + 9 * SamplesPerSymbol
    PROVE  /\ OnlyPackets'
           /\ CodingRate'
           /\ \E c \in 1..(Len(air.bursts) + 1) : At(c)'
<1> DEFINE frame == [rx |-> rx, phdr |-> d_phdr, length |-> len,
                     words |-> demodulated, bytes_of |-> d_decoded'.rx,
                     snr_of |-> d_snr]
<1>1. d_state' = "DETECT" /\ frames' = Append(frames, frame)
  BY DEF Publish
<1>2. IsFrameOf(frame, HeaderOf(b))
  BY DEF IsFrameOf
<1> HIDE DEF frame
<1>3. frames \in Seq(Reception)
  BY DEF TypeOK
<1>4. /\ Len(frames) \in Nat
      /\ Len(frames') = Len(frames) + 1
      /\ frames'[Len(frames) + 1] = frame
      /\ \A f \in 1..Len(frames) : frames'[f] = frames[f]
  BY <1>1, <1>3
<1>5. PacketsUpTo(b) = Len(frames')
  <2>1. b \in Nat /\ b >= 1 /\ air.bursts[b].whole \in BOOLEAN
    BY BurstFacts
  <2>2. PacketsUpTo(b) = PacketsUpTo(b - 1) + 1
    BY <2>1, OnePacketMore DEF InPacket
  <2> QED BY <2>2, <1>4 DEF Passed
<1>6. PICK last \in Nat : last = Len(frames) + 1
  BY <1>4
<1>7. IsPacket(last, b)'
  <2>1. conf' = conf /\ air' = air
    BY DEF Settled
  <2>2. LengthOf(air.bursts[b].header)' = LengthOf(air.bursts[b].header)
    BY <2>1 DEF LengthOf, HeaderBits, PayloadBits
  <2>3. frames'[last] = frame
    BY <1>4, <1>6
  <2>4. IsFrameOf(frames[last], air.bursts[b].header)'
    BY <2>1, <2>2, <2>3, <1>2 DEF IsFrameOf, HeaderOf
  <2>5. air'.bursts[b].whole /\ PacketsUpTo(b)' = last
    BY <2>1, <1>4, <1>5, <1>6, Stays DEF InPacket
  <2> QED BY <2>4, <2>5 DEF IsPacket
<1>8. OnlyPackets'
  <2>1. ASSUME NEW f \in 1..Len(frames')
        PROVE  \E c \in Bursts' : IsPacket(f, c)'
    <3>1. CASE f = last
      BY <3>1, <1>7, Stays
    <3>2. CASE f # last
      <4>1. f \in 1..Len(frames)
        BY <3>2, <1>4, <1>6
      <4>2. PICK c \in Bursts : IsPacket(f, c)
        BY <4>1 DEF OnlyPackets, IsPacket
      <4>3. IsPacket(f, c)'
        BY <4>1, <4>2, <1>4, PacketStays
      <4> QED BY <4>3, Stays
    <3> QED BY <3>1, <3>2
  <2> QED BY <2>1 DEF OnlyPackets, IsPacket
<1>9. \E c \in 1..(Len(air.bursts) + 1) : At(c)'
  <2> DEFINE next == b + 1
  <2>1. /\ Passed(next)' /\ Listening(next)'
        /\ next \in 1..(Len(air.bursts) + 1)
    BY <1>5, PassedToNext
  <2>2. At(next)'
    BY <2>1, <1>1 DEF At, Place
  <2> QED BY <2>1, <2>2
<1>10. CodingRate'
  BY Stays DEF CodingRate
<1> QED BY <1>8, <1>9, <1>10

-----------------------------------------------------------------------------
(* The data.                                                               *)

LEMMA WordsInBlock ==
    ASSUME TypeOK, BlockInv
    PROVE  /\ Len(d_words) \in Nat
           /\ d_state = "DECODE_HEADER" => Len(d_words) < 8
           /\ d_state = "DECODE_PAYLOAD" => Len(d_words) < BlockSymbols
           /\ BlockComplete(TRUE) <=> Len(d_words) + 1 = 8
           /\ BlockComplete(FALSE) <=> Len(d_words) + 1 = BlockSymbols
<1>1. Len(d_words) \in Nat /\ Len(WordsRead) = Len(d_words) + 1
  BY WordsReadFacts DEF TypeOK
<1>2. BlockWidth(TRUE) = 8 /\ BlockWidth(FALSE) = BlockSymbols
  BY DEF BlockWidth, BlockSymbols
<1>3. /\ d_state = "DECODE_HEADER" => Len(d_words) < 8
      /\ d_state = "DECODE_PAYLOAD" => Len(d_words) < BlockSymbols
  BY <1>2 DEF BlockInv, BlockCanComplete
<1> QED BY <1>1, <1>2, <1>3 DEF BlockComplete

LEMMA InsideData ==
    ASSUME TypeOK, Linked, NEW b, InPacket(b), NEW n \in Nat, InData(b, n),
           n < DataOf(b)
    PROVE  /\ DataAligned(b)
           /\ Position = Begin(b) + DataAt + Symbols(n)
           /\ Position + SamplesPerSymbol <= End(b)
<1>1. b \in Bursts /\ air.bursts[b].whole
  BY DEF InPacket
<1>2. DataOf(b) \in Nat /\ Begin(b) \in Nat /\ DataAt \in Nat
      /\ SamplesPerSymbol \in Nat
  BY <1>1, BlockFacts, BurstFacts, Parts, SymbolFacts
<1>3. Position = Begin(b) + DataAt + Symbols(n)
  BY <1>2 DEF InData
<1>4. DataAligned(b)
  <2>1. n \in 0..(DataSymbols(conf, air.bursts[b].header) - 1)
    BY <1>2 DEF DataOf, HeaderOf
  <2>2. Position = Begin(b) + (DataAt + n * SamplesPerSymbol)
    BY <1>2, <1>3 DEF Symbols
  <2> QED BY <1>1, <2>1, <2>2 DEF DataAligned, Aligned
<1>5. Position + SamplesPerSymbol <= End(b)
  <2>1. /\ Symbols(n) \in Int /\ Symbols(n + 1) = Symbols(n) + SamplesPerSymbol
        /\ Symbols(DataOf(b)) \in Int
    BY <1>2, OneSymbolMore
  <2>2. Symbols(n + 1) <= Symbols(DataOf(b))
    <3>1. n + 1 \in Int /\ DataOf(b) \in Int /\ n + 1 <= DataOf(b)
      BY <1>2
    <3> QED BY <3>1, SymbolsInOrder
  <2>3. End(b) = Begin(b) + DataAt + Symbols(DataOf(b))
    BY <1>1, EndFacts
  <2> QED BY <2>1, <2>2, <2>3, <1>2, <1>3
<1> QED BY <1>3, <1>4, <1>5

(* At the end of the data and behind it.                                   *)
LEMMA BehindData ==
    ASSUME TypeOK, Linked, NEW b, InPacket(b), NEW n \in Nat, InData(b, n),
           n >= DataOf(b)
    PROVE  /\ End(b) <= Position
           /\ 8 * Position <= 8 * End(b) + 9 * Symbols(n - DataOf(b))
           /\ n = DataOf(b) => Position = End(b)
<1>1. b \in Bursts /\ air.bursts[b].whole
  BY DEF InPacket
<1>2. DataOf(b) \in Nat /\ End(b) \in Nat /\ Position \in Int
  BY <1>1, BlockFacts, EndFacts, PositionType
<1>3. CASE n = DataOf(b)
  <2>1. Position = End(b)
    BY <1>1, <1>3, <1>2, EndFacts DEF InData
  <2>2. n - DataOf(b) = 0 /\ Symbols(0) = 0
    BY <1>2, <1>3, FewSymbols
  <2>3. Symbols(n - DataOf(b)) = 0
    BY <2>2
  <2> QED BY <2>1, <2>3, <1>2
<1>4. CASE n > DataOf(b)
  BY <1>2, <1>4 DEF InData
<1> QED BY <1>2, <1>3, <1>4

(* One more symbol.                                                        *)
LEMMA DataMoves ==
    ASSUME TypeOK, TypeOK', Linked, Settled, NEW b, InPacket(b),
           NEW n \in Nat, InData(b, n), ConsumeSymbol, InStep
    PROVE  /\ InData(b, n + 1)' /\ InPacket(b)'
           /\ Position \in Int /\ Position' \in Int
           /\ Position <= Position'
<1>1. PICK lag \in SymbolDrifts : avail' = avail - (SamplesPerSymbol - lag)
  BY DEF ConsumeSymbol, Consume
<1>2. /\ lag \in Int /\ 8 * lag <= SamplesPerSymbol /\ -8 * lag <= SamplesPerSymbol
      /\ SamplesPerSymbol \in Nat /\ SamplesPerSymbol >= 8
  BY DriftBounds, SymbolFacts
<1>3. /\ Position \in Int /\ Position' \in Int
      /\ Position' = Position + (SamplesPerSymbol - lag)
  <2>1. SamplesPerSymbol - lag \in Int /\ conf' = conf
    BY <1>2 DEF Settled
  <2> QED BY <2>1, <1>1, PositionMoves
<1>4. b \in Bursts /\ air.bursts[b].whole /\ InPacket(b)'
  BY Stays DEF InPacket
<1>5. /\ DataOf(b) \in Nat /\ DataOf(b)' = DataOf(b)
      /\ Begin(b) \in Nat /\ Begin(b)' = Begin(b)
      /\ End(b) \in Nat /\ End(b)' = End(b)
      /\ DataAt \in Nat
  BY <1>4, BlockFacts, BurstFacts, EndFacts, Stays, Parts
<1>6. CASE n < DataOf(b)
  <2>1. DataAligned(b) /\ Position = Begin(b) + DataAt + Symbols(n)
    BY <1>6, InsideData
  <2>2. Position' = Position + SamplesPerSymbol
    <3>1. avail' = avail - SamplesPerSymbol
      BY <2>1, <1>4 DEF InStep
    <3> QED BY <3>1, <1>2, PositionMoves DEF Settled
  <2>3. Symbols(n) \in Int /\ Symbols(n + 1) = Symbols(n) + SamplesPerSymbol
    BY OneSymbolMore
  <2>4. Position' = Begin(b) + DataAt + Symbols(n + 1)
    BY <2>1, <2>2, <2>3, <1>2, <1>5
  <2>5. n + 1 <= DataOf(b)
    BY <1>5, <1>6
  <2> QED BY <2>4, <2>5, <1>2, <1>3, <1>4, <1>5 DEF InData
<1>7. CASE n >= DataOf(b)
  <2>1. /\ End(b) <= Position
        /\ 8 * Position <= 8 * End(b) + 9 * Symbols(n - DataOf(b))
    BY <1>7, BehindData
  <2>2. /\ Symbols(n - DataOf(b)) \in Int
        /\ Symbols(n - DataOf(b) + 1) = Symbols(n - DataOf(b)) + SamplesPerSymbol
    <3>1. n - DataOf(b) \in Int
      BY <1>5
    <3> QED BY <3>1, OneSymbolMore
  <2>3. n - DataOf(b) + 1 = n + 1 - DataOf(b)
    BY <1>5
  <2>4. /\ End(b) <= Position'
        /\ 8 * Position' <= 8 * End(b) + 9 * Symbols(n + 1 - DataOf(b))
    <3>1. Symbols(n + 1 - DataOf(b)) = Symbols(n - DataOf(b)) + SamplesPerSymbol
      BY <2>2, <2>3
    <3> QED BY <2>1, <2>2, <3>1, <1>2, <1>3, <1>5
  <2>5. ~ (n + 1 <= DataOf(b))
    BY <1>5, <1>7
  <2> QED BY <2>4, <2>5, <1>2, <1>3, <1>4, <1>5 DEF InData
<1> QED BY <1>5, <1>6, <1>7

(* Where the packet is given up at most eight symbols behind its end.      *)
LEMMA EndReached ==
    ASSUME TypeOK, TypeOK', Linked, Settled, NEW b, InPacket(b),
           NEW n \in Nat, InData(b, n), ConsumeSymbol, InStep,
           DataOf(b) <= n + 1, n + 1 <= DataOf(b) + 8
    PROVE  /\ End(b) <= Position'
           /\ Position' <= End(b) + 9 * SamplesPerSymbol
<1>1. /\ InData(b, n + 1)' /\ Position' \in Int
  BY DataMoves
<1>2. /\ DataOf(b) \in Nat /\ DataOf(b)' = DataOf(b)
      /\ Begin(b)' = Begin(b)
      /\ End(b) \in Nat /\ End(b)' = End(b)
      /\ End(b) = Begin(b) + DataAt + Symbols(DataOf(b))
      /\ SamplesPerSymbol \in Nat
  BY BlockFacts, EndFacts, Stays, SymbolFacts DEF InPacket
<1>3. CASE n + 1 = DataOf(b)
  <2>1. Position' = End(b)
    BY <1>1, <1>2, <1>3 DEF InData
  <2> QED BY <2>1, <1>2
<1>4. CASE n + 1 > DataOf(b)
  <2> DEFINE more == n + 1 - DataOf(b)
  <2>1. /\ End(b) <= Position'
        /\ 8 * Position' <= 8 * End(b) + 9 * Symbols(more)
    BY <1>1, <1>2, <1>4 DEF InData
  <2>2. more \in Int /\ 8 \in Int /\ more <= 8
    BY <1>2
  <2> HIDE DEF more
  <2>3. Symbols(more) \in Int /\ Symbols(more) <= Symbols(8)
    BY <2>2, SymbolsAdd, SymbolsInOrder
  <2>4. Symbols(8) = 8 * SamplesPerSymbol
    BY FewSymbols
  <2> QED BY <2>1, <2>3, <2>4, <1>1, <1>2
<1> QED BY <1>2, <1>3, <1>4

(* The blocks a header asks for: those that follow the first, and one more *)
(* when the first brought a part of the payload.                           *)
LEMMA FewerBlocks ==
    ASSUME NEW k \in 4..13, NEW x \in Nat, NEW y \in Nat, k * x < k * y + k
    PROVE  x <= y
<1>1. CASE x >= y + 1
  <2>1. k * (x - (y + 1)) >= 0
    BY <1>1
  <2>2. k * (x - (y + 1)) = k * x - (k * y + k)
    OBVIOUS
  <2>3. k * x \in Int /\ k * y + k \in Int
    OBVIOUS
  <2> QED BY <2>1, <2>2, <2>3
<1> QED BY <1>1

LEMMA WantedFacts ==
    ASSUME TypeOK, Linked, NEW b \in Bursts
    PROVE  /\ Wanted(b) \in Nat
           /\ ~ conf.implicit => /\ Sent(b) <= Wanted(b)
                                 /\ Wanted(b) <= Sent(b) + 1
<1>1. /\ conf \in Config /\ conf.sf >= 7
      /\ HeaderOf(b) \in Header
  BY BurstFacts
<1>2. PICK len \in Nat : len = 2 * AnnouncedLength(HeaderOf(b))
  BY <1>1 DEF AnnouncedLength, Header, MAC_CRC_SIZE
<1>3. PICK bits \in 4..13 : bits = BitsSent(conf) /\ bits = PayloadBits
  BY <1>1 DEF Config, BitsSent, PayloadBits
<1>4. /\ Wanted(b) \in Nat
      /\ len <= bits * Wanted(b)
      /\ bits * Wanted(b) < len + bits
  BY <1>2, <1>3, CeilDivCovers DEF Wanted, BlocksNeeded
<1>5. ASSUME ~ conf.implicit
      PROVE  Sent(b) <= Wanted(b) /\ Wanted(b) <= Sent(b) + 1
  <2>1. PICK first \in Nat : first = WordsInFirstBlock(conf) /\ first <= bits
    BY <1>1, <1>3, <1>5
       DEF Config, WordsInFirstBlock, BitsSent, HeaderWords
  <2>2. PICK rest \in Nat : /\ rest = Larger(len - first, 0)
                            /\ rest <= len
                            /\ len <= rest + first
    BY <2>1 DEF Larger
  <2>3. /\ Sent(b) \in Nat
        /\ rest <= bits * Sent(b)
        /\ bits * Sent(b) < rest + bits
    BY <1>2, <1>3, <2>1, <2>2, CeilDivCovers DEF Sent, BlocksSent
  <2>4. bits * Wanted(b) \in Int /\ bits * Sent(b) \in Int /\ bits \in Int
    BY <1>4, <2>3
  <2>5. bits * Sent(b) < bits * Wanted(b) + bits
    BY <1>4, <2>2, <2>3, <2>4
  <2>6. bits * Wanted(b) < bits * (Sent(b) + 1) + bits
    <3>1. bits * (Sent(b) + 1) = bits * Sent(b) + bits
      BY <2>3
    <3> QED BY <3>1, <1>4, <2>1, <2>2, <2>3, <2>4
  <2>7. Sent(b) <= Wanted(b)
    BY <1>4, <2>3, <2>5, FewerBlocks
  <2>8. Wanted(b) <= Sent(b) + 1
    <3>1. Sent(b) + 1 \in Nat
      BY <2>3
    <3> QED BY <3>1, <1>4, <2>6, FewerBlocks
  <2> QED BY <2>7, <2>8
<1> QED BY <1>4, <1>5

LEMMA OneBlockMore ==
    ASSUME NEW j \in Int, NEW k \in Int
    PROVE  /\ j * k \in Int
           /\ (j + 1) * k = j * k + k
           /\ (j - 1) * k = j * k - k
OBVIOUS

LEMMA BlocksInOrder ==
    ASSUME NEW i \in Nat, NEW j \in Nat, NEW k \in Nat, i <= j
    PROVE  i * k <= j * k
<1>1. (j - i) * k >= 0
  BY j - i \in Nat
<1>2. j * k = i * k + (j - i) * k
  OBVIOUS
<1> QED BY <1>1, <1>2

(* The first block.                                                        *)
LEMMA HearFirstBlockStep ==
    ASSUME TypeOK, TypeOK', BlockInv, Linked, CodingRate,
           NEW b \in 1..(Len(air.bursts) + 1), At(b),
           HearFirstBlock, UNCHANGED air
    PROVE  At(b)'
<1>1. /\ d_state = "DECODE_HEADER"
      /\ ConsumeSymbol /\ InStep
      /\ conf' = conf /\ frames' = frames /\ d_phdr' = d_phdr
  BY DEF HearFirstBlock, HeaderSymbol, HeaderBlockImplicit, Scheduled, header
<1>2. Settled
  BY <1>1 DEF Settled
<1>3. InFirstBlock(b) /\ InPacket(b) /\ InData(b, Len(d_words)) /\ b \in Bursts
  BY <1>1 DEF At, Place, InFirstBlock, InPacket
<1>4. PICK n \in Nat : n = Len(d_words)
  BY WordsInBlock
<1>5. /\ InData(b, n + 1)' /\ InPacket(b)' /\ Position <= Position'
  BY <1>1, <1>2, <1>3, <1>4, DataMoves
<1>6. Passed(b)'
  BY <1>1, <1>2, <1>5, PassedKept DEF At
<1>7. CASE HeaderSymbol
  <2>1. d_state' = "DECODE_HEADER" /\ Len(d_words') = n + 1
    BY <1>1, <1>4, <1>7, WordsReadFacts DEF HeaderSymbol
  <2>2. InFirstBlock(b)'
    BY <2>1, <1>5 DEF InFirstBlock
  <2> QED BY <2>1, <2>2, <1>6 DEF At, Place
<1>8. CASE HeaderBlockImplicit
  <2>1. /\ d_state' = "DECODE_PAYLOAD" /\ d_words' = <<>>
        /\ conf.implicit
        /\ d_payload_symbols' = 1
        /\ d_demodulated' = Deinterleaved(HeaderBits)
        /\ BlockComplete(TRUE)
    BY <1>8 DEF HeaderBlockImplicit
  <2>2. n + 1 = 8
    BY <2>1, <1>4, WordsInBlock
  <2>3. HeaderBits \in Nat /\ HeaderBits' = HeaderBits
    BY <1>1, BitsFacts DEF HeaderBits
  <2>4. Len(d_demodulated') = HeaderBits
    <3>1. Len(d_demodulated) = 0
      BY <1>1 DEF BlockInv
    <3> QED BY <3>1, <2>1, <2>3, DeinterleavedFacts
  <2>5. d_phdr'.cr = HeaderOf(b)'.cr /\ d_phdr'.cr \in 1..4
    BY <2>1, <1>1, <1>2, <1>3, BurstFacts, Stays DEF CodingRate
  <2>6. 8 + 0 * BlockSymbols' + Len(d_words') = 8
    BY <2>1, <2>5 DEF BlockSymbols
  <2>7. InData(b, 8 + 0 * BlockSymbols + Len(d_words))'
    BY <2>2, <2>6, <1>5
  <2>8. ImplicitCount(b, 0)'
    <3>1. Sent(b)' = Sent(b) /\ Sent(b) \in Nat
      BY <1>2, <1>3, Stays, BlockFacts
    <3>2. PICK bits \in Nat : bits = PayloadBits
      BY BitsFacts
    <3>3. PICK first \in Nat : first = HeaderBits
      BY <2>3
    <3>4. PayloadBits' = bits /\ HeaderBits' = first
      BY <3>2, <3>3, <2>3, <1>1 DEF PayloadBits
    <3>5. first = first + 0 * bits
      OBVIOUS
    <3>6. Len(d_demodulated') = HeaderBits' + 0 * PayloadBits'
      BY <3>3, <3>4, <3>5, <2>4
    <3> QED BY <3>1, <3>6, <2>1 DEF ImplicitCount
  <2>9. InPayload(b, 0)'
    BY <2>1, <2>5, <2>7, <2>8, <1>1, <1>5 DEF InPayload
  <2> QED BY <2>1, <2>9, <1>6 DEF At, Place
<1> QED BY <1>7, <1>8 DEF HearFirstBlock

LEMMA HearHeaderStep ==
    ASSUME TypeOK, TypeOK', BlockInv, Linked,
           NEW b \in 1..(Len(air.bursts) + 1), At(b),
           HearHeader, UNCHANGED air
    PROVE  /\ At(b)'
           /\ CodingRate'
           /\ conf' = conf /\ frames' = frames
<1>1. /\ d_state = "DECODE_HEADER" /\ d_state' = "DECODE_PAYLOAD"
      /\ ~ conf.implicit
      /\ BlockComplete(TRUE)
      /\ d_words' = <<>>
      /\ ConsumeSymbol /\ InStep
      /\ conf' = conf /\ frames' = frames
  BY DEF HearHeader, HeaderBlockExplicit, Scheduled
<1>2. Settled
  BY <1>1 DEF Settled
<1>3. InFirstBlock(b) /\ InPacket(b) /\ b \in Bursts
  BY <1>1 DEF At, Place, InFirstBlock, InPacket
<1>4. Len(d_words) = 7
  <2>1. PICK w \in Nat : w = Len(d_words)
    BY WordsInBlock
  <2>2. w + 1 = 8
    BY <2>1, <1>1, WordsInBlock
  <2> QED BY <2>1, <2>2
<1>5. InData(b, 7)
  BY <1>3, <1>4 DEF InFirstBlock
<1>6. InData(b, 8)' /\ InPacket(b)' /\ Position <= Position'
  <2>1. InData(b, 7 + 1)' /\ InPacket(b)' /\ Position <= Position'
    BY <1>1, <1>2, <1>3, <1>5, DataMoves
  <2> QED BY <2>1
<1>7. Passed(b)'
  BY <1>1, <1>2, <1>6, PassedKept DEF At
<1>8. PICK h \in Header :
         /\ h = HeaderOf(b) /\ h.cr \in 1..4
         /\ h = HeaderOf(b)'
  BY <1>2, <1>3, BurstFacts, Stays
<1>9. DataAligned(b)
  <2>1. DataOf(b) >= 8 /\ DataOf(b) \in Nat
    BY <1>3, BlockFacts
  <2>2. 7 < DataOf(b)
    BY <2>1
  <2> QED BY <2>2, <1>3, <1>5, InsideData
<1>10. d_decoded'.reads_as = {h}
  BY <1>3, <1>8, <1>9 DEF HearHeader, HeaderOf
<1>11. /\ d_phdr' = [length |-> h.length, has_mac_crc |-> h.has_mac_crc,
                     cr |-> ClampedCr(h.cr), rx |-> d_decoded'.rx]
       /\ d_payload_length' = AnnouncedLength(h)
  BY <1>10 DEF HearHeader, HeaderBlockExplicit
<1>12. /\ d_phdr'.length = h.length
       /\ d_phdr'.has_mac_crc = h.has_mac_crc
       /\ d_phdr'.cr = h.cr
  BY <1>8, <1>11 DEF ClampedCr
<1>13. PICK wanted \in Nat : wanted = Wanted(b) /\ wanted = Wanted(b)'
  BY <1>2, <1>3, WantedFacts, Stays
<1>14. d_payload_symbols' = (wanted - 0) * BlockSymbols'
  <2>1. d_payload_symbols' =
           BlocksNeeded(d_payload_length', PayloadBits) * (4 + d_phdr'.cr)
    BY DEF HearHeader, HeaderBlockExplicit
  <2>2. BlocksNeeded(d_payload_length', PayloadBits) = wanted
    BY <1>8, <1>11, <1>13 DEF Wanted
  <2>3. wanted - 0 = wanted
    OBVIOUS
  <2> QED BY <2>1, <2>2, <2>3 DEF BlockSymbols
<1>15. ExplicitCount(b, 0)'
  BY <1>1, <1>8, <1>11, <1>12, <1>13, <1>14 DEF ExplicitCount
<1>16. InPayload(b, 0)'
  <2>1. 8 + 0 * BlockSymbols' + Len(d_words') = 8
    BY <1>1, <1>8, <1>12 DEF BlockSymbols
  <2>2. InData(b, 8 + 0 * BlockSymbols + Len(d_words))'
    BY <2>1, <1>6
  <2> QED BY <2>2, <1>1, <1>6, <1>8, <1>12, <1>15 DEF InPayload
<1>17. At(b)'
  BY <1>1, <1>7, <1>16 DEF At, Place
<1>18. CodingRate'
  BY <1>1, <1>8, <1>12 DEF CodingRate
<1> QED BY <1>1, <1>17, <1>18

(* Behind the last symbol of a packet is silence.                          *)
LEMMA SilenceAtEnd ==
    ASSUME TypeOK, Linked, NEW b \in Bursts, Passed(b), Position = End(b)
    PROVE  Silence
<1>1. ASSUME NEW a \in Bursts, Touches(SamplesPerSymbol, Begin(a), End(a))
      PROVE  FALSE
  <2>1. /\ Position < End(a) /\ Begin(a) < Position + SamplesPerSymbol
        /\ Position \in Int /\ End(a) \in Nat /\ End(b) \in Nat
        /\ Begin(a) \in Nat /\ SamplesPerSymbol \in Nat
        /\ a \in Int /\ b \in Int /\ Len(air.bursts) \in Nat
    BY <1>1, BurstFacts, EndFacts, SymbolFacts, PositionType DEF Touches
  <2>2. a >= b
    <3>1. b \in 1..(Len(air.bursts) + 1)
      BY <2>1 DEF Bursts
    <3> QED BY <2>1, <3>1, BurstsBefore
  <2>3. CASE a > b
    <3>1. End(b) + 5 * SamplesPerSymbol <= Begin(a)
      BY <2>3, Spacing
    <3> QED BY <3>1, <2>1
  <2>4. CASE a = b
    BY <2>1, <2>4
  <2> QED BY <2>1, <2>2, <2>3, <2>4
<1> QED BY <1>1 DEF Silence

(* Where in the payload the decoder is, in symbols of the data.            *)
LEMMA InPayloadFacts ==
    ASSUME TypeOK, BlockInv, Linked, NEW b, NEW j \in Nat, InPayload(b, j),
           d_state = "DECODE_PAYLOAD"
    PROVE  \E n \in Nat, k \in 5..8, w \in Nat :
              /\ k = BlockSymbols /\ w = Len(d_words) /\ w < k
              /\ n = 8 + j * k + w
              /\ InPacket(b) /\ InData(b, n)
              /\ DataOf(b) = 8 + Sent(b) * k
              /\ d_phdr.cr = HeaderOf(b).cr
<1>1. /\ InPacket(b) /\ b \in Bursts /\ air.bursts[b].whole
      /\ d_phdr.cr = HeaderOf(b).cr /\ HeaderOf(b).cr \in 1..4
  BY BurstFacts DEF InPayload, InPacket
<1>2. PICK k \in 5..8 : k = BlockSymbols /\ k = 4 + HeaderOf(b).cr
  BY <1>1 DEF BlockSymbols
<1>3. PICK w \in Nat : w = Len(d_words) /\ w < k
  BY <1>2, WordsInBlock
<1>4. PICK n \in Nat : n = 8 + j * k + w
  <2>1. j * k \in Nat
    OBVIOUS
  <2> QED BY <2>1
<1>5. InData(b, n)
  BY <1>2, <1>3, <1>4 DEF InPayload
<1>6. DataOf(b) = 8 + Sent(b) * k
  BY <1>1, <1>2, BlockFacts
<1> QED BY <1>1, <1>2, <1>3, <1>4, <1>5, <1>6

LEMMA InPayloadKept ==
    ASSUME Settled, NEW b, NEW i \in Nat, NEW k \in Nat, NEW n \in Nat,
           NEW w \in Nat, InPacket(b)', InData(b, n)', n = 8 + i * k + w,
           k = BlockSymbols, w = Len(d_words'),
           d_phdr' = d_phdr, d_phdr.cr = HeaderOf(b).cr,
           conf.implicit => ImplicitCount(b, i)',
           ~ conf.implicit => ExplicitCount(b, i)'
    PROVE  InPayload(b, i)'
<1>1. HeaderOf(b)' = HeaderOf(b) /\ conf' = conf
  BY Stays
<1>2. BlockSymbols' = k
  BY DEF BlockSymbols
<1>3. InData(b, 8 + i * BlockSymbols + Len(d_words))'
  BY <1>2
<1> QED BY <1>1, <1>3 DEF InPayload

(* Without a header the payload ends with the energy.                      *)
LEMMA ImplicitSymbolStep ==
    ASSUME TypeOK, TypeOK', BlockInv, Linked, conf.implicit,
           NEW b \in 1..(Len(air.bursts) + 1), At(b),
           HearSymbol, UNCHANGED air
    PROVE  /\ At(b)'
           /\ conf' = conf /\ frames' = frames /\ d_phdr' = d_phdr
<1>1. /\ d_state = "DECODE_PAYLOAD"
      /\ ConsumeSymbol /\ InStep /\ ~ Silence
      /\ conf' = conf /\ d_phdr' = d_phdr
  BY DEF HearSymbol, PayloadSymbol, PayloadBlock, Scheduled
<1>2. Settled
  BY <1>1 DEF Settled
<1>3. Passed(b) /\ \E j \in Nat : InPayload(b, j)
  BY <1>1 DEF At, Place
<1>4. PICK j \in Nat : InPayload(b, j)
  BY <1>3
<1>5. PICK n \in Nat, k \in 5..8, w \in Nat :
         /\ k = BlockSymbols /\ w = Len(d_words) /\ w < k
         /\ n = 8 + j * k + w
         /\ InPacket(b) /\ InData(b, n)
         /\ DataOf(b) = 8 + Sent(b) * k
         /\ d_phdr.cr = HeaderOf(b).cr
  BY <1>1, <1>4, InPayloadFacts
<1>6. /\ InData(b, n + 1)' /\ InPacket(b)' /\ Position <= Position'
  BY <1>1, <1>2, <1>5, DataMoves
<1>7. Passed(b)' \/ frames' # frames
  BY <1>2, <1>3, <1>6, PassedKept
<1>8. /\ j <= Sent(b)
      /\ j = Sent(b) => d_words = <<>>
      /\ d_payload_symbols = 1
      /\ Len(d_demodulated) = HeaderBits + j * PayloadBits
  BY <1>4 DEF InPayload, ImplicitCount
<1>9. j < Sent(b) /\ Sent(b) \in Nat /\ Sent(b)' = Sent(b)
  <2>1. Sent(b) \in Nat /\ b \in Bursts
    BY <1>5, BlockFacts DEF InPacket
  <2>2. CASE j = Sent(b)
    <3>1. w = 0
      BY <2>2, <1>5, <1>8
    <3>2. n = DataOf(b)
      BY <2>1, <2>2, <3>1, <1>5
    <3>3. n >= DataOf(b)
      BY <3>2
    <3>4. Position = End(b)
      BY <3>2, <3>3, <1>5, BehindData
    <3> QED BY <3>4, <2>1, <1>1, <1>3, SilenceAtEnd
  <2> QED BY <2>1, <2>2, <1>2, <1>8, Stays
<1>10. PICK first \in Nat, bits \in Nat :
          /\ first = HeaderBits /\ first = HeaderBits'
          /\ bits = PayloadBits /\ bits = PayloadBits'
  BY <1>1, BitsFacts DEF HeaderBits, PayloadBits
<1>11. CASE PayloadSymbol
  <2>1. /\ d_state' = "DECODE_PAYLOAD" /\ frames' = frames
        /\ d_words' = WordsRead /\ d_demodulated' = d_demodulated
        /\ d_payload_symbols' = 1
    <3>1. FinishOrContinue(WordsRead, d_demodulated, 1)
      BY <1>8, <1>11 DEF PayloadSymbol
    <3> QED BY <3>1, <1>1 DEF FinishOrContinue
  <2>2. w + 1 \in Nat /\ w + 1 = Len(d_words') /\ n + 1 = 8 + j * k + (w + 1)
        /\ n + 1 \in Nat /\ k \in Nat
    <3>1. j * k \in Nat
      OBVIOUS
    <3> QED BY <2>1, <3>1, <1>5, WordsReadFacts
  <2>3. ImplicitCount(b, j)'
    BY <2>1, <1>8, <1>9, <1>10 DEF ImplicitCount
  <2>4. InPayload(b, j)'
    BY <2>2, <2>3, <1>1, <1>2, <1>5, <1>6, InPayloadKept
  <2> QED BY <2>1, <2>4, <1>1, <1>7 DEF At, Place
<1>12. CASE PayloadBlock
  <2>1. /\ d_state' = "DECODE_PAYLOAD" /\ frames' = frames
        /\ d_words' = <<>> /\ d_demodulated' = Deinterleaved(PayloadBits)
        /\ d_payload_symbols' = 1
    <3>1. FinishOrContinue(<<>>, Deinterleaved(PayloadBits), 1)
      BY <1>8, <1>12 DEF PayloadBlock, SymbolsLeft
    <3> QED BY <3>1, <1>1 DEF FinishOrContinue
  <2>2. w + 1 = k
    BY <1>5, <1>12, WordsInBlock DEF PayloadBlock
  <2> DEFINE i == j + 1
  <2>3. i \in Nat /\ n + 1 \in Nat /\ k \in Nat /\ 0 \in Nat
        /\ n + 1 = 8 + i * k + 0 /\ 0 = Len(d_words')
    <3>1. (j + 1) * k = j * k + k /\ j * k \in Int /\ k \in Int
      BY OneBlockMore
    <3>2. n + 1 = 8 + (j + 1) * k
      <4>1. n = 8 + j * k + w
        BY <1>5
      <4> QED BY <4>1, <3>1, <2>2
    <3>3. Len(d_words') = 0
      BY <2>1
    <3> QED BY <3>1, <3>2, <3>3
  <2>4. Len(d_demodulated') = first + i * bits
    <3>1. Len(d_demodulated') = Len(d_demodulated) + bits
      BY <2>1, <1>10, DeinterleavedFacts
    <3>2. Len(d_demodulated) = first + j * bits
      BY <1>8, <1>10
    <3>3. (j + 1) * bits = j * bits + bits /\ j * bits \in Int
      BY OneBlockMore
    <3> QED BY <3>1, <3>2, <3>3
  <2>5. ImplicitCount(b, i)'
    <3>1. i <= Sent(b)
      BY <1>9
    <3> HIDE DEF i
    <3> QED BY <2>1, <2>4, <3>1, <1>9, <1>10 DEF ImplicitCount
  <2> HIDE DEF i
  <2>6. InPayload(b, i)'
    BY <2>3, <2>5, <1>1, <1>2, <1>5, <1>6, InPayloadKept
  <2> QED BY <2>1, <2>3, <2>6, <1>1, <1>7 DEF At, Place
<1> QED BY <1>11, <1>12 DEF HearSymbol

LEMMA HearEndStep ==
    ASSUME TypeOK, TypeOK', BlockInv, Linked, CodingRate, OnlyPackets,
           NEW b \in 1..(Len(air.bursts) + 1), At(b),
           HearEnd, UNCHANGED air
    PROVE  /\ OnlyPackets'
           /\ CodingRate'
           /\ \E c \in 1..(Len(air.bursts) + 1) : At(c)'
<1>1. /\ d_state = "DECODE_PAYLOAD" /\ conf.implicit
      /\ d_payload_length' = ImplicitLength
      /\ Publish(d_words, d_demodulated, d_payload_length')
      /\ avail' = avail - SamplesPerSymbol
      /\ conf' = conf /\ d_phdr' = d_phdr
      /\ \A a \in Bursts : ~ Within(SamplesPerSymbol, Begin(a), End(a))
  BY DEF HearEnd, PayloadEnergyDrop, Scheduled, Consume
<1>2. Settled
  BY <1>1 DEF Settled
<1>3. Passed(b) /\ \E j \in Nat : InPayload(b, j)
  BY <1>1 DEF At, Place
<1>4. PICK j \in Nat : InPayload(b, j)
  BY <1>3
<1>5. PICK n \in Nat, k \in 5..8, w \in Nat :
         /\ k = BlockSymbols /\ w = Len(d_words) /\ w < k
         /\ n = 8 + j * k + w
         /\ InPacket(b) /\ InData(b, n)
         /\ DataOf(b) = 8 + Sent(b) * k
         /\ d_phdr.cr = HeaderOf(b).cr
  BY <1>1, <1>4, InPayloadFacts
<1>6. /\ j <= Sent(b)
      /\ j = Sent(b) => d_words = <<>>
      /\ Len(d_demodulated) = HeaderBits + j * PayloadBits
  BY <1>1, <1>4 DEF InPayload, ImplicitCount
<1>7. b \in Bursts /\ Sent(b) \in Nat /\ End(b) \in Nat /\ Begin(b) \in Nat
  BY <1>5, BlockFacts, EndFacts, BurstFacts DEF InPacket
<1>8. j = Sent(b)
  <2>1. CASE j < Sent(b)
    <3>1. n < DataOf(b)
      <4>1. j + 1 <= Sent(b) /\ j + 1 \in Nat /\ k \in Nat
        BY <2>1, <1>7
      <4>2. (j + 1) * k <= Sent(b) * k
        BY <4>1, <1>7, BlocksInOrder
      <4>3. (j + 1) * k = j * k + k /\ j * k \in Int /\ Sent(b) * k \in Int
        BY <1>7, OneBlockMore
      <4> QED BY <4>2, <4>3, <1>5
    <3>2. /\ Position = Begin(b) + DataAt + Symbols(n)
          /\ Position + SamplesPerSymbol <= End(b)
      BY <3>1, <1>5, InsideData
    <3>3. Symbols(0) = 0 /\ Symbols(0) <= Symbols(n) /\ Symbols(n) \in Int
      <4>1. 0 \in Int /\ n \in Int /\ 0 <= n
        OBVIOUS
      <4> QED BY <4>1, FewSymbols, SymbolsInOrder, SymbolsAdd
    <3>4. Begin(b) <= Position
      BY <3>2, <3>3, <1>7, Parts
    <3> QED BY <3>2, <3>4, <1>1, <1>7 DEF Within
  <2> QED BY <2>1, <1>6, <1>7
<1>9. Position = End(b)
  <2>1. w = 0
    BY <1>5, <1>6, <1>8
  <2>2. n = DataOf(b)
    BY <2>1, <1>5, <1>7, <1>8
  <2>3. n >= DataOf(b)
    BY <2>2
  <2> QED BY <2>2, <2>3, <1>5, BehindData
<1>10. /\ Position \in Int /\ Position' \in Int
       /\ Position <= Position' /\ End(b) <= Position'
       /\ Position' <= End(b) + 9 * SamplesPerSymbol
  <2>1. SamplesPerSymbol \in Nat /\ SamplesPerSymbol \in Int
    BY SymbolFacts
  <2>2. Position \in Int /\ Position' \in Int
        /\ Position' = Position + SamplesPerSymbol
    BY <2>1, <1>1, PositionMoves
  <2> QED BY <2>1, <2>2, <1>7, <1>9
<1>11. PICK len \in Nat : len = d_payload_length'
  BY DEF TypeOK
<1>12. len = LengthOf(HeaderOf(b))
  BY <1>1, <1>6, <1>8, <1>11 DEF ImplicitLength, LengthOf, Sent
<1>13. d_words \in Seq(Nat) /\ d_demodulated \in Seq(SUBSET Nat)
  BY DEF TypeOK
<1>14. Publish(d_words, d_demodulated, len)
  BY <1>1, <1>11
<1> QED BY <1>1, <1>2, <1>3, <1>5, <1>7, <1>10, <1>12, <1>13, <1>14,
           PacketPublished

(* With a header the payload ends with the last symbol it asks for.        *)
LEMMA ExplicitSymbolStep ==
    ASSUME TypeOK, TypeOK', BlockInv, Linked, CodingRate, OnlyPackets,
           ~ conf.implicit, NEW b \in 1..(Len(air.bursts) + 1), At(b),
           HearSymbol, PayloadSymbol, UNCHANGED air
    PROVE  /\ OnlyPackets'
           /\ CodingRate'
           /\ \E c \in 1..(Len(air.bursts) + 1) : At(c)'
<1>1. /\ d_state = "DECODE_PAYLOAD"
      /\ ConsumeSymbol /\ InStep
      /\ conf' = conf /\ d_phdr' = d_phdr
      /\ d_payload_length' = d_payload_length
      /\ FinishOrContinue(WordsRead, d_demodulated, d_payload_symbols)
  BY DEF HearSymbol, PayloadSymbol, Scheduled
<1>2. Settled
  BY <1>1 DEF Settled
<1>3. Passed(b) /\ \E j \in Nat : InPayload(b, j)
  BY <1>1 DEF At, Place
<1>4. PICK j \in Nat : InPayload(b, j)
  BY <1>3
<1>5. PICK n \in Nat, k \in 5..8, w \in Nat :
         /\ k = BlockSymbols /\ w = Len(d_words) /\ w < k
         /\ n = 8 + j * k + w
         /\ InPacket(b) /\ InData(b, n)
         /\ DataOf(b) = 8 + Sent(b) * k
         /\ d_phdr.cr = HeaderOf(b).cr
  BY <1>1, <1>4, InPayloadFacts
<1>6. /\ InData(b, n + 1)' /\ InPacket(b)'
      /\ Position \in Int /\ Position' \in Int /\ Position <= Position'
  BY <1>1, <1>2, <1>5, DataMoves
<1>7. ExplicitCount(b, j)
  BY <1>4 DEF InPayload
<1>8. b \in Bursts /\ Sent(b) \in Nat
  BY <1>5, BlockFacts DEF InPacket
<1>9. PICK wanted \in Nat : /\ wanted = Wanted(b)
                            /\ Sent(b) <= wanted /\ wanted <= Sent(b) + 1
  BY <1>8, WantedFacts
<1>10. /\ j <= wanted
       /\ j = wanted => j = 0 /\ d_words = <<>>
       /\ d_payload_symbols = (wanted - j) * k
       /\ d_payload_length = AnnouncedLength(HeaderOf(b))
       /\ d_phdr.length = HeaderOf(b).length
       /\ d_phdr.has_mac_crc = HeaderOf(b).has_mac_crc
  BY <1>5, <1>7, <1>9 DEF ExplicitCount
<1>11. CASE j = wanted
  <2>1. d_payload_symbols = 0 /\ w = 0 /\ j = 0
    <3>1. wanted - j = 0 /\ 0 * k = 0
      BY <1>11
    <3> QED BY <3>1, <1>5, <1>10, <1>11
  <2>2. PICK len \in Nat : len = d_payload_length
    BY DEF TypeOK
  <2>3. Publish(WordsRead, d_demodulated, len)
    BY <2>1, <2>2, <1>1 DEF FinishOrContinue
  <2>4. DataOf(b) <= n + 1 /\ n + 1 <= DataOf(b) + 8
    <3>1. Sent(b) = 0 /\ 0 * k = 0
      BY <2>1, <1>8, <1>9, <1>11
    <3>2. DataOf(b) = 8 /\ n = 8
      BY <2>1, <3>1, <1>5
    <3> QED BY <3>2
  <2>5. /\ End(b) <= Position'
        /\ Position' <= End(b) + 9 * SamplesPerSymbol
    BY <2>4, <1>1, <1>2, <1>5, EndReached
  <2>6. len = LengthOf(HeaderOf(b))
    BY <2>2, <1>10 DEF LengthOf
  <2>7. WordsRead \in Seq(Nat) /\ d_demodulated \in Seq(SUBSET Nat)
    BY WordsReadFacts DEF TypeOK
  <2> QED BY <2>3, <2>5, <2>6, <2>7, <1>1, <1>2, <1>3, <1>5, <1>6, <1>8,
             <1>10, PacketPublished
<1>12. CASE j # wanted
  <2>1. d_payload_symbols > 0
    <3>1. PICK more \in Nat : wanted - j = more /\ more >= 1
      BY <1>10, <1>12
    <3>2. more * k >= 1 * k
      <4>1. 1 \in Nat /\ k \in Nat /\ 1 <= more
        BY <3>1
      <4> QED BY <4>1, BlocksInOrder
    <3>3. 1 * k = k /\ more * k \in Int /\ k \in Int /\ k > 0
      OBVIOUS
    <3> QED BY <3>1, <3>2, <3>3, <1>10
  <2>2. /\ d_state' = "DECODE_PAYLOAD" /\ frames' = frames
        /\ d_words' = WordsRead /\ d_payload_symbols' = d_payload_symbols
    <3>1. d_payload_symbols \in Int
      BY DEF TypeOK
    <3>2. ~ (d_payload_symbols <= 0)
      BY <2>1, <3>1
    <3> QED BY <3>2, <1>1 DEF FinishOrContinue
  <2>3. w + 1 \in Nat /\ w + 1 = Len(d_words') /\ n + 1 = 8 + j * k + (w + 1)
        /\ n + 1 \in Nat /\ k \in Nat
    <3>1. j * k \in Nat
      OBVIOUS
    <3> QED BY <2>2, <3>1, <1>5, WordsReadFacts
  <2>4. ExplicitCount(b, j)'
    <3>1. HeaderOf(b)' = HeaderOf(b) /\ Wanted(b)' = wanted /\ BlockSymbols' = k
      BY <1>1, <1>2, <1>5, <1>9, Stays DEF BlockSymbols
    <3> QED BY <2>2, <3>1, <1>1, <1>10, <1>12 DEF ExplicitCount
  <2>5. InPayload(b, j)'
    BY <2>3, <2>4, <1>1, <1>2, <1>5, <1>6, InPayloadKept
  <2>6. Passed(b)'
    BY <2>2, <1>2, <1>3, <1>6, PassedKept
  <2>7. At(b)'
    BY <2>2, <2>5, <2>6 DEF At, Place
  <2>8. OnlyPackets' /\ CodingRate'
    BY <2>2, <1>1, <1>2, OnlyPacketsKept DEF CodingRate
  <2> QED BY <2>7, <2>8
<1> QED BY <1>11, <1>12

LEMMA ExplicitBlockStep ==
    ASSUME TypeOK, TypeOK', BlockInv, Linked, CodingRate, OnlyPackets,
           ~ conf.implicit, NEW b \in 1..(Len(air.bursts) + 1), At(b),
           HearSymbol, PayloadBlock, UNCHANGED air
    PROVE  /\ OnlyPackets'
           /\ CodingRate'
           /\ \E c \in 1..(Len(air.bursts) + 1) : At(c)'
<1>1. /\ d_state = "DECODE_PAYLOAD"
      /\ ConsumeSymbol /\ InStep
      /\ conf' = conf /\ d_phdr' = d_phdr
      /\ d_payload_length' = d_payload_length
      /\ BlockComplete(FALSE)
      /\ FinishOrContinue(<<>>, Deinterleaved(PayloadBits), SymbolsLeft)
  BY DEF HearSymbol, PayloadBlock, Scheduled
<1>2. Settled
  BY <1>1 DEF Settled
<1>3. Passed(b) /\ \E j \in Nat : InPayload(b, j)
  BY <1>1 DEF At, Place
<1>4. PICK j \in Nat : InPayload(b, j)
  BY <1>3
<1>5. PICK n \in Nat, k \in 5..8, w \in Nat :
         /\ k = BlockSymbols /\ w = Len(d_words) /\ w < k
         /\ n = 8 + j * k + w
         /\ InPacket(b) /\ InData(b, n)
         /\ DataOf(b) = 8 + Sent(b) * k
         /\ d_phdr.cr = HeaderOf(b).cr
  BY <1>1, <1>4, InPayloadFacts
<1>6. /\ InData(b, n + 1)' /\ InPacket(b)'
      /\ Position \in Int /\ Position' \in Int /\ Position <= Position'
  BY <1>1, <1>2, <1>5, DataMoves
<1>7. ExplicitCount(b, j)
  BY <1>4 DEF InPayload
<1>8. b \in Bursts /\ Sent(b) \in Nat
  BY <1>5, BlockFacts DEF InPacket
<1>9. PICK wanted \in Nat : /\ wanted = Wanted(b)
                            /\ Sent(b) <= wanted /\ wanted <= Sent(b) + 1
  BY <1>8, WantedFacts
<1>10. /\ j <= wanted
       /\ j = wanted => j = 0 /\ d_words = <<>>
       /\ d_payload_symbols = (wanted - j) * k
       /\ d_payload_length = AnnouncedLength(HeaderOf(b))
       /\ d_phdr.length = HeaderOf(b).length
       /\ d_phdr.has_mac_crc = HeaderOf(b).has_mac_crc
  BY <1>5, <1>7, <1>9 DEF ExplicitCount
<1>11. w + 1 = k
  BY <1>1, <1>5, WordsInBlock
<1>12. PICK i \in Nat : /\ i = j + 1 /\ i <= wanted
                        /\ n + 1 = 8 + i * k
                        /\ SymbolsLeft = (wanted - i) * k
  <2>1. j < wanted
    <3>1. CASE j = wanted
      <4>1. w = 0
        BY <3>1, <1>5, <1>10
      <4> QED BY <4>1, <1>11
    <3> QED BY <3>1, <1>10
  <2>2. /\ (j + 1) * k = j * k + k /\ j * k \in Int
        /\ (wanted - j - 1) * k = (wanted - j) * k - k
        /\ (wanted - j) * k \in Int
        /\ k \in Int
    <3>1. wanted - j \in Int /\ k \in Int /\ j \in Int
      OBVIOUS
    <3> QED BY <3>1, OneBlockMore
  <2>3. n + 1 = 8 + (j + 1) * k
    <3>1. n = 8 + j * k + w
      BY <1>5
    <3> QED BY <3>1, <2>2, <1>11
  <2>4. SymbolsLeft = (wanted - (j + 1)) * k
    <3>1. SymbolsLeft = (wanted - j) * k - k
      BY <1>5, <1>10 DEF SymbolsLeft, BlockSymbols
    <3>2. wanted - j - 1 = wanted - (j + 1)
      OBVIOUS
    <3> QED BY <3>1, <3>2, <2>2
  <2> QED BY <2>1, <2>3, <2>4
<1>13. CASE i = wanted
  <2>1. SymbolsLeft = 0
    <3>1. wanted - i = 0 /\ 0 * k = 0
      BY <1>13
    <3> QED BY <3>1, <1>12
  <2>2. PICK len \in Nat : len = d_payload_length
    BY DEF TypeOK
  <2>3. PICK demodulated \in Seq(SUBSET Nat) :
           demodulated = Deinterleaved(PayloadBits)
    <3>1. PayloadBits \in Nat
      BY BitsFacts
    <3> QED BY <3>1, DeinterleavedFacts
  <2>4. Publish(<<>>, demodulated, len)
    BY <2>1, <2>2, <2>3, <1>1 DEF FinishOrContinue
  <2>5. DataOf(b) <= n + 1 /\ n + 1 <= DataOf(b) + 8
    <3>1. PICK sent \in Nat : sent = Sent(b) /\ sent <= i /\ i <= sent + 1
      BY <1>8, <1>9, <1>13
    <3>2. sent * k <= i * k /\ i * k <= (sent + 1) * k
      <4>1. k \in Nat /\ sent + 1 \in Nat
        OBVIOUS
      <4> QED BY <3>1, <4>1, BlocksInOrder
    <3>3. (sent + 1) * k = sent * k + k /\ sent * k \in Int /\ i * k \in Int
      BY OneBlockMore
    <3>4. DataOf(b) = 8 + sent * k /\ n + 1 = 8 + i * k
      BY <3>1, <1>5, <1>12
    <3> QED BY <3>2, <3>3, <3>4
  <2>6. /\ End(b) <= Position'
        /\ Position' <= End(b) + 9 * SamplesPerSymbol
    BY <2>5, <1>1, <1>2, <1>5, EndReached
  <2>7. len = LengthOf(HeaderOf(b))
    BY <2>2, <1>10 DEF LengthOf
  <2>8. <<>> \in Seq(Nat)
    OBVIOUS
  <2> QED BY <2>4, <2>6, <2>7, <2>8, <1>1, <1>2, <1>3, <1>5, <1>6, <1>8,
             <1>10, PacketPublished
<1>14. CASE i # wanted
  <2>1. SymbolsLeft > 0 /\ SymbolsLeft \in Int
    <3>1. PICK more \in Nat : wanted - i = more /\ more >= 1
      BY <1>12, <1>14
    <3>2. more * k >= 1 * k
      <4>1. 1 \in Nat /\ k \in Nat /\ 1 <= more
        BY <3>1
      <4> QED BY <4>1, BlocksInOrder
    <3>3. 1 * k = k /\ more * k \in Int /\ k \in Int /\ k > 0
      OBVIOUS
    <3> QED BY <3>1, <3>2, <3>3, <1>12
  <2>2. /\ d_state' = "DECODE_PAYLOAD" /\ frames' = frames
        /\ d_words' = <<>> /\ d_payload_symbols' = SymbolsLeft
    <3>1. ~ (SymbolsLeft <= 0)
      BY <2>1
    <3> QED BY <3>1, <1>1 DEF FinishOrContinue
  <2>3. n + 1 \in Nat /\ n + 1 = 8 + i * k + 0 /\ 0 = Len(d_words')
        /\ 0 \in Nat /\ k \in Nat
    <3>1. i * k \in Nat
      OBVIOUS
    <3>2. n + 1 = 8 + i * k
      BY <1>12
    <3> QED BY <2>2, <3>1, <3>2
  <2>4. ExplicitCount(b, i)'
    <3>1. HeaderOf(b)' = HeaderOf(b) /\ Wanted(b)' = wanted /\ BlockSymbols' = k
      BY <1>1, <1>2, <1>5, <1>9, Stays DEF BlockSymbols
    <3> QED BY <2>2, <3>1, <1>1, <1>10, <1>12, <1>14 DEF ExplicitCount
  <2>5. InPayload(b, i)'
    BY <2>3, <2>4, <1>1, <1>2, <1>5, <1>6, InPayloadKept
  <2>6. Passed(b)'
    BY <2>2, <1>2, <1>3, <1>6, PassedKept
  <2>7. At(b)'
    BY <2>2, <2>5, <2>6 DEF At, Place
  <2>8. OnlyPackets' /\ CodingRate'
    BY <2>2, <1>1, <1>2, OnlyPacketsKept DEF CodingRate
  <2> QED BY <2>7, <2>8
<1> QED BY <1>13, <1>14

-----------------------------------------------------------------------------
(* The invariant.                                                          *)

LEMMA LinkInitInv == LinkInit => LinkInv
<1> SUFFICES ASSUME LinkInit PROVE LinkInv
  OBVIOUS
<1>1. Init /\ air \in Transmissions /\ conf = air.conf
  BY DEF LinkInit
<1>2. Linked
  BY <1>1 DEF Linked
<1>3. TypeOK
  BY <1>1, InitTypeInv DEF TypeInv
<1>4. CodingRate
  <2>1. conf \in Config /\ d_phdr.cr = conf.cr
    BY <1>1, ConfigsAssumption DEF Init
  <2> QED BY <2>1 DEF Config, CodingRate
<1>5. Len(frames) = 0 /\ d_state = "DETECT" /\ avail = StreamLength[conf]
  BY <1>1 DEF Init
<1>6. OnlyPackets
  BY <1>5 DEF OnlyPackets
<1>7. Position = 0
  <2>1. StreamLength[conf] \in Nat
    BY <1>3, SamplesAssumption DEF TypeOK
  <2> QED BY <2>1, <1>5 DEF Position
<1>8. Passed(1)
  <2>1. PacketsUpTo(0) = 0
    <3>1. {a \in 1..0 : air.bursts[a].whole} = {}
      OBVIOUS
    <3> QED BY <3>1, FS_EmptySet DEF PacketsUpTo
  <2>2. 1 - 1 = 0 /\ 1..0 = {}
    OBVIOUS
  <2> QED BY <2>1, <2>2, <1>5 DEF Passed
<1>9. Listening(1)
  <2>1. ASSUME 1 \in Bursts
        PROVE  Position <= Begin(1) + SyncWordAt - 2 * SamplesPerSymbol
    <3>1. Begin(1) \in Nat
      BY <2>1, <1>2, <1>3, BurstFacts
    <3> QED BY <3>1, <1>7, Parts, SymbolFacts
  <2> QED BY <2>1 DEF Listening
<1>10. At(1)
  BY <1>5, <1>8, <1>9 DEF At, Place
<1>11. 1 \in 1..(Len(air.bursts) + 1)
  BY <1>2, <1>3, BurstFacts
<1> QED BY <1>2, <1>4, <1>6, <1>10, <1>11 DEF LinkInv

LEMMA LinkNextInv ==
    ASSUME TypeOK, TypeOK', BlockInv, LinkInv, [LinkNext]_linkVars
    PROVE  LinkInv'
<1>1. Linked /\ CodingRate /\ OnlyPackets
  BY DEF LinkInv
<1>2. PICK b \in 1..(Len(air.bursts) + 1) : At(b)
  BY DEF LinkInv
<1>3. ASSUME conf' = conf, air' = air, frames' = frames, d_phdr' = d_phdr
      PROVE  Linked' /\ CodingRate' /\ OnlyPackets'
  <2>1. Settled
    BY <1>3 DEF Settled
  <2> QED BY <2>1, <1>1, <1>3, OnlyPacketsKept DEF Linked, CodingRate
<1>4. ASSUME conf' = conf, air' = air, CodingRate', OnlyPackets',
             \E c \in 1..(Len(air.bursts) + 1) : At(c)'
      PROVE  LinkInv'
  BY <1>1, <1>4 DEF LinkInv, Linked
<1>5. CASE LinkNext
  <2>0. air' = air
    BY <1>5 DEF LinkNext
  <2>1. CASE HearNothing
    <3>1. At(b)'
      BY <2>0, <2>1, <1>1, <1>2, HearNothingStep
    <3>2. conf' = conf /\ frames' = frames /\ d_phdr' = d_phdr
      BY <2>1 DEF HearNothing, DetectNothing, header
    <3> QED BY <3>1, <3>2, <2>0, <1>2, <1>3, <1>4
  <2>2. CASE HearPreamble
    <3>1. At(b)'
      BY <2>0, <2>2, <1>1, <1>2, HearPreambleStep
    <3>2. conf' = conf /\ frames' = frames /\ d_phdr' = d_phdr
      BY <2>2 DEF HearPreamble, DetectPreamble, header
    <3> QED BY <3>1, <3>2, <2>0, <1>2, <1>3, <1>4
  <2>3. CASE HearUpchirp
    <3>1. At(b)'
      BY <2>0, <2>3, <1>1, <1>2, HearUpchirpStep
    <3>2. conf' = conf /\ frames' = frames /\ d_phdr' = d_phdr
      BY <2>3 DEF HearUpchirp, Sync, header
    <3> QED BY <3>1, <3>2, <2>0, <1>2, <1>3, <1>4
  <2>4. CASE HearSfd
    <3>1. At(b)'
      BY <2>0, <2>4, <1>1, <1>2, HearSfdStep
    <3>2. conf' = conf /\ frames' = frames /\ d_phdr' = d_phdr
      BY <2>4 DEF HearSfd, FindSfdDownchirp, header
    <3> QED BY <3>1, <3>2, <2>0, <1>2, <1>3, <1>4
  <2>5. CASE HearPreambleGoOn
    <3>1. At(b)'
      BY <2>0, <2>5, <1>1, <1>2, HearPreambleGoOnStep
    <3>2. conf' = conf /\ frames' = frames /\ d_phdr' = d_phdr
      BY <2>5 DEF HearPreambleGoOn, FindSfdUpchirp, header
    <3> QED BY <3>1, <3>2, <2>0, <1>2, <1>3, <1>4
  <2>6. CASE HearOther
    <3>1. \E c \in 1..(Len(air.bursts) + 1) : At(c)'
      BY <2>0, <2>6, <1>1, <1>2, HearOtherStep
    <3>2. conf' = conf /\ frames' = frames /\ d_phdr' = d_phdr
      BY <2>6 DEF HearOther, FindSfdFail, header
    <3> QED BY <3>1, <3>2, <2>0, <1>3, <1>4
  <2>7. CASE Pause
    <3>1. At(b)'
      BY <2>0, <2>7, <1>1, <1>2, PauseStep
    <3>2. conf' = conf /\ frames' = frames /\ d_phdr' = d_phdr
      BY <2>7 DEF Pause, header
    <3> QED BY <3>1, <3>2, <2>0, <1>2, <1>3, <1>4
  <2>8. CASE HearFirstBlock
    <3>1. At(b)'
      BY <2>0, <2>8, <1>1, <1>2, HearFirstBlockStep
    <3>2. conf' = conf /\ frames' = frames /\ d_phdr' = d_phdr
      BY <2>8 DEF HearFirstBlock, HeaderSymbol, HeaderBlockImplicit, header
    <3> QED BY <3>1, <3>2, <2>0, <1>2, <1>3, <1>4
  <2>9. CASE HearHeader
    <3>1. At(b)' /\ CodingRate' /\ conf' = conf /\ frames' = frames
      BY <2>0, <2>9, <1>1, <1>2, HearHeaderStep
    <3>2. OnlyPackets'
      BY <3>1, <2>0, <1>1, OnlyPacketsKept DEF Settled
    <3> QED BY <3>1, <3>2, <2>0, <1>2, <1>4
  <2>10. CASE HearSymbol
    <3>1. conf' = conf
      BY <2>10 DEF HearSymbol, PayloadSymbol, PayloadBlock
    <3>2. CASE conf.implicit
      <4>1. At(b)' /\ frames' = frames /\ d_phdr' = d_phdr
        BY <2>0, <2>10, <3>2, <1>1, <1>2, ImplicitSymbolStep
      <4> QED BY <4>1, <3>1, <2>0, <1>2, <1>3, <1>4
    <3>3. CASE ~ conf.implicit /\ PayloadSymbol
      <4>1. /\ OnlyPackets' /\ CodingRate'
            /\ \E c \in 1..(Len(air.bursts) + 1) : At(c)'
        BY <2>0, <2>10, <3>3, <1>1, <1>2, ExplicitSymbolStep
      <4> QED BY <4>1, <3>1, <2>0, <1>4
    <3>4. CASE ~ conf.implicit /\ PayloadBlock
      <4>1. /\ OnlyPackets' /\ CodingRate'
            /\ \E c \in 1..(Len(air.bursts) + 1) : At(c)'
        BY <2>0, <2>10, <3>4, <1>1, <1>2, ExplicitBlockStep
      <4> QED BY <4>1, <3>1, <2>0, <1>4
    <3> QED BY <3>2, <3>3, <3>4, <2>10 DEF HearSymbol
  <2>11. CASE HearEnd
    <3>1. conf' = conf
      BY <2>11 DEF HearEnd, PayloadEnergyDrop
    <3>2. /\ OnlyPackets' /\ CodingRate'
          /\ \E c \in 1..(Len(air.bursts) + 1) : At(c)'
      BY <2>0, <2>11, <1>1, <1>2, HearEndStep
    <3> QED BY <3>1, <3>2, <2>0, <1>4
  <2> QED BY <1>5, <2>1, <2>2, <2>3, <2>4, <2>5, <2>6, <2>7, <2>8, <2>9,
             <2>10, <2>11 DEF LinkNext
<1>6. CASE UNCHANGED linkVars
  <2>1. /\ air' = air /\ conf' = conf /\ frames' = frames
        /\ d_phdr' = d_phdr /\ d_state' = d_state /\ d_words' = d_words
        /\ d_demodulated' = d_demodulated /\ avail' = avail
        /\ d_payload_length' = d_payload_length
        /\ d_payload_symbols' = d_payload_symbols
        /\ d_corr_fails' = d_corr_fails
    BY <1>6 DEF linkVars, vars, buffers, header, signal
  <2>2. At(b)'
    <3>1. Position' = Position /\ PayloadBits' = PayloadBits
          /\ HeaderBits' = HeaderBits /\ BlockSymbols' = BlockSymbols
      BY <2>1 DEF Position, PayloadBits, HeaderBits, BlockSymbols
    <3>2. Settled
      BY <2>1 DEF Settled
    <3>3. Passed(b)'
      BY <3>1, <3>2, <2>1, <1>1, <1>2, PassedKept, PositionType DEF At
    <3>4. Place(b)'
      <4>1. \A j \in Nat : InPayload(b, j) => InPayload(b, j)'
        <5> TAKE j \in Nat
        <5> QED BY <3>1, <3>2, <2>1, Stays
                DEF InPayload, InPacket, InData, ImplicitCount, ExplicitCount
      <4>2. Listening(b)' <=> Listening(b)
        BY <3>1, <3>2, Stays DEF Listening
      <4>3. Heard(b) => Heard(b)'
        BY <3>1, <3>2, <2>1, Stays DEF Heard
      <4>4. Searching(b) => Searching(b)'
        BY <3>1, <3>2, <2>1, Stays DEF Searching, OnUpchirp
      <4>5. Pausing(b) => Pausing(b)'
        BY <3>1, <3>2, <2>1, Stays DEF Pausing, InPacket
      <4>6. InFirstBlock(b) => InFirstBlock(b)'
        BY <3>1, <3>2, <2>1, Stays DEF InFirstBlock, InPacket, InData
      <4>7. Place(b)
        BY <1>2 DEF At
      <4> QED BY <4>1, <4>2, <4>3, <4>4, <4>5, <4>6, <4>7, <2>1 DEF Place
    <3> QED BY <3>3, <3>4 DEF At
  <2> QED BY <2>1, <2>2, <1>2, <1>3, <1>4
<1> QED BY <1>5, <1>6

-----------------------------------------------------------------------------
(* What a transmitter puts on the air is one of the environments the       *)
(* decoder is specified for: every call of work() on it is one that        *)
(* LoraDecoder allows, so that the decoder's invariants hold of the link.  *)
THEOREM LinkImplementsDecoder == LinkSpec => Spec
<1>1. LinkInit => Init
  BY DEF LinkInit
<1>2. [LinkNext]_linkVars => [Next]_vars
  <2>1. LinkNext => Next
    BY DEF LinkNext, Next, HearNothing, HearPreamble, HearUpchirp, HearSfd,
           HearPreambleGoOn, HearOther, HearFirstBlock, HearHeader,
           HearSymbol, HearEnd
  <2>2. UNCHANGED linkVars => UNCHANGED vars
    BY DEF linkVars
  <2> QED BY <2>1, <2>2
<1> QED BY <1>1, <1>2, PTL DEF LinkSpec, Spec

(* The f-th frame the decoder publishes is the f-th packet that was sent,  *)
(* with its header and all of its bytes, for all sizes of symbols and      *)
(* preambles, all configurations and all headers: neither a preamble that  *)
(* leads nowhere, nor the symbols demanded beyond the end of a packet, nor *)
(* the drift of fine_sync() there make work() miss or invent a packet.     *)
THEOREM FramesArePackets == LinkSpec => []OnlyPackets
<1>1. LinkInit => LinkInv
  BY LinkInitInv
<1>2. TypeOK /\ TypeOK' /\ BlockInv /\ LinkInv /\ [LinkNext]_linkVars
         => LinkInv'
  BY LinkNextInv
<1>3. LinkInv => OnlyPackets
  BY DEF LinkInv
<1>4. LinkSpec => [](TypeOK /\ BlockInv)
  BY LinkImplementsDecoder, TypeCorrect, BlockInvariance, PTL
<1> QED BY <1>1, <1>2, <1>3, <1>4, PTL DEF LinkSpec
=============================================================================
