# Verification of gr-lora

gr-lora is a GNU Radio module that receives LoRa: it takes complex samples and
publishes one message per decoded frame. This directory holds TLA+ models of
it, TLC configurations that check them on small instances, and theorems about
them with proofs for TLAPS. `PROJECT.json` is the index: components, runs,
mutations, source lines of every definition, findings, hazards and theorems.

Run a model with `tlc -config <run>.cfg <module>.tla`, check the proofs of a
module with `tlapm <module>.tla`.

## 1. The system

### Inventory

| Component | State it keeps | Operations | What makes it correct |
|---|---|---|---|
| **decoder** `lib/decoder_impl.cc` | `d_state`, the word vectors `d_words`, `d_demodulated`, `d_decoded`, the header in force `d_phdr`, `d_payload_symbols`, `d_payload_length`, `d_corr_fails`, `d_pwr_queue`, `d_snr` | constructor; `work()`, one branch for each state | a frame is made of one reception only: its words, its header, its SNR; every published byte was decoded; a block can always complete; no call spins on the same samples or consumes too many |
| **block codec** (`demodulate`, `deinterleave`, `decode` and `include/lora/utilities.h`, `lib/tables.h`) | the vectors of one block | bin to word, words to codewords, to nibbles, to bytes | what was sent comes out; one lost symbol costs one bit of each codeword |
| **signal processing** (correlations, `fine_sync`, instantaneous frequency) | tables of ideal chirps | floating-point functions | indices stay inside the tables |
| **LoRaTap packet** (`loratap.h`, `msg_lora_frame`, `build_packet`) | none | build | length and layout agree with what the sinks take apart |
| **socket sink** `lib/message_socket_sink_impl.cc` | a socket, the layer | one datagram for each message | the layer's bytes, the right length, no exit on a legal frame |
| **socket source** `lib/message_socket_source_impl.cc` | thread, `d_running` | receive loop, destructor | publishes each datagram; can be stopped |
| **file sink, mongodb sink** | an open file, a collection | append a message | no frame lost silently |
| **channelizer, controller** | `d_freq_offset`, `d_cfo` | `apply_cfo` on a control message | the filter is centred on the channel |
| **lora_receiver** `python/lora_receiver.py` | parameters, inner blocks | construction, setters | its parameters are the blocks' |
| **debugger, analyzer** `lib/debugger.cc`, `apps/grlora_analyze.py` | samples collected; parser state | length-prefixed records on a stream socket | the two agree where a record begins |
| **test harness** `python/qa_testsuite.py`, `lorasocket.py` | a UDP socket for all tests | run a recording, collect datagrams | an answer counts for its own test |
| applications, examples, bindings, grc, cmake, docs, docker | – | – | not modelled: no logic of their own, or generated |

### How they interact

The GNU Radio scheduler calls `decoder_impl::work()` on the decoder's own
thread, with at least two symbols of input (`set_output_multiple`). The decoder
tells it with `consume_each` how far to move on, and always returns 0. Frames
leave through `message_port_pub("frames")`; the sinks receive them on their own
threads through a message queue. The channelizer's controller listens on a
control port that the decoder declares but does not publish to (the publication
is commented out). The socket source, which another program may use to receive
what a socket sink sent, runs a thread of its own. The test harness is such a
program in one: its flowgraph sends to a UDP socket its main thread reads. With
`GRLORA_DEBUG` the decoder owns a debugger, whose records the analyzer reads
from a stream socket; the decoder only attaches it, in its constructor.

### What is hard

* **State that outlives its packet.** The decoder keeps words, header, coding
  rate, SNR and even cleared storage from one packet to the next. Recordings of
  good packets hardly show it.
* **Counts that must agree.** Symbols wanted, words received, blocks and bytes
  are four ways of counting one payload. Payload words also come with the
  header's block.
* **Headers that are noise.** Nothing verifies the header, so any length and any
  three-bit coding rate may be taken from the air.
* **Arbitrary endings.** Without a header the payload ends when the energy
  falls, which may be inside a block.
* **Progress.** `work()` may consume nothing.
* **Threads and sockets.** What waits in an inbox or a socket's buffer when a
  flowgraph, a thread or a process ends is lost, or is found there later by the
  next one that reads.
* **Exits.** Sinks, source and deinterleaver call `exit()` on what they do not
  expect.
* **Boundaries** of integer widths and tables in the codec and around it.

Each is in `PROJECT.json` under `hazards`, at the line where it bites, with the
properties that watch it or the reason why none does.

## 2. Modules

| Module | What it is |
|---|---|
| `LoraDecoder` | the decoder's state machine; one action for each way a call of `work()` can go |
| `FrameReceiver` | what users of the port "frames" rely on; `LoraDecoder` implements it |
| `LoraLink` | `LoraDecoder` with a transmitter's packets on the air |
| `LoraCodec` | one block from bins to nibbles, bit by bit |
| `OrderedDelivery` | what a consumer of frames relies on, whatever lies between: some may be missing, none comes twice or out of order |
| `FramePipeline` | `FrameReceiver` with the file sink, the socket sink and the socket source; implements `OrderedDelivery` |
| `TestHarness` | the harness, its server and the flowgraph of the recording in hand; implements `OrderedDelivery` |
| `DebugStream` | debuggers, a stream socket and the analyzer |
| `MC...` | the small instances TLC checks |
| `LoraDecoderProofs` | types, consumption, progress, SNR, blocks, own words |
| `LoraDecoderFrameProofs` | own header, symbol count, complete frames, room for the checksum, the whitening sequence, the refinement |
| `LoraLinkProofs` | where the decoder can be in a transmission; the frames are the packets that were sent |
| `FramePipelineProofs` | order and uniqueness of `FrameReceiver`'s frames; every safety property of `FramePipeline` and its refinement |
| `TestHarnessProofs` | types, what a test is judged by, the refinement, the reports |
| `DebugStreamProofs` | lemmas on sequences of bytes and records; types |
| `DebugStreamPlotProofs` | what is on its way through the socket; what is plotted, and not again |
| `LoraCodecProofs` | Gray code, rounding, interleaver, Hamming code and shuffle, each undone; the properties of a block that follow |

The abstract specifications chain the components together: `LoraDecoder`
implements `FrameReceiver`; `FramePipeline` is built on `FrameReceiver`'s actions,
so that what it says of the sinks holds for the real decoder, and implements
`OrderedDelivery`. The one thing the sinks need to know of a message beyond that,
that its length has room for the checksum it announces, is the guard `HasRoom`
of `FramePipeline`, and the invariant `MacFits` of `LoraDecoder`.

### LoraDecoder

A variable that has a field's name is that field. The others are:

* `conf`: the constructor's arguments;
* `avail`: the samples of the stream not consumed yet, which is how
  `consume_each` and `set_output_multiple` are modelled;
* `status`: how the process ended, if it did: `exit(1)`, or undefined behaviour;
* `rx`: the number of preambles detected so far, which names the reception;
* `frames`: what was published.

Samples are not modelled: whether a window correlates, which offset fits best,
how far a symbol drifted, whether the energy fell and which header was sent are
choices of the environment. Words are abstracted to their origin. A word of
`d_words` is the reception its symbol belongs to; a word of `d_demodulated` is
the set of receptions that have a bit in it. That is what the properties ask
about: mixing receptions shows, while the value of a word does not matter here
and is `LoraCodec`'s subject. `d_decoded` is modelled as its *storage*, since
`clear()` leaves the bytes and `memcpy` reads them whatever the vector's size.

Within an action every call is included: `DECODE_HEADER` demodulates,
deinterleaves, decodes, copies the header, clamps the coding rate, computes the
symbols wanted and consumes; `Publish` decodes, builds the message and clears
the vectors. The float product for the number of blocks equals the rounded-up
quotient `BlocksNeeded` for every spreading factor, coding rate and length the
program can meet (6..13, 0..4, 0..257; compared exhaustively with float
arithmetic).

| `work()` | Actions |
|---|---|
| DETECT | `DetectNothing`, `DetectPreamble` |
| SYNC | `Sync` |
| FIND_SFD | `FindSfdDownchirp`, `FindSfdUpchirp`, `FindSfdFail` |
| PAUSE | `Pause` |
| DECODE_HEADER | `HeaderSymbol`, `HeaderBlockImplicit`, `HeaderBlockExplicit`, `HeaderBlockTooShort` |
| DECODE_PAYLOAD | `PayloadSymbol`, `PayloadBlock`, `PayloadEnergyDrop` |

No line assigns the state STOP. An `exit` in the middle of a call is recorded
in `status`; no action is enabled afterwards, and what the rest of the call
would have assigned is read by no one.

### FrameReceiver

Phases listening, acquired and locked: a signal may be lost while acquired;
a locked one ends in at most one frame, made of its own header and payload. The
refinement maps DETECT to listening, SYNC and FIND_SFD to acquired and the rest
to locked, `rx` to the reception, and each frame to the receptions its header
and its bytes come from.

### LoraLink

`LoraLink` extends `LoraDecoder` and takes the choices away from the
environment: `air` is a sequence of bursts, each beginning at a sample of the
stream, with silence between them; the decoder's position in the stream is what
it has consumed, and each `Hear...` action is the decoder's action of that call,
allowed when the samples at the position can lead to it. The transmitter is
external. A window that is exactly one symbol is recognised for what it is: two
windows of a preamble correlate, SYNC and `fine_sync` find an upchirp's edge
where one is within reach, `fine_sync` leaves a window alone that is exactly one
symbol of the data (`InStep`), a header read from its own eight symbols is the
one sent, and without a header the energy drops in silence. A window across two
kinds of signal may be taken either way, and behind a packet's end `fine_sync`
may move every window by up to an eighth of a symbol. A burst may end with its
preamble: the decoder must recover from it.

`PreambleAssumption` and `TransmissionsAssumption` say what is sent: at least six
upchirps, headers with a legal coding rate that fit into the first block, and
five symbols of silence behind each burst (section 5 says what each is for).

There is no noise and no drift here but for that, and the data contains no symbol
that FIND_SFD would take for a preamble.

### LoraCodec

A word is the set of its bits that are 1. `Demodulate` is one call of
`demodulate()`: round and wrap the bin, Gray, append and, with the last symbol,
deinterleave. `DecodeFec` and `DecodeDataOnly` are `decode()` with the two
branches of `hamming_decode()`: deshuffle, dewhiten, Hamming. The transmitter
(`Sent...`) and liquid-dsp's `fec_decode` are external: the transmitter undoes
the receiver's steps, `fec_decode` yields the nibble of the nearest codeword.
`fec_decode` may read beyond the words there are; what it finds there is any of
`Garbage`. The channel moves a bin by `BinErrors` where the reduced rate leaves
room for it, and reads at most one symbol as anything at all. The assumptions
say what a block is: as many nibbles as its words (`WordsOf`; of a header's block
the five words that are the header, what it carries behind them being left
open), a header only where five words fit, and a byte of the whitening tables
for each word.

### FramePipeline

Each block is a thread: the decoder (`Search`, `msg_lora_frame`), the socket
sink (`SendDatagram`, `SendDatagramFails`), the file sink (`WriteRecord`), the
source's thread (`Recvfrom...`) and its destructor, in two steps
(`ClearRunning`, `JoinNothing`). The inboxes of the sinks are counters into
`published`; what is in them when the receiver's process stops or exits is
lost. A message is its number, its payload's length and the checksum flag: the
sink's arithmetic is on lengths. The kernel is external: a datagram over the
loopback interface keeps its place, and is dropped when the receive buffer is
full or nobody is bound to the port; `sendto()` may fail at any time, and does
for a datagram longer than `MaxDatagram`.

The source ends its process in three ways: a datagram of length 0 is taken for
an error; the first `recvfrom()` is given a length that was never written, which
the kernel refuses if it happens to be negative; after its loop it calls
`exit()`. The destructor clears the flag and then dereferences the null pointer
that was meant to be the thread, which the model takes for the end of the process.

### TestHarness

`pc` is where the main thread of `qa_testsuite.py` is: between suites (`run`),
between the tests of a suite (`suite`), waiting for the flowgraph (`wait`), in
`get_payloads()` (`collect`). `Decode`, `SinkSends`, `SinkExits` and
`FlowgraphEnds` are the flowgraph's threads. `buffer` is the server's socket,
opened once for all recordings. `taken` and `given` are history variables: the
datagrams of this recording the kernel took, and all that the tests were given.

### DebugStream

A byte is what it is a piece of, so that a record read from the wrong place
shows. `send()` passes any number of bytes to the kernel, `recv()` returns any
number of those that are there. A debugger may attach, detach, store and send in
any order; the analyzer serves the oldest connection that waits. Either program
may end and start at any time, in the middle of a record too: the analyzer takes
the bytes of its connections with it, a debugger leaves the kernel those it had
sent. `plots` is kept for each connection. In the code as it is only
`attach()` is called (`decoder_impl.cc:66`); the model is of what a developer who
calls the rest may rely on.

### Variations

A definition that precedes its namesake and is called after what is wrong with
it (`UnclampedCr`, `BlocksRoundedDown`, ...) is a variation with a plausible
mistake. No action uses it. For each property, substituting the one listed
under `mutants` for the real definition must make TLC find a violation.

## 3. What TLC checks

| Run | Shows |
|---|---|
| `decoder` | explicit headers at SF 7 and SF 8 (reduced rate), receptions without a header, and windows that drift: blocks complete, the process keeps running whatever the coding rate, words, header and SNR are the reception's own, frames are complete and have room for their checksum, symbols and words add up, samples are never over-consumed, the stream is consumed, and the decoder implements `FrameReceiver` |
| `link` | two packets, or a preamble that leads nowhere and a packet: exactly the packets are delivered, in order, though the decoder demands up to eight symbols beyond the end of the first |
| `receiver` | three frames at each layer through both sinks and the source: no length wraps, frames are published in order and once whatever the kernel drops, the file has no hole, only an empty MAC payload ends the source, nothing vanishes unaccounted for, at most one message follows the destructor's flag, and every frame is published or dropped in the end |
| `harness` | a test is judged by what its own recording gave as long as no earlier one gave too much, no datagram counts for two tests, each report adds up to its own suite, and the harness ends |
| `analyzer` | what is plotted are the records that were sent, wherever the stream is cut and whoever is ended; a cleared sample is not plotted again; a complete record is plotted |
| `codec` | what was sent is decoded; a lost symbol costs one bit of each codeword and is corrected with four parity bits, by liquid's decoder as by the one in `utilities.h` |
| `no_cr`, `short`, `sf6`, `whitening`, `header`, `harness_own` | the findings below |

**Bounds of the decoder.** `StreamLength` is the only bound of the state space
in `LoraDecoder`. In `decoder`, 30 symbols are room for two packets with a
header (one of them with a payload block), which is what state carried from one
to the next takes; 25 for two of the shortest receptions without one; 19 for one
packet whose windows drift. `SamplesPerSymbol = 8` with one sample per bin is
the smallest symbol `SamplesAssumption` allows, so that every drift, including
the largest of FIND_SFD's, is possible. The configuration with spreading factor
6 and a header is there for its one step. `link` has the eight upchirps LoRa
transmitters usually send, spreading factors 7 and 9 (where the decoder demands
one block too many, with fine synchronisation), and the second burst at three phases of the decoder's
windows. Its gap of five symbols is the shortest with which the property
holds: with four, a preamble that led nowhere leaves four failures in
`d_corr_fails`, the next preamble is taken for the same one, and the two symbols of
its sync word make the decoder give up inside the packet. The headers include
lengths of 0 to 3 bytes with and without checksum (no block, one block, a block
partly used) and an illegal coding rate. In `LoraCodec` the blocks cover each
kind, coding rates 1 to 4, both rates and two data patterns in which nibbles
vary; every codeword is linear in its nibble, and every position and value of a
lost symbol is tried.

**Bounds of the others.** `receiver`: three receptions, which is one more than
the receive buffer of two holds, so that a frame may be published, waiting and
dropped at once; payloads of 1 and 2 bytes, of which 2 with a checksum is the
empty one; a kernel that takes 19 bytes, so that the longest datagram (both
headers and 2 bytes) is too long. `harness`: two suites of which the first has
two tests; a test that expects nothing; a suite without tests; two frames a
recording and a buffer of two, so that one recording may give more, less or
other than expected, and fill the buffer. `analyzer`: headers and samples of two
bytes and a socket that takes three, so that every record may be cut inside its
header, inside a sample and between them, and so that `send()` may block;
two connections, one before and one after whatever went wrong, and two records
on each.

**Fairness.** Of `LoraDecoder` and `LoraLink`: `WF` of the whole next-state
relation, that the scheduler goes on calling `work()` while it has the input the
block asked for. No branch of `work()` is assumed ever to be taken: the signal
may do what it likes. Of `FramePipeline`: the threads of the two sinks and of
the source run when something waits for them. Of `TestHarness`: the main thread
runs when it can, since `get_payloads()` waits with a timeout, and a recording
ends, since it is a file; the sink's thread is owed nothing, since the flowgraph
does not wait for it. Of `DebugStream`: the analyzer's thread runs. Nothing makes
a frame arrive, a debugger's owner call it, or a program end.

**Deadlock** is not checked where the stream ends, the one block is decoded, the
receptions have come to their number, or the programs have ended: the system
stops there too.

## 4. Findings

* `no_cr` (`decoder_impl.cc:833`): a header with coding rate 0 is accepted; from
  then on headers are not decoded, and the bytes an earlier packet left in the
  vector's storage are taken for them. Nothing short of a restart, or of stale
  bytes that happen to hold another coding rate, ends it.
* `short` (`decoder_impl.cc:847`): the payload words that came with the header
  are not counted, so that more symbols are demanded than the packet has.
* `sf6` (`decoder_impl.cc:632`): spreading factor 6 with an explicit header is
  accepted and erases five words of four.
* `whitening` (`decoder_impl.cc:643`): the blocks of the longest packets bring
  more words than the whitening tables have bytes (521 against 516 for 255 bytes
  with checksum at spreading factor 12), and `dewhiten()` reads past the end. No
  published byte depends on what it reads there.
* `harness_own` (`lorasocket.py:27`): a recording that gives a frame too many
  leaves it in the server's socket. It is counted for the next test, and every
  later test of the run is judged by datagrams that are one too early.
* `header` (`decoder_impl.cc:655`): the header's parity is used only if the
  previous packet (or the constructor) had coding rate 3 or 4.

## 5. What is proved

For every set of configurations and headers the assumptions of `LoraDecoder`
allow (`ConfigsAssumption`: what the constructor and its users let through;
`HeadersAssumption`: what fits on the air; `SamplesAssumption`: a symbol is at
least eight bins long), every symbol size and every stream length:

* `TypeCorrect`: `TypeOK` is inductive.
* `ConsumptionBounded`, `WorkMovesOn`: from `StepConsumes`, which bounds what
  each call consumes by the two symbols it was scheduled on and shows that only
  DETECT on a hit and SYNC may consume nothing, both moving to a later state.
* `SnrCorrect`: the queue holds two powers from the second window on, so that
  only the first reception can have an SNR that was never computed.
* `BlocksComplete`, `WordsAreOwn`: the inductive invariant adds to the
  two properties that outside the decoding states `d_words` *and*
  `d_demodulated` are empty. The step that needs it is the change from the
  header's width (8) to the payload's (4 + cr): the last symbol of the block
  emptied `d_words` first.
* `DecoderKeepsRunning`: where the first block has room for a header, or none
  is expected; the finding `sf6` shows that this is necessary.
* `HeadersAreOwn`, `SymbolsAddUp`, `FramesAreComplete`, assuming that no header
  announces coding rate 0, which the finding `no_cr` shows to be necessary. The
  inductive invariant `CodingInv` keeps the coding rate in force in 1..4 (so
  that a header always is decoded), the count `SymbolCount`, and for each frame
  two words for each byte. The argument of `FramesAreComplete`: when no symbol
  is wanted any more, `SymbolCount` leaves zero blocks, hence
  `PayloadBits * BlocksNeeded` words at least, which is two for each byte by
  `CeilDivCovers`.
* `DecoderImplementsReceiver`, under the same assumption: from `CodingInv`, a
  published frame's bytes and header are of the present reception, so that the
  step is `Deliver`.
* `ChecksumsFit`, under the same assumption: with a header the announced length
  is the payload's with its checksum; without one the first block already brought
  four words, hence two bytes (`LengthInv`).
* `WhiteningSuffices`, under the same assumption and for packets of at most 249
  bytes, checksum included: whole blocks overshoot by less than one block
  (`CeilDivCovers`), so that `(sf - 7) + PayloadBits * BlocksNeeded` is at most 516.
  The bound is for every spreading factor at once; the finding `whitening`
  shows that it cannot be dropped.
* `DeliveredInOrderOnce` of `FrameReceiver` (in `FramePipelineProofs`): what was
  delivered is of earlier signals, strictly so while the receiver is at work on one.

Of `LoraLink`, for every set of transmissions that `TransmissionsAssumption`
allows, every symbol size, every preamble of at least six upchirps, every
configuration and every stream length:

* `LinkImplementsDecoder`: a transmitter is one of the environments `LoraDecoder`
  allows, so that what is proved about the decoder's steps may be used.
* `FramesArePackets`: the f-th frame is the f-th packet. The invariant `LinkInv`
  says at which burst the decoder is: those before it are over and their packets
  were published (`Passed`); and for each state of `work()` where in the burst
  (`Place`). Listening, two windows of the next preamble are still to come, so
  that it cannot be missed. Searching, the window is on an upchirp and no
  correlation failed, or it is as many symbols behind the preamble as failed: at
  most two, the sync word's, before a packet; at most four in the silence behind a
  preamble that led nowhere, whose five windows give the fifth failure and end the
  search. From the downchirp on every window is exactly one
  symbol, so that the header is the one that was sent and the words and symbols
  counted so far (`InPayload`) are the packet's. Behind its end no window is
  known to be anything: the decoder is at most nine eighths of a symbol further for
  each symbol it demanded too many, of which there are at most eight, and the
  nine symbols come out of five of silence and the first four of the next
  preamble's six upchirps. There is one lemma for each action (`...Step`).

Of `FramePipeline`, for every set of layers and payload lengths, every buffer
size and datagram limit (`LayersAssumption`, `LengthsAssumption`):

* `PipelineTypes`: no length computed by the socket sink is negative; it needs
  that each published message has room for its checksum.
* `PipelineDelivers`, `AllAccountedFor`: the invariant `Chain` puts the numbers
  of the frames on a line: what the source published, then what waits in its
  socket, then what the sink has yet to handle, is ascending, and what is
  missing from the line was dropped.
* `FileHasNoGap`, `SourceEndedByEmptyPayload`, `SourceEnds`: the state of the file
  stream, the lengths of the datagrams in the socket, and the count at the time
  the flag was cleared, each strengthened by what the step that uses it needs.

Of `TestHarness`, for every plan, payload set, buffer size and recording length:

* `HarnessTypes`: `get_payloads()` never returns more often than it was asked
  to, which is what keeps every index inside the plan.
* `TestsJudgedByTheirOwn`: the invariant says, while no recording so far gave
  too much, that at the beginning of a recording the server's socket is empty,
  and that what was read and what is still in the socket are exactly what the
  kernel took.
* `HarnessDelivers`: what was given, what waits in the server's socket and what
  waits for the sink are ascending, one behind the other.

* `ReportsAreOfTheirSuite`: the tests and payloads counted so far are those of
  the suite up to the present test (`SummaryCounts`), and a suite's report is
  written when that is the whole suite. The payloads are a set of pairs of test
  and payload; the step to the next test adds that test's pairs, which are new,
  so that the cardinalities add up.

Of `DebugStream`, for every number of debuggers and connections, every size of
header, sample and socket, and every number of samples (`SizesAssumption`):

* `StreamTypes`: `StreamTypeOK` is inductive. The step that is not obvious is the
  analyzer's: it cuts a header off its buffer only when a whole one is there.
* `PlotsAreWhatWasSent`: what is on its way, the analyzer's buffer and then the
  socket's, is a piece of the concatenation of the connection's records
  (`FlowInv`): it starts where the analyzer has read to, between two records or
  behind a header whose length is in `data_len`, and ends at the end of the last
  record but for the bytes its debugger still owes. So the bytes the analyzer
  takes for a header are one, and those it plots are the samples behind it.
  The invariant needs to say where a record is that was cut off for good: it is
  the last of its connection, whose debugger never sends on it again
  (`CallInv`, `SocketInv`), so that nothing is ever read from a place behind it.
* `ClearedIsGone`: samples are numbered as they are stored, and a debugger holds,
  and its records contain, none beyond the last (`NumberInv`). When a record that
  is to be cleared is complete its debugger holds none of its samples, and none of
  its later records contains one (`GoneInv`). A sample stored afterwards has a new
  number, so that this is kept.

Of `LoraCodec`, for every spreading factor, coding rate, kind of block, data,
whitening table, error within the reduced rate's room and reading of a lost
symbol:

* `CodecTypes`, `DecodesRight`, `SymbolCostsOneBit`, `LossIsMadeGood`,
  `SoftDecoderMakesGood`: the steps of the receiver are undone one by one. Every
  word is the Gray code of exactly one number of its width, which is proved one
  bit at a time for the 13 widths; a bin that is off by -2..1 rounds to the
  symbol's and wraps where that is the last (`NearBins`); bit `i` of every
  deinterleaved word is that of the `i`-th symbol and of no other
  (`BitOfSymbol`); two codewords of the Hamming code differ in three bits at
  least, so that one wrong bit leaves the right one nearest and gives a syndrome
  that names the bit; the shuffle is a permutation of the bits.
  The invariant `CodecInv` carries this through a reception: each symbol received
  but the lost one is the word that was sent, hence after the last one each
  codeword is right but for the lost symbol's bit, hence each nibble is right
  wherever the loss can be made good (`CanBeMadeGood`: none was lost, or there
  are four parity bits and they are looked at). The finding `header` is where
  they are not.

**Only model-checked:** liveness (`StreamIsConsumed`, `EveryPacketDelivered`,
`EverySettled`, `HarnessEnds`, `CompleteIsPlotted`), which is out of the prover's
reach. Every invariant and every other action property the passing runs check is
a theorem. `WorkMovesOn` is the safety half of `StreamIsConsumed`, and
`FramesArePackets` that of `EveryPacketDelivered`: no frame is published without its
packet, and no packet is skipped.

## 6. What could follow

* `LoraLink`: noise on single windows, and a drift of the transmitter's clock.
* `LoraCodec`: payloads of several blocks in one model with the decoder's state.

## 7. Not modelled

* Floating-point signal processing: its decisions are the environment's choices.
  The index arithmetic of `fine_sync` is one loop without state.
* GNU Radio's scheduler beyond its calling convention.
* The channelizer and its controller: two assignments to a filter; nothing in the
  repository sends them a message. `lora_receiver.py` wires blocks together; two
  of its setters do not do what they say, and nothing calls them.
* The MongoDB sink: its one handler inserts a document into an external database.
* The command-line tools and examples: they build a flowgraph, or drive
  transmitters that are not in the repository; `_examplify_live.py` is written
  for an interface the code no longer has. `qa_testsuite.py --nowrite` is not in
  `TestHarness` either: `export_summary` (79-82) does not ask for it.
* Bindings, block descriptions, build files, generated documentation.

Most of the repository's Python lines are generated doxygen code and licence
texts; the program's logic is in the C++ files of `lib/` and `include/`, and in
the Python files the harness and the analyzer consist of.
