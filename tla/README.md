# A TLA+ verification of gr-ieee802-11

This directory models the control logic of the IEEE 802.11 transceiver for GNU
Radio in this repository, model-checks it with TLC on small instances, and
proves its main invariants for all parameters with TLAPS. Paths are relative to
the repository root; `lib/x.cc:n` is a line of the source.

## 1. The system

The transceiver is a set of GNU Radio blocks. Every block runs in a thread of
its own; blocks exchange streams of items with tags on them, or messages. The
receive path of the flow graphs (`examples/wifi_phy_hier.grc`) is

    samples -> sync_short -> sync_long -> FFT -> frame_equalizer -> decode_mac -> PDUs
                                                       |
                                                       +-> PDUs (HT, VHT, MIMO, STBC, LDPC)

and the transmit path is

    PDUs -> mapper -+-> header generator (signal_field) -> map --+-> mux -> OFDM allocation -> IFFT
                    +-> chunks_to_symbols -----------------------+

with mac and ether_encap before it, or, for the modern formats, frame_builder alone.

### 1.1 Inventory

| component | state | operations | talks to |
|---|---|---|---|
| sync_short | `d_state` (SEARCH, COPY), `d_plateau`, `d_copied`, `d_freq_offset` | one loop over samples per state | writes samples and `wifi_start` tags |
| sync_long | `d_state` (SYNC, COPY, RESET), `d_offset`, `d_frame_start`, `d_count`, two frequency offsets, `d_cor` | tag preamble, one branch per state, `search_frame_start` | reads those tags, writes samples and its own `wifi_start` tags |
| frame_equalizer | symbol counter, frame length, five mode flags, the shared job (`d_ht_*`), channel estimates, bit buffers, the equalizer object | `general_work`; the begin, data and finish functions of each mode; `set_algorithm`, `set_bandwidth`, `set_frequency` from the control thread | reads the tags per FFT vector, writes one item per symbol and the header tags, publishes PDUs |
| decode_mac | `d_frame`, `d_meta`, `copied`, `d_frame_complete`, buffers | `general_work`, `decode` | reads header tags, publishes PDUs |
| equalizers (ls, comb, lms, sta) | `d_H`, noise and signal power | `equalize` | owned by frame_equalizer |
| viterbi_decoder | metrics, traceback ring, depuncture buffer | `reset`, `depuncture`, `decode`, `decode_soft` | owned by frame_equalizer and decode_mac |
| ofdm_param, frame_param, coding helpers (`utils.cc`) | none | pure functions | everybody |
| LDPC (`ldpc_*.h`) | none | encoder, min-sum decoder | frame_equalizer, frame_builder |
| mapper | `d_ofdm`, `d_scrambler`, the symbols not yet sent | `general_work`, `set_encoding` | queue of PDUs in, tagged items out |
| signal_field | none | header of a tagged burst | packet header machinery of gr-digital |
| chunks_to_symbols | mapping of the current burst | `work` | mapper |
| frame_builder, `lib/tx` | format, MCS, bandwidth and other parameters | `general_work`, setters | queue of PDUs in, waveform out |
| mac | `d_seq_nr`, three addresses | `phy_in`, `app_in` | messages both ways |
| ether_encap | last sequence number, addresses | `from_wifi`, `from_tap` | messages both ways |
| parse_mac | last sequence number | `parse` and one function per frame type | messages in, text out |
| append_crc32, extract_csi, constellations | none | stateless | messages, tables |
| bindings, GRC files, tools, simulations, docs | - | generated code and wiring | - |

### 1.2 What is hard

* **Ordering across blocks.** A tag written by one thread is read by another,
  through a window whose size the scheduler chooses. sync_long ends the flow
  graph with an exception (`lib/sync_long.cc:88`) if a tag comes in
  mid-correlation; frame_equalizer puts header tags on the *next* item
  (`lib/frame_equalizer_impl.cc:372`), which may never come.
* **Arbitrary cuts.** `general_work` sees any number of input items and any
  room for output. Padding, guard-interval removal and tagging go on across
  the calls.
* **Interrupted frames.** A new `wifi_start` may come at any point of the frame
  before. frame_equalizer resets ten members one by one
  (`lib/frame_equalizer_impl.cc:170`) and leaves others to the `*_begin`
  functions; five modes share the same job and bit buffer.
* **Refused frames.** decode_mac's limits refuse a frame after part of its
  state has changed (`lib/decode_mac.cc:120`).
* **Limits.** Buffers are sized for the longest frame; the tests before them
  compare symbols and coded bits, not everything that is written later.
* **Repetition and loss on the air.** An 802.11 sender repeats a frame until it is
  acknowledged. ether_encap drops a frame with the sequence control field of the
  one before (`lib/ether_encap_impl.cc:67`), parse_mac takes the difference of
  two numbers as a loss (`lib/parse_mac.cc:344`); both keep one number, for all
  senders, and see frames of other networks in between.
* **Exceptions in message handlers.** mac's two handlers run on one thread, and
  an exception in either ends it.
* **A control thread.** `set_algorithm` replaces the equalizer object between
  two calls of `general_work`; `set_encoding` changes the rate while an earlier
  burst is on its way through three threads; frame_builder reads four
  parameters before it takes the lock of their setters
  (`lib/frame_builder_impl.cc:53`).
* **What an earlier frame left behind.** The Viterbi decoder reads further than the
  frame it decodes (`lib/viterbi_decoder/viterbi_decoder_generic.cc:356`), in a
  buffer that the frames share. Behind the local arrays of the HT and VHT SIG fields it
  reads bytes of the stack, which are not even bits (`lib/frame_equalizer_impl.cc:598`).
* **Narrow numbers.** Path metrics are unsigned chars, kept from wrapping only by a
  subtraction every eight steps; the scrambler state wraps at 127; the SIGNAL
  field has twelve bits for a length.

The list, line by line, is `hazards` in `PROJECT.json`.

### 1.3 What makes each component correct

* sync_short: two tags are more than `MIN_GAP` samples apart, over any pattern
  of plateaus.
* sync_long: its output is a sequence of whole FFT vectors with every tag on
  the first item of one; no guard sample gets out, no symbol sample is lost.
* both: no exception; every detected frame leaves sync_long exactly once, in
  order, with its own offset; it leaves in the end.
* frame_equalizer: one decode at a time; it stores exactly the bits of its own
  frame, equalized with a channel of its own frame, inside the buffers.
* decode_mac: a frame is decoded from its own symbols, once, when complete.
* both: PDUs in frame order, each at most once, each of an announced frame.
* mapper, signal_field, chunks_to_symbols: each PDU becomes at most one frame, in
  order, whose header says what its payload is.
* frame_builder: each PDU is sent whole on every antenna or dropped, built with
  the parameters of its time.
* viterbi_decoder: no metric wraps in what is of frames; soft values of full confidence decode like
  bits; nothing but the frame decides about the frame.
* mac, ether_encap, parse_mac: sequence numbers advance by one modulo 4096;
  a retransmission is delivered once, a new frame never suppressed.
* utils: coding and decoding are inverse; the SIGNAL field round-trips.

## 2. The modules

| module | models | state and actions |
|---|---|---|
| `SampleStream` | the buffer between sync_short and sync_long | `written`, `tags` |
| `SyncShort` | `lib/sync_short.cc` | one action per way through an iteration of the two loops |
| `SyncLong` | `lib/sync_long.cc` | one action per branch of `general_work`: `SyncCall`, `SyncThrow`, `CopyCall`, `ResetCall`; `LongSpec` closes it with any upstream at all |
| `SyncChain` | the two blocks together | interleaving of the two threads |
| `WifiParams` | `ofdm_param`, `frame_param`, the limits | operators |
| `SymbolStream` | the buffer between frame_equalizer and decode_mac | `items`, `headers` |
| `FrameEqualizer` | `lib/frame_equalizer_impl.cc` | one step per FFT vector: `NewFrame`, `Skip`, `SecondLtf`, `Signal*`, `Sniff*`, `HtLtf`, `TwoLtf`, `VhtSigB`, `*Data`, `Stbc*`, and `SetAlgorithm` |
| `DecodeMac` | `lib/decode_mac.cc` | one step per item: `PlainItem`, `AcceptFrame`, `RejectFrame` |
| `RxChain` | the two blocks together | interleaving of the two threads |
| `FrameDelivery` | what the receiver promises | the abstract specification that `RxChain` implements |
| `FrameEqualizerMC`, `RxChainMC` | - | signal-field contents for TLC |
| `AirStream` | the air, and the receive chain up to `decode_mac`'s PDUs | `aired`, `heard`; a station hears a frame of another, or a foreign one |
| `EtherEncap` | `lib/ether_encap_impl.cc` | `from_tap` is `FromTap`; `from_wifi` is `FromWifi`, a disjunct per early return |
| `Mac` | `lib/mac.cc` | `app_in` is `AppIn` and `AppInThrow`, `phy_in` is `PhyIn` |
| `ParseMac` | `lib/parse_mac.cc` | `parse` is `Parse`: `ParseData`, `ParseOther` |
| `MacLayer` | the three blocks of every station together | interleaving of their threads |
| `PacketDelivery` | what a transceiver promises the IP stacks | the abstract specification that `MacLayer` implements |
| `MacLayerMC` | - | stations, links, foreign frames for TLC |
| `SignalField` | `generate_signal_field` and `parse_signal` | operators |
| `Mapper` | `lib/mapper_impl.cc` | `general_work` by its exits: `NoPdu`, `TakePdu`, `SendMore`; `SetEncoding`; `Post` |
| `TxChain` | mapper, `header_formatter`, `lib/chunks_to_symbols_impl.cc`, the multiplexer | one step per call of each thread; implements `FrameDelivery` too |
| `FrameBuilder` | `lib/frame_builder_impl.cc`, the tests of `build_frame` | `Take`, `Read` (one parameter), `Build`, `Copy`, `Set`, `Post` |
| `Viterbi` | `viterbi_decoder_generic.cc`, `decode_soft`, `convolutional_encoding` | one trellis step in both decoders: `DecodeFrame`, `DecodeStale` |
| `TxChainMC`, `FrameBuilderMC`, `ViterbiMC` | - | parameters, codes and frames for TLC |
| `ModuloLemmas`, `SyncLongProofs`, `SyncChainProofs`, `RxProofs`, `MacLayerProofs`, `TxProofs`, `FrameBuilderProofs`, `ViterbiProofs` | - | theorems |

A sentence on the abstractions, module by module.

*SyncShort.* The autocorrelation of a sample is "above the threshold" or not.
Nothing in the block's state depends on how samples are cut into calls, so a
step is one sample. Tag `k` carries the offset measured at trigger `k`; the
model names it by `k`.

*SyncLong.* A step is one call, because the tag preamble runs once per call.
The scheduler's input count is free; a COPY call is determined by how many
samples it consumes. The four highest correlations lie anywhere in the window
(`Peaks`), and `FoundFrameStart` is the double loop of `search_frame_start`.
The two inputs of the block are the same stream, one delayed; they have the
same number of items in the flow graphs and are one stream here, and the cap of
8192 items per call is a cut like any other. `d_count`, `d_frame_start` and the
offsets have no initialiser in the code; they are 0 in the model and are
assigned before they are used in every behaviour (`d_count` is added to while
in SYNC, and reset before it is read).

*FrameEqualizer.* The demodulation is left out: what a signal field contains is
chosen from a constant set, at the guard under which the code looks for it. The
job, the flags, the counters, the tests and the order they come in are the
code's. Bits are named by the symbol they are from (`filled`), a channel
estimate by the frame whose training symbols gave it (`channel`). Of the
header tags only the length and the encoding are kept. The stream starts with a
`wifi_start` vector, as sync_long's does.

*DecodeMac.* `d_rx_symbols` is the sequence of items copied since `copied` was
last 0. The FCS is right or wrong, freely, if the symbols are the whole frame
in order, and wrong otherwise: a CRC-32 that matches by accident is left out.
`mdecodes` is the history of the calls of `decode`, `pdus` that of the PDUs handed
to `message_port_pub`, each by the frame it is of.
`copied` has no initialiser in the code and starts with any value of
`UNINITIALISED`.

*AirStream.* A frame is named by its sender and its number among the sender's
frames. The channel is assumed to keep the order, to lose anything, and to bring
the frame decoded last again any number of times (the transceiver itself never
retransmits; other implementations do). The frames of stations without this
software are arbitrary members of `Foreign`. `decode_mac` publishes to every block
behind it; the message queues all hold the same PDUs, so that a queue is a
position in `heard`.

*EtherEncap, Mac, ParseMac.* A packet is its length. Addresses are left out: the
blocks do not look at them when they receive. An exception in a handler of mac
ends the thread of the block (`running`), as GNU Radio's thread wrapper does.
The sequence number is the low 12 bits of the 16-bit `d_seq_nr`, so `SEQ_MOD`
must divide `COUNTER_MOD` (`MacAssumption`): 4 and 4 for TLC, 4096 and 65536 in
the code, anything with that property in the proofs.

*SignalField.* The 18 bits before the tail. The convolutional code and the
interleaver around them are left out: `Viterbi` is about the code.

*Mapper, TxChain.* The symbols of a burst are a record of what they were made of
(`coding`, `seed`, `pdu`) beside what the tags on their first item say
(`encoding`, `bytes`, `len`); the properties compare the two. A call of
`general_work` that takes a PDU is one step, because `set_encoding` waits for the
lock it holds. GNU Radio's tagged-stream blocks wait for the whole packet that
`packet_len` announces; this framing and the multiplexer are external, modelled
from how the flow graph uses them. `BufferAssumption` says that the longest packet
fits in the buffer behind mapper: 511 * 48 items, which the flow graphs ensure by
setting a minimum buffer size.

*FrameBuilder.* The four parameters are read in four steps, because nothing keeps
a setter out between them; from the lock on, a call is one step. A frame is the
PDU it carries and a length. `build_frame` is reduced to what it refuses and how
many antennas it makes; STBC and two VHT streams, which it can do, are never asked
for by the block.

*Viterbi.* A state is the K - 1 bits of the encoder, newest first; the butterfly
of the code becomes a rule about one state, `Arrival`, and its 64 or 4 states
are a function. The order of comparison (`>`, so that ties go to the upper half),
the metric that counts agreements, the traceback by the oldest bits of a path, the
ring positions, the first output after K - 1 steps and the condition of the loop are
the code's; K, the polynomials, the width of a metric and the output interval are
constants. Hard and soft decoder run on the same symbols in lockstep. Behind the
frame is `Stale`, any bytes. Where DATA is decoded these were left by other frames
(`LeftByFrames` of `ViterbiProofs`): zero, or bits and erasures, never two erasures in one pair, which no
puncturing pattern of the code makes (`ViterbiAssumption`). So it is behind the
`d_deinterleaved[48]` of the SIGNAL field, too: there lies `symbols[48]`, which its constructor
makes zero and nothing writes. But the HT and VHT SIG fields are in local arrays of 96
and 52 bytes, and behind them is the stack. `d_depunctured` and `d_deinterleaved_bits`
of decode_mac have no initialiser, so that behind the first frames, until one was
as long, there may be any bytes as well. For bits and erasures a branch gains the same
from `metsv` and from `metsvm`; for other bytes it does not, and the gain depends on
which the branch takes (`turned`). The soft decoder decodes only DATA.

## 3. The runs

| run | question | instance |
|---|---|---|
| `sync_long` | is the output aligned and free of guard samples under *any* upstream? | FFT 4, window 6, 20 samples, 3 tags anywhere |
| `sync_chain` | does sync_short give sync_long what it needs; is every frame announced, once, in order, in the end? does the chain implement `LongSpec`? | the same, plateau 2, gap 12, gate 16, 42 samples, 3 tags |
| `frame_equalizer` | does anything of one frame reach the decode of another; do the longest accepted frames stay in the buffers? | 3 frames, 28 vectors, FFT 64 and 128, every mode, short frames and ones at each limit |
| `rx_chain` | is what decode_mac decodes the frame that was announced; is a complete frame decoded in the end; does the chain implement `FrameDelivery`? | 3 frames, 14 vectors, accepted and refused lengths, all values of `copied` around the limit |
| `mac_layer` | are repetitions dropped, new frames delivered, losses counted; does the layer implement `PacketDelivery`? | two stations, 4 sequence numbers, 5 packets of `a` and 1 of `b`, 3 frames decoded, 1 of them foreign |
| `tx_chain` | does every header describe its payload while the encoding changes; are PSDUs sent in order, once and in the end? | 3 messages, 2 changes among 3 encodings, 2 carriers, 2 scrambler states, one PSDU length that is too long for the slowest encoding |
| `frame_builder` | do the antennas stay together; is every PDU sent or dropped; with what parameters? | two outputs, 2 messages, 2 setter calls, frames of 1 and 2 samples |
| `viterbi` | do metrics fit, do hard and soft decoder agree, how far do leftovers reach? | frames of 11 bits, the last 5 any, of the (7, 5) code, mother (depth 2) and punctured (depth 4), three symbol pairs of other frames behind them |
| `rx_dropped`, `eq_depuncture`, `fb_dropped`, `viterbi_stale` | four sentences of the repository, each contradicted by the code | the instances above; `viterbi_stale` has the code of the standard, 64 states, rate 3/4; it also evaluates the depths of that code |

**Why the bounds are enough.** FFT 4 gives a guard interval of one sample and
symbols of five, so that every residue of the two moduli occurs; the window 6
is longer than the FFT, so that exact, near and absent peak pairs all occur and
the frame start lies before, in and after it; gap 12 is twice the window,
the exact relation the proofs need (the flow graphs have 700 and 2 x 320);
three tags are a frame, its successor and the successor of a frame that was cut
off. 42 samples let the gate close and open again. In the equalizer every mode
has frames of one to three symbols, so that three frames fit in 28 vectors and
the second and third can start in every phase of the one before. The limits
are the real constants, 1528, 511 and 25788, and the frames at them are the
longest; one such frame is enough, because the jobs are set anew by every `*_begin`.
In the MAC layer five packets make the four sequence numbers wrap, three decoded
frames are a frame, whatever comes between, and its repetition or successor; the
foreign frames are an acknowledgement (shorter than a header), a beacon, a QoS
data frame with the longer header and a null data frame; the lengths are that of
a short packet and one that `app_in` refuses with the LLC header added. `b` hears
`a` and itself, as a full-duplex radio does.
In the transmit chain three messages and a buffer of seven items put bursts of
different encodings in every stage at once, with one split over calls; two
scrambler states wrap twice. `TxChainMC` also evaluates the round trip of the
SIGNAL field for all eight encodings and all 4096 lengths. Two outputs, two PDUs and
two setter calls give frame_builder every torn set of parameters, and a one-stream
frame after one of two streams. The code of `viterbi` has the structure of the
real one (`OUTPUT` exceeds K - 1, the last output is several bytes behind) with
four states; 81 is the smallest modulus that `ViterbiAssumption` allows for it,
so that `MetricsFit` is checked at its limit. What is behind the frame is any sequence of
the three pairs that is left by other frames; that bytes of any other value do no more harm is
proved, not run. With
eleven bits, the first six fixed and the others any, the frame is longer than either
depth and bits that must survive come out: depth 2 for the mother code is the smallest
that holds, and for the punctured one `DamageConfined` is violated with 3.
`ViterbiMC` also evaluates what the code alone says of the depth (`DepthSuffices`):
for the small codes by going through all histories of the encoder (`SmallDepths`), for
the standard's code by the lightest ones step by step (`FullDepths`, in
`viterbi_stale`), a computation that agrees with `DepthSuffices` on the small codes for
every depth, enough or not (`DepthIsComputed`). It goes to 156 bits, by when the lightest
histories of every rate have begun to repeat themselves with the pattern, so that the
depths hold for longer frames as well.
`MAX_HEARD`, `MAX_FOREIGN`, `MAX_PDUS`, `MAX_SET`, `MaxTap`, `MAX_WAITING`, `MAX_WRITTEN`, `MAX_TAGS`, `MAX_VECTORS` and `MAX_FRAMES` bound the input only;
they are guards of the actions that take input. `CHECK_DEADLOCK FALSE` is there
because input may stop.

**Fairness.** GNU Radio gives each block a thread that calls `general_work`
whenever the block's forecast is met, so the liveness properties assume weak
fairness of the *consuming* block's step: `WF_vars(LongStep)`,
`WF_vars(MacStep)`, the four threads of `TxChain` each, and `WF_vars(Work)` of
frame_builder. Nothing is assumed of the producers: the antenna owes
nobody samples, the application no packets and the operator no setter calls.
Weak fairness is enough: a thread that could go on stays able to until it does.

## 4. The properties that matter

* `VectorAligned`: after
  sync_long comes `stream_to_vector`, so one sample too few in RESET would
  garble every later frame.
* `GuardIntervalsStripped`: the number of samples on the output is a closed
  function of the distance from the frame start, over all cuts into calls.
* `ShortTagsApart` and `NeverThrows`: the constant `MIN_GAP` is what keeps
  sync_long from throwing; `ThrowsOnlyOnCloseTags` says the same of sync_long
  alone.
* `FramesInOrder`, `NoFrameDropped`, `FrameAnnounced`: detected frames leave
  once, in order, eventually. `StaleOffsetOnlyOnDefault`: a fine offset of an
  earlier frame is used only if the search found no peak pair.
* `LongSpec`, checked and proved as a property of the chain: sync_short is one of the upstreams
  that sync_long was verified against.
* `ModesExclusive`, `SlotClock`, `OwnChannel`, `WholeFramesDecoded`: the reset
  in `NewFrame` and those in the `*_begin` functions together keep frames
  apart. `OwnChannel` allows the L-LTF estimate to be absent, because
  `set_algorithm` in mid-frame leaves the new object without one until the
  next frame.
* `WritesInBounds`: from the tests in the `*_begin` functions, to the last symbol. It is
  about the coded bits; the static arrays of the `*_finish` functions for decoded octets are
  left out.
* `SymbolsOwned`, `DecodesOwnSymbols`, `CompleteFramesDecoded`, `FrameDecoded`,
  and `DeliverySpec`, the refinement of `FrameDelivery`.
* `RepeatsSuppressed`: a decoded frame comes out of the tap twice only if one with
  another number was decoded in between; an acknowledgement, which has no number,
  does not count, because `from_wifi` returns before it reads one.
* `NewFramesDelivered`: the other side of the same comparison. It needs that
  `d_last_seq` starts at 123, which is no sequence control field of this mac
  (those are multiples of 16), and that fewer frames are lost in a row than there
  are numbers.
* `LossCounted`: "lost frames" is the true number of frames of the station that
  were lost, across the wrap, whatever management frames came in between.
* `PacketSpec`, the refinement of `PacketDelivery`: what comes out was put in, is
  as long, and is not overtaken. It is checked and proved, as `DeliverySpec` is, of
  the receiver and of the transmitter.
* `SignalDescribesPayload`: what `parse_signal` makes of a frame's header (length,
  encoding, symbols, constellation) is what its payload was made with, although
  header and payload are made by different threads from tags, and `set_encoding`
  comes in between.
* `SeedsFresh`, `DeliverySpec`, `PduSent` for the transmitter: the state after
  127 is 1, not 0; PSDUs in order, at most once, and in the end.
* `AntennasTogether`: one offset and one length are used for both outputs, and a
  frame of one stream is silence on the other, not what was there before.
  `BuiltAsConfigured`: a torn set of parameters is possible, but every member of
  it was in force after the PDU came. `EveryPduHandled`: an exception costs one
  PDU, no more.
* `MetricsFit`: the unsigned chars do not wrap, up to the end of every frame, and behind it
  where other frames left what is there, as they did where DATA is decoded. Behind an
  HT-SIG they may wrap (see below).
  `SoftAgrees`: the two decoders agree on every survivor at every step, which is more
  than that they agree on the output. `DamageConfined`: what comes behind a frame, and
  were it bytes for which metrics wrap, does not reach further back than the depth of the
  code, because the survivors of the frame are there when it ends: for the standard's code and
  its tracebacks 18 bits at rates 1/2 and 2/3, 23 at 3/4 and 43 at 5/6
  (`StandardDepths`). A tail is six bits, so the payload is within reach: that is
  `viterbi_stale`.

### Findings

1. `rx_dropped`: a frame announced as dropped is not: its symbols go on into an
   incomplete earlier frame (`lib/decode_mac.cc:121`).
2. `eq_depuncture`: the limit is put on the coded bits; depuncturing writes more
   (`lib/frame_equalizer_impl.cc:867`, `lib/viterbi_decoder/base.cc:51`).
3. `fb_dropped`: two setter calls between the reads of the parameters make a
   combination that nobody configured, and a PDU is dropped as unsupported
   though all configurations were supported (`lib/frame_builder_impl.cc:54`).
4. `viterbi_stale`: the last bits of a frame are decided by what an earlier frame
   left in the buffer; a frame without noise is decoded wrongly
   (`lib/viterbi_decoder/viterbi_decoder_generic.cc:356`).

Seen while modelling, without a run: the HT and VHT SIG fields are decoded from
local arrays of 96 and 52 bytes (`lib/frame_equalizer_impl.cc:598`, `:764`, `:821`), of
which decode takes up to 172 symbols; for a byte of the stack that is no bit, `metsv` and
`metsvm` are anything up to 255 and the metrics of the hard decoder wrap, though
`lib/viterbi_decoder/base.cc:72` says that they stay in uint8 "exactly as in the hard
path"; `DamageIsConfined` keeps this harm to the last 18 bits of a field of 29 or more,
which for the 48 bits of an HT-SIG are twelve before the tail; `copied` has no initialiser, so that a refused
first frame compares with whatever was there (`lib/decode_mac.cc:318`; the model starts it
with any value); with `GR_KEEP_CORRUPTED` decode_mac takes the FCS off a PSDU that may
be shorter than it (`lib/decode_mac.cc:216`); the LDPC branch accepts lengths beyond its
one codeword (`lib/frame_equalizer_impl.cc:1126`).

## 5. What is proved

For all values of the constants allowed by the modules' `ASSUME`s:

* `LongTypeCorrect`, `LongAligned` (`SyncLongProofs`): `LongSpec` keeps the
  types and `VectorAligned`. The alignment is not inductive alone:
  `AlignmentInv` adds that in SYNC the output is a whole number of vectors, that
  in COPY and RESET `d_count` is congruent to it, and that `d_count` is 0 until
  the frame start. The arithmetic is in `ModuloLemmas` (`ModAdd`, `ModPad`).
* `LongStripsGuardIntervals`, `LongThrowsOnCloseTags`, `LongAbandonsOnCloseTags`
  (`SyncLongProofs`), for the same specification. A COPY call adds to `d_count` as many
  samples as it keeps; that `OutputOf`, the closed function of the distance from the frame start, grows by as
  much over a call of any length is `OutputOfKept`, an induction over the samples of the
  call written as the absence of a least counterexample. For the other two, `PlaceInv` says
  where sync_long is with respect to the tags: the frame in work starts at a tag, and
  `d_offset` past it (in SYNC), or a window more (in COPY), is what has been read; in COPY no
  later tag has been passed over, and beyond the frame start the output tag is out.
  Passing over a tag, throwing, and turning to another tag before that output tag are then
  possible only where two tags are close.
* `ShortInvariant`, `TagSpacing` (`SyncChainProofs`): `ShortInv` says that
  `d_copied` never exceeds the distance from the newest tag, and is
  `MAX_SAMPLES` while the gate is closed; hence two tags are more than `MIN_GAP` apart.
* `ChainImplementsLong`: every step of the chain is a step of `LongSpec` or
  leaves its variables alone; so `ChainTypeCorrect` and `ChainAligned` follow.
* `ChainInvariant`, `ChainNeverThrows`, `ChainFramesInOrder`, `ChainDropsNoFrame`,
  `ChainOffsetsFresh`: `LongInv` ties
  sync_long's read position to the tag of the frame it works on; with tag
  spacing of at least `2 * SYNC_LENGTH` (`GapAssumption`) the next tag is always
  beyond both the window and the frame start, so that no tag comes in
  mid-correlation and no frame is left unannounced.
* `DecodesAlone`, `SlotsKeepStep`, `SlotsInBounds`, `OwnTraining`, `DecodesWhole`,
  `SymbolsTagged` (`RxProofs`), for `EqSpec`, any signal fields and any number of vectors
  and frames. The invariant `EqInv` has four parts. `SlotInv` ties the slot `d_ht_dsym`
  to the symbol counter, for each mode in its way (one per symbol; pairs for STBC; an
  offset of one for VHT), and says that a job that stores fits in `d_ht_rx_bits`, which is
  what the test of its `*_begin` is for. `ChannelInv` counts the training symbols seen of
  a two-stream frame; `DecodesInv` says that a frame that was decoded takes no other
  decode; `HeadersInv` that whatever is looked at beyond the L-SIG belongs to the
  newest header. A step is first reduced to what it does to each of these parts
  (`JobKeeps`, `SymbolEffect`, `BufferCases`), so that the twenty actions are split once.
* `CopiesInBounds`, `DecodesItsFrame`, `DecodesEveryFrame` (`RxProofs`), for the receive
  chain in any interleaving of its threads. `OrderInv` adds to `EqInv` that headers come in the
  order of their items and frames, and that an item is the symbol that its distance from the
  newest header says. `MacSafe` says of decode_mac that while a frame is collected there is a
  header it is from, that no later accepted one has been read, and that exactly the items since
  that header, at most as many as the frame has, are in `d_rx_symbols` (`Collecting`).
  The lemma about interleaving is `GrownSafe`: frame_equalizer only adds items, and headers
  for items that decode_mac has not read. `CopyKeeps` and `AcceptKeeps` are the two ways to
  go on from an item.
* `ReceiveTypeCorrect`, `PdusInOrder` (`RxProofs`): the type invariant of both blocks
  (`EqRest` and `MacRest` are what the invariants above have no use for), and the
  refinement of `FrameDelivery`, with `announced` the frames of the headers and
  `delivered` the PDUs published. `PduInv` says that every PDU is of a frame that was decoded; as no
  frame is decoded after a later one, a PDU published is later than those before it.
  `PdusInOrder` assumes `KEEP_CORRUPTED = FALSE`, the default: with
  corrupted PDUs asked for, decode_mac may publish the empty frame that its constructor
  left in `d_frame`, which nobody announced.

* `MacLayerTypes`, `RepeatsAreSuppressed`, `NewFramesAreDelivered`, `LossIsCounted`
  (`MacLayerProofs`), for any number of stations, any links, any traffic and any
  foreign frames. None of the properties is inductive. `MacLayerInv` adds that
  `d_seq_nr` is the number of frames sent modulo its width, that every frame of a
  station bears the low bits of its position (`Own`), and that the last number
  of ether_encap (parse_mac) is that of the last PDU with a header (with
  data) among those handled (`EncapOK`, `ParseOK`). These two are predicates on
  values - a sequence of PDUs, a position, a number, the output - so that the
  growth of the PDUs and each way through a handler are lemmas without primes
  (`EncapHears`, `EncapTakesHeaded`, ...). The arithmetic of the wrap is
  `CounterWraps` and `NumbersApart`.
* `PacketsComeOutInOrder` (`MacLayerProofs`): the refinement of `PacketDelivery`.
  `PacketInv` says that the frames of a station carry its packets, each its own, as long as
  it is with its headers (`SentAre`), and that what a station has heard of another
  is of those packets, in their order (`HeardAre`). Both are about values, as above; each kind of
  step is a lemma (`TapKeepsPackets`, `HearingKeepsPackets`,
  `AirKeepsPackets`, `MacKeepsPackets`). The abstract state is one history per station, of
  packets with their sender and number, so that the mapping selects nothing and the proof
  needs no induction.
* `SignalRoundTrips` (`TxProofs`): `parse_signal` inverts `generate_signal_field`, for every
  encoding and every length below 4096. `Number` is a fold of the community modules.
  `NumberUnfolds` shows that any function of the sets of positions that loses what a
  position is worth when that is taken out gives the fold's value (take a smallest set on which
  they differ), and `NumberIsSum` that a sum of twelve terms is such a function. The
  rest is arithmetic on four bits at a time (`FourWorth`, `TwelveBits`, `RateBits`).
* `TxTypes`, `SeedsAreFresh`, `HeaderDescribesPayload`, `PsdusInOrder` (`TxProofs`),
  for any number of carriers and scrambler states and any traffic. `TxInv` says of the
  bursts that mapper wrote that they lie end to end, in the order of their PSDUs, with
  lengths, tags and seeds of their own (`BurstsInv`); of mapper, that it is at the end
  of the last one or `symbolsOffset` into it (`MapperInv`); of header generator and
  chunks_to_symbols, that each has made one output of each of the first bursts and
  has read to the end of the last of them (`ReadersInv`); and that `sent` pairs those
  outputs (`SentInv`). The lemma that carries it is `NextBurst`: a reader at the end
  of burst n, when the whole next packet is there, finds the tags of burst n + 1 and no
  others. `SeedsAreFresh` follows with `ModApart`. `HeaderDescribesPayload` rests on
  `SignalRoundTrips`; it assumes that no PSDU is longer than 4095 octets: mac makes none longer
  than 1528, but mapper looks at the number of symbols only. `PsdusInOrder` is the
  refinement of `FrameDelivery`: each step is a step of it or a stutter.
* `AntennasStayTogether`, `ParametersOfTheTime` (`FrameBuilderProofs`), for any
  choice of the parameters, any frame sizes and any cut into calls. `BuilderInv` adds
  how far the frame in progress is (`ProgressInv`: all that was announced is out, but
  for the rest of the last frame, and `ant` holds that frame) and that each parameter
  read so far is one of a configuration in `inForce` (`ReadInv`).
* `MetricsFitInFrame`, `MetricsAlwaysFit`, `FullConfidenceAgrees` (`ViterbiProofs`), for every
  K, pair of polynomials, output interval, resolution and frame: the first up to the
  end of the frame, whatever is behind it, the others at every step if that was left
  by other frames (`LeftByFrames`, in their statements). That no
  metric wraps is not inductive; `Spread` is: two states that differ in their
  newest d bits only have the same predecessors d steps ago, so that their metrics
  are at most d steps' gain apart. After the subtraction of the least metric the largest is
  therefore at most K - 1 steps' gain, and it grows by one step's gain until the next
  subtraction, `OUTPUT` steps later; `ViterbiAssumption` is what makes this sum fit.
  `FullConfidenceAgrees` shows that with full confidence every soft metric is
  `SOFT_Q` times the hard one plus a constant common to all states, so that all comparisons come out
  alike. It is stated for `Confidences = {SOFT_Q}`, the case that
  `SoftAgrees` is about.

* `SurvivorsAreClosest`, `DamageIsConfined` (`ViterbiProofs`), for the same constants.
  The first is the Viterbi algorithm, `SurvivorsInv`: up to the end of the frame
  the path kept to each state, continued through the ring, is a history of the encoder
  that agrees with as many of the symbols as any history that ends there, and the metric
  is that number less what the outputs have taken off (`Tracks`); behind it, whatever the
  bytes there are, the path begins with such a history (`BestTo`). It needs that metrics do not wrap before the
  end of the frame (`MetricsInductive`), and goes through the code's own bookkeeping: leaving
  bits in paths (`Placed`), paths in ring slots (`Stored`), and a traceback that finds
  every earlier state in the oldest bits of a path. So each byte put out is bits of a
  history closest to the symbols (`Emitted`).
  `DamageIsConfined` is then about histories only (`ClosestConfines`). At the end of
  the frame, the part of it that is of the frame is closest to what was sent among those that
  end in its state. The code is linear, so
  the sum of that history and the one sent is a lightest history to its state, and
  `DepthSuffices` says that such a sum is zero but for its last `depth` bits. Before the
  end of the frame, the best state's history agrees with everything received; its sum
  with the one sent has no weight, and the second half of `DepthSuffices` says that it
  is zero as far as the output goes. The hypothesis is `DepthSuffices` for the rates and
  frames at hand, a statement without decoder, buffer or time. TLC evaluates it for the
  codes of `viterbi`, and, as `DepthComputed`, for the standard's code at its four rates
  and frames of any length from 29, 43, 49 and 86 bits up.

The assumptions are on constants only: a positive FFT length divisible by 4, a
window at least that long, `MIN_GAP < MAX_SAMPLES`, `MIN_GAP >= 2 * SYNC_LENGTH`;
signal fields with the widths of the standard and a bit buffer that holds one LDPC
codeword (`EqualizerAssumption`); `SEQ_MOD` between 2 and 4096 and a divisor of `COUNTER_MOD`, foreign frames with
an FCS (`MacAssumption`, `AirAssumption`); encodings of the standard, a positive number of scrambler states and of carriers, and a
buffer that holds the longest packet (`MapperAssumption`, `BufferAssumption`); frames that
are not empty (`BuilderAssumption`); metrics wide enough for what bits and
erasures gain, puncturing patterns that keep one symbol of each pair, and polynomials with
ones on both ends, as `viterbi_decoder_generic.cc:40` has it (`ViterbiAssumption`).

Five theorems assume more, in their statements: `MetricsAlwaysFit` and `FullConfidenceAgrees`
that what is behind a frame was left by other frames, the latter also full confidence;
`HeaderDescribesPayload` that PSDU lengths have twelve bits, `PdusInOrder` of the receiver
that corrupted PDUs are not asked for, `DamageIsConfined` that the depths are enough for the code.

Only model-checked are the liveness properties (`FrameAnnounced`, `FrameDecoded`,
`PduSent`, `EveryPduHandled`), which are out of the prover's reach, as ENABLED is, and the
depths of the standard's code (`FullDepths`), a finite computation that agrees with
`DepthSuffices` where both can be evaluated. Every other property of a passing run is a
theorem. No module declares a RECURSIVE operator.

## 6. What is not modelled

Signal processing (correlation, equalization, constellations, waveforms, LDPC
arithmetic) is numeric and enters as a free choice of its outcomes.
Scrambling, interleaving, deinterleaving and symbol splitting are fixed
permutations and sums of bits without state, which any one frame goes through. The soft
output and the second antenna's stream are not streams of their own. The SSE
version of the Viterbi decoder has no module: it is the same algorithm on vectors, which
compares two metrics by the sign of their difference as a signed char. For bits and
erasures that is the same comparison, as metrics stay small; for the bytes behind an
HT-SIG it is another one, so that `DamageIsConfined` is there about the generic version. extract_csi and append_crc32 are stateless. The
bindings, GRC files, simulations, plots, documentation generators and tools - all of
the repository's Python - are generated, wiring or tooling, without state
that the transceiver depends on. Three
things the models show have no property, because nothing in the repository
says what should happen: parse_mac counts the repetition of a frame as 4095 lost
frames; mac's `phy_in` throws on the first PDU shorter than a header, such as
any acknowledgement, after which the block sends nothing more; and frame_builder with
one output and an MCS of two streams sends the first stream alone.

## 7. What could follow

1. `Lockstep`: the two-input blocks (two antennas, soft values) under a
   scheduler that gives the inputs different numbers of items.
2. The transmitter and the receiver end to end: `TxChain` and `RxChain` with a channel
   between them, against `FrameDelivery`. Each end is proved against it alone.
