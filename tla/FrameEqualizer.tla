--------------------------- MODULE FrameEqualizer ---------------------------
(***************************************************************************)
(* frame_equalizer: counts the OFDM symbols of a frame from its wifi_start *)
(* tag, parses the L-SIG, passes the legacy data symbols on to decode_mac, *)
(* and decodes HT, VHT, 2x2 MIMO and STBC frames itself.                   *)
(*                                                                         *)
(* One step is one iteration of the loop of general_work: one FFT vector.  *)
(* The block keeps no state per call, so how the scheduler cuts the stream *)
(* into calls does not show.  What the demodulator finds in a signal field *)
(* (nothing, or any valid content) is chosen from the constant sets.       *)
(***************************************************************************)
EXTENDS WifiParams, SymbolStream, FiniteSets

CONSTANTS
    FFT_LENS,           \* the FFT lengths a block may be made with: 64, 128
    N_RX,               \* d_n_rx: 1, or 2 antennas
    LSigs,              \* L-SIG contents: [encoding, bytes]
    HtSigs,             \* HT-SIG contents: [mcs, cbw, len, stbc, fec]
    VhtSigs,            \* VHT-SIG-A contents: [mcs, bw, nss, stbc, fec]
    Apeps,              \* VHT-SIG-B contents: APEP lengths in 4-octet units
    MAX_VECTORS,        \* bound: vectors of a behaviour
    MAX_FRAMES          \* bound: wifi_start tags of a behaviour

ASSUME EqualizerAssumption ==
    /\ FFT_LENS \subseteq {64, 128} /\ N_RX \in {1, 2}
    /\ LSigs \subseteq [encoding : 0 .. 7, bytes : Nat]
    /\ HtSigs \subseteq [mcs : 0 .. 31, cbw : {0, 1}, len : Nat \ {0},
                         stbc : 0 .. 3, fec : {0, 1}]
    /\ VhtSigs \subseteq [mcs : 0 .. 9, bw : 0 .. 3, nss : 1 .. 4,
                          stbc : {0, 1}, fec : {0, 1}]
    /\ Apeps \subseteq Nat
    /\ MAX_VECTORS \in Nat /\ MAX_FRAMES \in Nat
    /\ MAX_ENCODED_BITS >= 13 * 52      \* the LDPC codeword

VARIABLES
    fftLen,             \* d_fft_len: 64 (20 MHz) or 128 (40 MHz)
    nvectors,           \* nitems_read(0)
    frame,              \* which wifi_start tag the current frame has
    sym,                \* d_current_symbol
    frameSymbols,       \* d_frame_symbols
    active,             \* the raised ones of d_ht_active, d_mimo_active,
                        \* d_stbc_active and d_vht_pending
    vht,                \* d_vht
    fec,                \* d_ht_fec
    vhtMcs,             \* d_vht_mcs
    job,                \* d_ht_mcs, d_ht_len, d_ht_nsym, d_ht_dsym, d_ht_ncbps
    ltfSeen,            \* d_mimo_ltf_seen and d_stbc_ltf_seen
    haveY0,             \* d_stbc_have_y0
    ltf1,               \* whose first L-LTF symbol the equalizer object holds
    channel,            \* whose training symbols each channel estimate is from
    filled,             \* which symbols of the job have their bits stored
    decodes             \* the HT, MIMO and STBC decodes, oldest first

modeVars == <<active, vht, fec, vhtMcs, job, ltfSeen, haveY0, filled, decodes>>
ownVars == <<fftLen, nvectors, frame, sym, frameSymbols, ltf1, channel, modeVars>>
eqVars == <<ownVars, symbolVars>>

Modes == {"HT", "MIMO", "STBC", "VHT_PENDING"}

Job == [mcs : 0 .. 7, len : Nat, nsym : Nat, dsym : Nat, cbps : Nat]
NoJob == [mcs |-> 0, len |-> 0, nsym |-> 0, dsym |-> 0, cbps |-> 52]

EqTypeOK ==
    /\ fftLen \in FFT_LENS
    /\ nvectors \in Nat /\ frame \in Nat /\ sym \in Nat /\ frameSymbols \in Nat
    /\ active \subseteq Modes
    /\ vht \in BOOLEAN /\ fec \in BOOLEAN /\ haveY0 \in BOOLEAN
    /\ vhtMcs \in 0 .. 7
    /\ job \in Job
    /\ ltfSeen \in [{"MIMO", "STBC"} -> Nat]
    /\ ltf1 \in Nat
    /\ channel \in [{"LLTF", "HT", "MIMO", "STBC"} -> Nat]
    /\ filled \subseteq Nat
    /\ \A k \in DOMAIN decodes :
          decodes[k] \in [frame : Nat, mode : {"HT", "VHT", "LDPC", "MIMO", "STBC"},
                          len : Nat, nsym : Nat, read : SUBSET Nat, published : BOOLEAN]

EqInit ==
    /\ fftLen \in FFT_LENS
    /\ nvectors = 0 /\ frame = 0 /\ sym = 0 /\ frameSymbols = 0
    /\ active = {} /\ vht = FALSE /\ fec = FALSE /\ vhtMcs = 0
    /\ job = NoJob
    /\ ltfSeen = [m \in {"MIMO", "STBC"} |-> 0] /\ haveY0 = FALSE
    /\ ltf1 = 0 /\ channel = [c \in {"LLTF", "HT", "MIMO", "STBC"} |-> 0]
    /\ filled = {} /\ decodes = <<>>

-----------------------------------------------------------------------------
(* The loop of general_work: what every vector goes through. *)

NextVector == nvectors < MAX_VECTORS /\ nvectors' = nvectors + 1

(* A new frame that leaves some of `kept' raised and d_frame_symbols at n;   *)
(* only the mutants of NewFrame are written with it.                        *)
NewFrameKeeping(kept, n) ==
    /\ NextVector /\ frame < MAX_FRAMES
    /\ frame' = frame + 1 /\ sym' = 1 /\ frameSymbols' = n
    /\ active' = active \cap kept /\ vht' = FALSE /\ fec' = FALSE
    /\ ltfSeen' = [ltfSeen EXCEPT !["STBC"] = 0] /\ haveY0' = FALSE
    /\ ltf1' = frame'
    /\ UNCHANGED <<vhtMcs, job, channel, filled, decodes, symbolVars>>

(* Mutants: d_vht_pending is not cleared; d_frame_symbols is not. *)
NewFrameKeepsPending == NewFrameKeeping({"VHT_PENDING"}, 0)
NewFrameKeepsSymbols == NewFrameKeeping({}, frameSymbols)

(* A vector with a wifi_start tag is the first L-LTF symbol of a new frame, *)
(* whatever was going on.                                                   *)
NewFrame ==
    /\ NextVector
    /\ frame < MAX_FRAMES
    /\ frame' = frame + 1
    /\ sym' = 1
    /\ frameSymbols' = 0
    /\ active' = {} /\ vht' = FALSE /\ fec' = FALSE
    /\ ltfSeen' = [ltfSeen EXCEPT !["STBC"] = 0]
    /\ haveY0' = FALSE
    /\ ltf1' = frame'
    /\ UNCHANGED <<vhtMcs, job, channel, filled, decodes, symbolVars>>

(* "not interesting": the frame is over, or its L-SIG was not understood. *)
Interesting == sym <= frameSymbols + 2 \/ active # {}

Skip ==
    /\ frame > 0 /\ ~Interesting
    /\ NextVector
    /\ UNCHANGED <<frame, sym, frameSymbols, ltf1, channel, modeVars, symbolVars>>

(* The second L-LTF symbol completes the equalizer's channel estimate. *)
SecondLtf ==
    /\ frame > 0 /\ sym = 1
    /\ NextVector
    /\ sym' = 2
    /\ channel' = [channel EXCEPT !["LLTF"] = ltf1]
    /\ UNCHANGED <<frame, frameSymbols, ltf1, modeVars, symbolVars>>

(* The L-SIG symbol, parsed: the frame is announced to decode_mac on the    *)
(* item that will come next.                                                *)
SignalParsed(l) ==
    /\ sym = 2
    /\ NextVector
    /\ sym' = 3
    /\ frameSymbols' = NSym(l.bytes, LegacyOfdm(l.encoding).dbps)
    /\ Announce(frame, l.encoding, l.bytes)
    /\ UNCHANGED <<frame, ltf1, channel, modeVars, items>>

(* The L-SIG symbol, with a wrong parity or an unknown rate. *)
SignalFailed ==
    /\ sym = 2
    /\ NextVector
    /\ sym' = 3
    /\ UNCHANGED <<frame, frameSymbols, ltf1, channel, modeVars, symbolVars>>

(* Every later symbol that is looked at is also an item for decode_mac. *)
PassOn ==
    /\ Interesting /\ sym > 2
    /\ NextVector
    /\ Emit(frame, sym)
    /\ sym' = sym + 1
    /\ UNCHANGED <<frame, frameSymbols, ltf1, headers>>

-----------------------------------------------------------------------------
(* sniff_ht_sig, at symbol 4: which decode a signal field starts. *)

BW == IF fftLen = 128 THEN 40 ELSE 20

MimoSig(h) == N_RX = 2 /\ h.mcs \in 8 .. 15 /\ h.cbw = 0 /\ h.stbc = 0 /\ h.fec = 0
SisoSig(h) == /\ ~MimoSig(h)
              /\ h.cbw = (IF fftLen = 128 THEN 1 ELSE 0) /\ h.stbc = 0 /\ h.fec = 0
StbcSig(h) == fftLen = 64 /\ h.cbw = 0 /\ h.stbc = 1 /\ h.fec = 0 /\ h.mcs <= 7
LdpcSig(h) == fftLen = 64 /\ h.cbw = 0 /\ h.stbc = 0 /\ h.fec = 1 /\ h.mcs = 0

VhtSig(v)  == /\ fftLen = 64
              /\ v.bw = 0 /\ v.nss = 1 /\ v.stbc = 0 /\ v.fec = 0 /\ v.mcs <= 7

(* Mutant: the coded bits are not compared with the buffer. *)
FitsSymbolsOnly(nsym, bits) == nsym <= MAX_SYM

(* The early returns of ht_begin, mimo_begin and stbc_begin. *)
Fits(nsym, bits) == nsym <= MAX_SYM /\ bits <= MAX_ENCODED_BITS

HtFits(mcs, len) ==
    /\ mcs <= 7
    /\ LET ofdm == HtOfdm(mcs, BW)
       IN  Fits(NSym(len, ofdm.dbps), NEncodedBits(ofdm, len))

MimoNSym(mcs, len) == NSym(len, 2 * HtOfdm(mcs - 8, 20).dbps)
MimoFits(mcs, len) ==
    Fits(MimoNSym(mcs, len), MimoNSym(mcs, len) * 2 * HtOfdm(mcs - 8, 20).cbps)

(* Mutant: an odd number of symbols is left as it is. *)
StbcNSymOdd(mcs, len) == NSym(len, HtOfdm(mcs, 20).dbps)

(* Alamouti needs an even number of symbols. *)
StbcNSym(mcs, len) == LET n == NSym(len, HtOfdm(mcs, 20).dbps) IN n + (n % 2)
StbcFits(mcs, len) ==
    Fits(StbcNSym(mcs, len), StbcNSym(mcs, len) * HtOfdm(mcs, 20).cbps)

(* A decode of `nsym' symbols begins: ht_begin, mimo_begin or stbc_begin. *)
Begin(mode, mcs, bw, len, nsym) ==
    /\ active' = active \cup {mode}
    /\ job' = [mcs |-> mcs, len |-> len, nsym |-> nsym, dsym |-> 0,
               cbps |-> HtOfdm(mcs, bw).cbps]
    /\ filled' = {}

Sniff == sym = 4 /\ PassOn /\ UNCHANGED <<channel, vht, decodes>>

SniffHt(h) ==
    /\ Sniff /\ SisoSig(h) /\ HtFits(h.mcs, h.len)
    /\ Begin("HT", h.mcs, BW, h.len, NSym(h.len, HtOfdm(h.mcs, BW).dbps))
    /\ fec' = FALSE
    /\ UNCHANGED <<vhtMcs, ltfSeen, haveY0>>

SniffLdpc(h) ==
    /\ Sniff /\ LdpcSig(h) /\ HtFits(h.mcs, h.len)
    /\ Begin("HT", h.mcs, 20, h.len, 13)
    /\ fec' = TRUE
    /\ UNCHANGED <<vhtMcs, ltfSeen, haveY0>>

(* Mutant: d_mimo_ltf_seen is not reset. *)
SniffMimoKeepsSeen(h) ==
    /\ Sniff /\ MimoSig(h) /\ MimoFits(h.mcs, h.len)
    /\ Begin("MIMO", h.mcs - 8, 20, h.len, MimoNSym(h.mcs, h.len))
    /\ UNCHANGED <<fec, vhtMcs, haveY0, ltfSeen>>

SniffMimo(h) ==
    /\ Sniff /\ MimoSig(h) /\ MimoFits(h.mcs, h.len)
    /\ Begin("MIMO", h.mcs - 8, 20, h.len, MimoNSym(h.mcs, h.len))
    /\ ltfSeen' = [ltfSeen EXCEPT !["MIMO"] = 0]
    /\ UNCHANGED <<fec, vhtMcs, haveY0>>

SniffStbc(h) ==
    /\ Sniff /\ StbcSig(h) /\ StbcFits(h.mcs, h.len)
    /\ Begin("STBC", h.mcs, 20, h.len, StbcNSym(h.mcs, h.len))
    /\ ltfSeen' = [ltfSeen EXCEPT !["STBC"] = 0]
    /\ haveY0' = FALSE
    /\ UNCHANGED <<fec, vhtMcs>>

(* VHT-SIG-A carries no length: the decode waits for VHT-SIG-B. *)
SniffVht(v) ==
    /\ Sniff /\ VhtSig(v)
    /\ active' = active \cup {"VHT_PENDING"}
    /\ vhtMcs' = v.mcs
    /\ UNCHANGED <<fec, job, ltfSeen, haveY0, filled>>

(* No signal field, one of a kind that is not decoded, or a frame too long. *)
SniffNothing ==
    /\ Sniff
    /\ UNCHANGED <<active, fec, vhtMcs, job, ltfSeen, haveY0, filled>>

-----------------------------------------------------------------------------
(* Training and data symbols of the frames decoded here.  Each action wants *)
(* one mode raised and no other; ModesExclusive says that this leaves no    *)
(* case out.                                                                *)

Only(mode) == active = {mode} /\ PassOn

(* ht_finish and mimo_finish, and publish_pdu: the bits of all nsym symbols *)
(* are read, whatever is there; `ok' is the outcome of the FCS.             *)
Finish(mode, stored) ==
    \E ok \in BOOLEAN :
        decodes' = Append(decodes,
            [frame |-> frame, mode |-> mode, len |-> job.len, nsym |-> job.nsym,
             read |-> stored,
             published |-> job.len >= 4 /\ (ok \/ KEEP_CORRUPTED)])

(* Mutant: one symbol more than there are is waited for. *)
StoreOneMore(mode, kind, slots) ==
    /\ filled' = filled \cup slots
    /\ job' = [job EXCEPT !.dsym = @ + Cardinality(slots)]
    /\ IF job'.dsym <= job.nsym
       THEN UNCHANGED <<active, vht, fec, decodes>>
       ELSE /\ active' = active \ {mode} /\ Finish(kind, filled')
            /\ fec' = (fec /\ mode = "MIMO")
            /\ vht' = (vht /\ (fec \/ mode # "HT"))

(* The bits of symbols `slots' are stored; the last ones end the decode. *)
Store(mode, kind, slots) ==
    /\ filled' = filled \cup slots
    /\ job' = [job EXCEPT !.dsym = @ + Cardinality(slots)]
    /\ \/ /\ job'.dsym < job.nsym
          /\ UNCHANGED <<active, vht, fec, decodes>>
       \/ /\ job'.dsym >= job.nsym
          /\ active' = active \ {mode}
          /\ Finish(kind, filled')
          /\ fec' = (fec /\ mode = "MIMO")
          /\ vht' = (vht /\ (fec \/ mode # "HT"))

DataStart == IF vht THEN 8 ELSE 7

(* HT-LTF: ht_estimate_ltf20 or ht_estimate_ltf40. *)
HtLtf ==
    /\ Only("HT") /\ sym = 6
    /\ channel' = [channel EXCEPT !["HT"] = frame]
    /\ UNCHANGED modeVars

(* ht_data_symbol. *)
HtData ==
    /\ Only("HT") /\ sym >= DataStart
    /\ Store("HT", IF fec THEN "LDPC" ELSE IF vht THEN "VHT" ELSE "HT", {job.dsym})
    /\ UNCHANGED <<channel, vhtMcs, ltfSeen, haveY0>>

(* vht_read_sig_b, vht_begin: the length is in 4-octet units. *)
VhtSigB(apep) ==
    /\ Only("VHT_PENDING") /\ sym = 7
    /\ LET len == 4 * apep
       IN  \/ /\ len \in 1 .. 4095 /\ HtFits(vhtMcs, len)
              /\ active' = {"HT"}
              /\ vht' = TRUE /\ fec' = FALSE
              /\ job' = [mcs |-> vhtMcs, len |-> len, dsym |-> 0,
                         nsym |-> NSym(len, HtOfdm(vhtMcs, BW).dbps),
                         cbps |-> HtOfdm(vhtMcs, BW).cbps]
              /\ filled' = {}
           \/ /\ ~(len \in 1 .. 4095 /\ HtFits(vhtMcs, len))
              /\ active' = {}
              /\ UNCHANGED <<vht, fec, job, filled>>
    /\ UNCHANGED <<channel, vhtMcs, ltfSeen, haveY0, decodes>>

(* The two HT-LTF symbols of MIMO and STBC: the second gives the estimate. *)
TwoLtf(mode) ==
    /\ Only(mode) /\ sym \in {6, 7}
    /\ ltfSeen' = [ltfSeen EXCEPT ![mode] = @ + 1]
    /\ channel' = IF ltfSeen'[mode] = 2 THEN [channel EXCEPT ![mode] = frame] ELSE channel
    /\ UNCHANGED <<active, vht, fec, vhtMcs, job, haveY0, filled, decodes>>

(* mimo_data_symbol: stored by the symbol's index, not by d_ht_dsym. *)
MimoData ==
    /\ Only("MIMO") /\ sym >= 8
    /\ Store("MIMO", "MIMO", {sym - 8})
    /\ UNCHANGED <<channel, vhtMcs, ltfSeen, haveY0>>

(* stbc_data_symbol: the first symbol of a pair waits for the second. *)
StbcFirst ==
    /\ Only("STBC") /\ sym >= 8 /\ ~haveY0
    /\ haveY0' = TRUE
    /\ UNCHANGED <<active, vht, fec, vhtMcs, job, ltfSeen, filled, channel, decodes>>

StbcSecond ==
    /\ Only("STBC") /\ sym >= 8 /\ haveY0
    /\ haveY0' = FALSE
    /\ Store("STBC", "STBC", {job.dsym, job.dsym + 1})
    /\ UNCHANGED <<channel, vhtMcs, ltfSeen>>

(* Symbols with nothing in them for a decode here. *)
OnlyPassOn ==
    /\ PassOn
    /\ \/ sym \in {3, 5}
       \/ sym > 5 /\ active = {}
       \/ active = {"VHT_PENDING"} /\ sym = 6
    /\ UNCHANGED <<channel, modeVars>>

-----------------------------------------------------------------------------
(* set_algorithm, called by the flow graph's user interface at any time: a  *)
(* new equalizer object, without any channel estimate.                      *)
SetAlgorithm ==
    /\ ltf1' = 0
    /\ channel' = [channel EXCEPT !["LLTF"] = 0]
    /\ UNCHANGED <<fftLen, nvectors, frame, sym, frameSymbols, modeVars, symbolVars>>

EqWork ==
    /\ UNCHANGED fftLen
    /\ \/ NewFrame \/ Skip \/ SecondLtf
       \/ \E l \in LSigs : SignalParsed(l)
       \/ SignalFailed
       \/ \E h \in HtSigs : SniffHt(h) \/ SniffLdpc(h) \/ SniffMimo(h) \/ SniffStbc(h)
       \/ \E v \in VhtSigs : SniffVht(v)
       \/ SniffNothing
       \/ HtLtf \/ HtData \/ MimoData \/ StbcFirst \/ StbcSecond
       \/ \E mode \in {"MIMO", "STBC"} : TwoLtf(mode)
       \/ \E apep \in Apeps : VhtSigB(apep)
       \/ OnlyPassOn

EqStart == EqInit /\ SymbolInit

EqSpec == EqStart /\ [][EqWork \/ SetAlgorithm]_eqVars

-----------------------------------------------------------------------------
(* At most one decode is going on: no sequence of frames and signal fields  *)
(* leaves a flag of an earlier frame up beside a new one.  The modes share  *)
(* d_ht_dsym, d_ht_nsym and d_ht_rx_bits.                                   *)
ModesExclusive == Cardinality(active) <= 1

(* The counter d_ht_dsym, by which bits are stored and the end is noticed,  *)
(* keeps step with the symbol index, by which pilots are rotated and MIMO   *)
(* bits are stored; and a decode ends with its last symbol.                 *)
SlotClock ==
    LET first == CASE "HT" \in active /\ ~vht -> 7 [] OTHER -> 8
        due   == IF sym < first THEN 0 ELSE sym - first
    IN  /\ active # {} => sym >= 5
        /\ "VHT_PENDING" \in active => sym <= 7
        /\ vht => active = {"HT"} /\ sym >= 8 /\ ~fec
        /\ fec => active = {"HT"}
        /\ active \cap {"HT", "MIMO"} # {} => job.dsym = due
        /\ "STBC" \in active => /\ job.dsym = due - (due % 2)
                                /\ haveY0 = (due % 2 = 1)
                                /\ job.nsym % 2 = 0
        /\ active \cap {"HT", "MIMO", "STBC"} # {} => job.dsym < job.nsym
        /\ active \cap {"HT", "MIMO", "STBC"} # {} => filled = 0 .. job.dsym - 1

(* Every bit that the next data symbol stores lies inside d_ht_rx_bits, or  *)
(* inside the d_mimo_bits of its stream.                                    *)
WritesInBounds ==
    /\ "HT" \in active => (job.dsym + 1) * job.cbps <= MAX_ENCODED_BITS
    /\ "STBC" \in active => (job.dsym + 2) * job.cbps <= MAX_ENCODED_BITS
    /\ ("MIMO" \in active /\ sym >= 8) => (sym - 7) * job.cbps <= MAX_ENCODED_BITS

(* Data symbols are equalized with a channel estimated on their own frame:  *)
(* never with one left over from a frame before, of this mode or another.   *)
OwnChannel ==
    /\ ("HT" \in active /\ ~vht /\ sym >= 7) => channel["HT"] = frame
    /\ \A mode \in {"MIMO", "STBC"} :
          (mode \in active /\ sym >= 8) => channel[mode] = frame
    /\ sym >= 2 => channel["LLTF"] \in {0, frame}

(* A decode reads the bits of all its symbols and they are all of its own   *)
(* frame, and a frame is decoded once at most.                              *)
WholeFramesDecoded ==
    /\ \A k \in DOMAIN decodes : decodes[k].read = 0 .. decodes[k].nsym - 1
    /\ \A j, k \in DOMAIN decodes : j < k => decodes[j].frame < decodes[k].frame

(* Every item that frame_equalizer produces comes after a header of its own *)
(* frame, with no other frame's header in between: what decode_mac takes    *)
(* for the symbols of a frame are symbols of that frame.                    *)
SymbolsOwned ==
    \A p \in DOMAIN items :
        \E k \in DOMAIN headers :
            /\ headers[k].at < p
            /\ headers[k].frame = items[p].frame
            /\ \A j \in DOMAIN headers : j > k => headers[j].at >= p
-----------------------------------------------------------------------------
(* "size for the widest modern mode we decode so the interleaver/depuncture *)
(* buffers never overflow" (utils.h:32): what the Viterbi decoder of an     *)
(* HT decode writes to d_depunctured fits in it.                            *)
DepunctureFits ==
    active \cap {"HT", "STBC"} # {} /\ ~fec =>
        NDepunctured(HtOfdm(job.mcs, BW), NSym(job.len, HtOfdm(job.mcs, BW).dbps))
            <= MAX_ENCODED_BITS
=============================================================================
