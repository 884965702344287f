------------------------------ MODULE RxProofs ------------------------------
(***************************************************************************)
(* frame_equalizer keeps frames and decodes apart, for every content of    *)
(* the signal fields and every number of vectors and frames, alone and in  *)
(* front of decode_mac, whose symbol buffer never overflows and whose PDUs *)
(* are of announced frames, in order (FrameDelivery).                      *)
(***************************************************************************)
EXTENDS RxChain, ModuloLemmas, FiniteSetTheorems, SequenceTheorems

-----------------------------------------------------------------------------
EqTypes ==
    /\ fftLen \in {64, 128}
    /\ frame \in Nat /\ sym \in Nat /\ frameSymbols \in Nat
    /\ active \in {{}, {"HT"}, {"MIMO"}, {"STBC"}, {"VHT_PENDING"}}
    /\ vht \in BOOLEAN /\ fec \in BOOLEAN /\ haveY0 \in BOOLEAN
    /\ vhtMcs \in 0 .. 7
    /\ job \in Job
    /\ ltfSeen \in [{"MIMO", "STBC"} -> Nat]
    /\ ltf1 \in Nat
    /\ channel \in [{"LLTF", "HT", "MIMO", "STBC"} -> Nat]

Storing == active \in {{"HT"}, {"MIMO"}, {"STBC"}}

(* The data symbols so far of a MIMO or an STBC frame. *)
Due == IF sym < 8 THEN 0 ELSE sym - 8

SlotInv ==
    /\ active # {} => sym >= 5
    /\ active = {"VHT_PENDING"} => sym <= 7
    /\ vht => active = {"HT"} /\ sym >= 8 /\ ~fec
    /\ fec => active = {"HT"}
    /\ active = {"HT"} => job.dsym = IF sym < DataStart THEN 0 ELSE sym - DataStart
    /\ active = {"MIMO"} => job.dsym = Due
    /\ active = {"STBC"} => /\ job.dsym = Due - (Due % 2)
                            /\ haveY0 = (Due % 2 = 1)
                            /\ job.nsym % 2 = 0
    /\ Storing => /\ job.dsym < job.nsym
                  /\ job.nsym * job.cbps <= MAX_ENCODED_BITS
                  /\ filled = 0 .. job.dsym - 1

(* Of a two-stream frame, how many of its training symbols were seen.       *)
ChannelInv ==
    /\ ltf1 \in {0, frame}
    /\ \A mode \in {"MIMO", "STBC"} : active = {mode} =>
          /\ sym \in {5, 6} => ltfSeen[mode] = 0
          /\ sym = 7 => ltfSeen[mode] = 1
    /\ OwnChannel

(* A frame that was decoded takes no other decode. *)
DecodesInv ==
    /\ \E S : decodes \in Seq(S)
    /\ \A k \in DOMAIN decodes : /\ decodes[k].frame \in Nat
                                 /\ decodes[k].frame <= frame
                                 /\ decodes[k].frame = frame => active = {} /\ sym >= 5
    /\ WholeFramesDecoded

(* What is looked at beyond the L-SIG belongs to the newest header.         *)
HeadersInv ==
    /\ SymbolTypeOK
    /\ \A k \in DOMAIN headers : headers[k].at <= Len(items)
    /\ (frameSymbols > 0 \/ active # {}) =>
          headers # <<>> /\ headers[Len(headers)].frame = frame
    /\ SymbolsOwned

EqInv == EqTypes /\ SlotInv /\ ChannelInv /\ DecodesInv /\ HeadersInv

-----------------------------------------------------------------------------
(* Lemmas about the rates. *)
LEMMA HtOfdmType ==
    ASSUME NEW m \in 0 .. 7, NEW bw
    PROVE  HtOfdm(m, bw).cbps \in Nat \ {0} /\ HtOfdm(m, bw).dbps \in Nat \ {0}
<1> DEFINE i == m + 1
           n == IF bw = 40 THEN 108 ELSE 52
<1>1. i \in 1 .. 8 /\ (n = 108 \/ n = 52)
  OBVIOUS
<1>2. i = 1 \/ i = 2 \/ i = 3 \/ i = 4 \/ i = 5 \/ i = 6 \/ i = 7 \/ i = 8
  BY <1>1
<1>3. Ofdm(HtCoding[i], n).cbps \in Nat \ {0} /\ Ofdm(HtCoding[i], n).dbps \in Nat \ {0}
  <2> HIDE DEF i, n
  <2>1. CASE i = 1 BY <1>1, <2>1 DEF HtCoding, Ofdm
  <2>2. CASE i = 2 BY <1>1, <2>2 DEF HtCoding, Ofdm
  <2>3. CASE i = 3 BY <1>1, <2>3 DEF HtCoding, Ofdm
  <2>4. CASE i = 4 BY <1>1, <2>4 DEF HtCoding, Ofdm
  <2>5. CASE i = 5 BY <1>1, <2>5 DEF HtCoding, Ofdm
  <2>6. CASE i = 6 BY <1>1, <2>6 DEF HtCoding, Ofdm
  <2>7. CASE i = 7 BY <1>1, <2>7 DEF HtCoding, Ofdm
  <2>8. CASE i = 8 BY <1>1, <2>8 DEF HtCoding, Ofdm
  <2> QED BY <1>2, <2>1, <2>2, <2>3, <2>4, <2>5, <2>6, <2>7, <2>8
<1> QED
  BY <1>3 DEF HtOfdm

LEMMA LegacyOfdmType ==
    ASSUME NEW e \in 0 .. 7
    PROVE  LegacyOfdm(e).cbps \in Nat \ {0} /\ LegacyOfdm(e).dbps \in Nat \ {0}
<1> DEFINE i == e + 1
<1>1. i = 1 \/ i = 2 \/ i = 3 \/ i = 4 \/ i = 5 \/ i = 6 \/ i = 7 \/ i = 8
  OBVIOUS
<1>2. Ofdm(LegacyCoding[i], 48).cbps \in Nat \ {0} /\ Ofdm(LegacyCoding[i], 48).dbps \in Nat \ {0}
  <2> HIDE DEF i
  <2>1. CASE i = 1 BY <2>1 DEF LegacyCoding, Ofdm
  <2>2. CASE i = 2 BY <2>2 DEF LegacyCoding, Ofdm
  <2>3. CASE i = 3 BY <2>3 DEF LegacyCoding, Ofdm
  <2>4. CASE i = 4 BY <2>4 DEF LegacyCoding, Ofdm
  <2>5. CASE i = 5 BY <2>5 DEF LegacyCoding, Ofdm
  <2>6. CASE i = 6 BY <2>6 DEF LegacyCoding, Ofdm
  <2>7. CASE i = 7 BY <2>7 DEF LegacyCoding, Ofdm
  <2>8. CASE i = 8 BY <2>8 DEF LegacyCoding, Ofdm
  <2> QED BY <1>1, <2>1, <2>2, <2>3, <2>4, <2>5, <2>6, <2>7, <2>8
<1> QED
  BY <1>2 DEF LegacyOfdm

(* Every frame has a symbol. *)
LEMMA NSymPositive ==
    ASSUME NEW bytes \in Nat, NEW d \in Nat \ {0}
    PROVE  NSym(bytes, d) \in Nat \ {0}
<1>1. PICK q \in Int, r \in 0 .. d - 1 : 22 + 8 * bytes + d - 1 = d * q + r /\ q = NSym(bytes, d)
  <2>1. 22 + 8 * bytes + d - 1 \in Int
    OBVIOUS
  <2> QED
    BY <2>1, DivMod DEF NSym
<1>2. q > 0
  <2>1. SUFFICES ASSUME q <= 0 PROVE FALSE
    OBVIOUS
  <2>2. d * q <= 0
    BY <2>1
  <2> QED
    BY <1>1, <2>2
<1> QED
  BY <1>1, <1>2

(* One slot of a job that fits lies in the buffer. *)
LEMMA SlotFits ==
    ASSUME NEW n \in Nat, NEW m \in Nat, NEW c \in Nat, NEW max \in Nat,
           n <= m, m * c <= max
    PROVE  n * c <= max
<1>1. (m - n) * c >= 0
  <2>1. m - n \in Nat
    OBVIOUS
  <2> QED
    BY <2>1
<1>2. (m - n) * c = m * c - n * c
  OBVIOUS
<1> QED
  BY <1>1, <1>2

-----------------------------------------------------------------------------
(* Beginning, storing and ending a decode. *)
JobInv == EqTypes /\ SlotInv

LEMMA Apart ==
    /\ {"HT"} # {} /\ {"MIMO"} # {} /\ {"STBC"} # {} /\ {"VHT_PENDING"} # {}
    /\ {"HT"} # {"MIMO"} /\ {"HT"} # {"STBC"} /\ {"HT"} # {"VHT_PENDING"}
    /\ {"MIMO"} # {"STBC"} /\ {"MIMO"} # {"VHT_PENDING"} /\ {"STBC"} # {"VHT_PENDING"}
  OBVIOUS

(* The invariant of the job after a step, by the mode that is raised then.  *)
LEMMA SlotNone ==
    ASSUME active' = {}, vht' = FALSE, fec' = FALSE
    PROVE  SlotInv'
<1>1. active' # {"HT"} /\ active' # {"MIMO"} /\ active' # {"STBC"} /\ active' # {"VHT_PENDING"}
  BY Apart
<1> QED
  BY <1>1, Zenon DEF SlotInv, Storing

JobRuns == /\ job.dsym < job.nsym
           /\ job.nsym * job.cbps <= MAX_ENCODED_BITS
           /\ filled = 0 .. job.dsym - 1

LEMMA SlotHt ==
    ASSUME active' = {"HT"}, sym' >= 5, vht' => sym' >= 8 /\ ~fec',
           job'.dsym = IF sym' < DataStart' THEN 0 ELSE sym' - DataStart',
           JobRuns'
    PROVE  SlotInv'
<1>1. active' # {} /\ active' # {"MIMO"} /\ active' # {"STBC"} /\ active' # {"VHT_PENDING"}
  BY Apart
<1> QED
  BY <1>1, Zenon DEF SlotInv, Storing, JobRuns

LEMMA SlotMimo ==
    ASSUME active' = {"MIMO"}, sym' >= 5, vht' = FALSE, fec' = FALSE,
           job'.dsym = Due', JobRuns'
    PROVE  SlotInv'
<1>1. active' # {} /\ active' # {"HT"} /\ active' # {"STBC"} /\ active' # {"VHT_PENDING"}
  BY Apart
<1> QED
  BY <1>1, Zenon DEF SlotInv, Storing, JobRuns

LEMMA SlotStbc ==
    ASSUME active' = {"STBC"}, sym' >= 5, vht' = FALSE, fec' = FALSE,
           job'.dsym = Due' - (Due' % 2), haveY0' = (Due' % 2 = 1), job'.nsym % 2 = 0,
           JobRuns'
    PROVE  SlotInv'
<1>1. active' # {} /\ active' # {"HT"} /\ active' # {"MIMO"} /\ active' # {"VHT_PENDING"}
  BY Apart
<1> QED
  BY <1>1, Zenon DEF SlotInv, Storing, JobRuns

LEMMA SlotPending ==
    ASSUME active' = {"VHT_PENDING"}, sym' >= 5, sym' <= 7, vht' = FALSE, fec' = FALSE
    PROVE  SlotInv'
<1>1. active' # {} /\ active' # {"HT"} /\ active' # {"MIMO"} /\ active' # {"STBC"}
  BY Apart
<1> QED
  BY <1>1, Zenon DEF SlotInv, Storing

(* And what it says of the mode that is raised now. *)
LEMMA ModeNow ==
    ASSUME JobInv
    PROVE  /\ active = {} => vht = FALSE /\ fec = FALSE
           /\ active # {} => sym >= 5
           /\ active = {"HT"} =>
                 /\ vht => sym >= 8 /\ ~fec
                 /\ job.dsym = IF sym < DataStart THEN 0 ELSE sym - DataStart
                 /\ JobRuns
           /\ active = {"MIMO"} => vht = FALSE /\ fec = FALSE /\ job.dsym = Due /\ JobRuns
           /\ active = {"STBC"} => /\ vht = FALSE /\ fec = FALSE
                                   /\ job.dsym = Due - (Due % 2)
                                   /\ haveY0 = (Due % 2 = 1)
                                   /\ job.nsym % 2 = 0 /\ JobRuns
           /\ active = {"VHT_PENDING"} => sym <= 7 /\ vht = FALSE /\ fec = FALSE
<1>1. SlotInv /\ vht \in BOOLEAN /\ fec \in BOOLEAN
  BY DEF JobInv, EqTypes
<1>2. /\ (active # {"HT"} => vht = FALSE /\ fec = FALSE)
      /\ (active # {} => sym >= 5) /\ (vht => sym >= 8 /\ ~fec)
      /\ (active = {"VHT_PENDING"} => sym <= 7)
  BY <1>1, Zenon DEF SlotInv
<1>3. active = {"HT"} => /\ job.dsym = IF sym < DataStart THEN 0 ELSE sym - DataStart
                         /\ JobRuns
  BY <1>1, Zenon DEF SlotInv, Storing, JobRuns
<1>4. active = {"MIMO"} => job.dsym = Due /\ JobRuns
  BY <1>1, Zenon DEF SlotInv, Storing, JobRuns
<1>5. active = {"STBC"} => /\ job.dsym = Due - (Due % 2)
                           /\ haveY0 = (Due % 2 = 1)
                           /\ job.nsym % 2 = 0 /\ JobRuns
  BY <1>1, Zenon DEF SlotInv, Storing, JobRuns
<1> QED
  BY <1>2, <1>3, <1>4, <1>5, Apart

LEMMA Quiet ==
    ASSUME JobInv, sym < 5
    PROVE  active = {} /\ vht = FALSE /\ fec = FALSE
  BY DEF JobInv, EqTypes, SlotInv

LEMMA Begun ==
    ASSUME JobInv, sym = 4,
           NEW mode \in {"HT", "MIMO", "STBC"}, NEW mcs \in 0 .. 7, NEW bw, NEW len \in Nat,
           NEW nsym \in Nat \ {0},
           nsym * HtOfdm(mcs, bw).cbps <= MAX_ENCODED_BITS,
           Begin(mode, mcs, bw, len, nsym)
    PROVE  /\ active' = {mode} /\ job' \in Job
           /\ job'.dsym = 0 /\ job'.nsym = nsym /\ job'.dsym < job'.nsym
           /\ job'.nsym * job'.cbps <= MAX_ENCODED_BITS
           /\ filled' = 0 .. job'.dsym - 1
<1>1. active' = {mode}
  BY Quiet DEF Begin
<1>2. job' = [mcs |-> mcs, len |-> len, nsym |-> nsym, dsym |-> 0, cbps |-> HtOfdm(mcs, bw).cbps]
  BY DEF Begin
<1>3. HtOfdm(mcs, bw).cbps \in Nat
  BY HtOfdmType
<1>4. job' \in Job
  BY <1>2, <1>3 DEF Job
<1>5. filled' = 0 .. job'.dsym - 1
  BY <1>2 DEF Begin
<1> QED
  BY <1>1, <1>2, <1>4, <1>5

(* The part of SlotInv and EqTypes that a decode begun at symbol 4 needs.   *)
LEMMA BegunKeeps ==
    ASSUME JobInv, Sniff, UNCHANGED fftLen,
           NEW mode \in {"HT", "MIMO", "STBC"},
           active' = {mode}, job' \in Job, job'.dsym = 0, job'.dsym < job'.nsym,
           job'.nsym * job'.cbps <= MAX_ENCODED_BITS,
           filled' = 0 .. job'.dsym - 1,
           fec' \in BOOLEAN, fec' => mode = "HT",
           mode = "STBC" => haveY0' = FALSE /\ job'.nsym % 2 = 0,
           haveY0' \in BOOLEAN, vhtMcs' = vhtMcs,
           ltfSeen' \in [{"MIMO", "STBC"} -> Nat],
           UNCHANGED ltf1
    PROVE  JobInv'
<1>1. /\ sym' = 5 /\ vht' = FALSE
      /\ UNCHANGED <<frame, frameSymbols, channel>>
  BY Quiet DEF Sniff, PassOn
<1>2. EqTypes'
  BY <1>1 DEF JobInv, EqTypes
<1>3. Due' = 0 /\ DataStart' = 7
  BY <1>1 DEF Due, DataStart
<1>4. SlotInv'
  BY <1>1, <1>3 DEF SlotInv, Storing, JobInv, EqTypes
<1> QED
  BY <1>2, <1>4 DEF JobInv

LEMMA Sniffed ==
    ASSUME JobInv, Sniff
    PROVE  /\ active = {} /\ vht = FALSE /\ fec = FALSE /\ sym = 4
           /\ ltfSeen \in [{"MIMO", "STBC"} -> Nat] /\ haveY0 \in BOOLEAN
<1>1. sym = 4
  BY DEF Sniff
<1>2. active = {} /\ vht = FALSE /\ fec = FALSE
  BY <1>1, Quiet
<1>3. ltfSeen \in [{"MIMO", "STBC"} -> Nat] /\ haveY0 \in BOOLEAN
  BY DEF JobInv, EqTypes
<1> QED
  BY <1>1, <1>2, <1>3

(* The sizes and the signal fields are numbers. *)
LEMMA Inputs ==
    /\ \A h \in HtSigs : h.mcs \in 0 .. 31 /\ h.len \in Nat
    /\ \A v \in VhtSigs : v.mcs \in 0 .. 9
    /\ \A l \in LSigs : l.encoding \in 0 .. 7 /\ l.bytes \in Nat
    /\ MAX_ENCODED_BITS \in Nat /\ MAX_ENCODED_BITS >= 13 * 52
<1>1. ASSUME NEW h \in HtSigs PROVE h.mcs \in 0 .. 31 /\ h.len \in Nat
  <2>1. h \in [mcs : 0 .. 31, cbw : {0, 1}, len : Nat \ {0}, stbc : 0 .. 3, fec : {0, 1}]
    BY EqualizerAssumption
  <2> QED
    BY <2>1
<1>2. ASSUME NEW v \in VhtSigs PROVE v.mcs \in 0 .. 9
  <2>1. v \in [mcs : 0 .. 9, bw : 0 .. 3, nss : 1 .. 4, stbc : {0, 1}, fec : {0, 1}]
    BY EqualizerAssumption
  <2> QED
    BY <2>1
<1>3. ASSUME NEW l \in LSigs PROVE l.encoding \in 0 .. 7 /\ l.bytes \in Nat
  <2>1. l \in [encoding : 0 .. 7, bytes : Nat]
    BY EqualizerAssumption
  <2> QED
    BY <2>1
<1>4. MAX_ENCODED_BITS \in Nat /\ MAX_ENCODED_BITS >= 13 * 52
  BY EqualizerAssumption, LimitsAssumption
<1> QED
  BY <1>1, <1>2, <1>3, <1>4

LEMMA SniffHtKeeps ==
    ASSUME JobInv, UNCHANGED <<fftLen, ltf1>>, NEW h \in HtSigs, SniffHt(h)
    PROVE  JobInv'
<1>0. Sniff
  BY DEF SniffHt
<1>s. /\ active = {} /\ vht = FALSE /\ fec = FALSE /\ sym = 4
      /\ ltfSeen \in [{"MIMO", "STBC"} -> Nat] /\ haveY0 \in BOOLEAN
  BY <1>0, Sniffed
<1> DEFINE n == NSym(h.len, HtOfdm(h.mcs, BW).dbps)
<1>1. h.mcs \in 0 .. 7 /\ h.len \in Nat
  BY Inputs DEF SniffHt, HtFits
<1>2. n \in Nat \ {0}
  BY <1>1, HtOfdmType, NSymPositive
<1>3. n * HtOfdm(h.mcs, BW).cbps <= MAX_ENCODED_BITS
  BY DEF SniffHt, HtFits, Fits, NEncodedBits
<1>4. Begin("HT", h.mcs, BW, h.len, n)
  BY DEF SniffHt
<1>5. /\ active' = {"HT"} /\ job' \in Job
      /\ job'.dsym = 0 /\ job'.dsym < job'.nsym
      /\ job'.nsym * job'.cbps <= MAX_ENCODED_BITS
      /\ filled' = 0 .. job'.dsym - 1
  <2> HIDE DEF n
  <2> QED
    BY <1>s, <1>1, <1>2, <1>3, <1>4, Begun
<1>6. Sniff /\ fec' = FALSE /\ UNCHANGED <<vhtMcs, ltfSeen, haveY0>>
  BY DEF SniffHt
<1> QED
  BY <1>s, <1>5, <1>6, BegunKeeps

LEMMA SniffLdpcKeeps ==
    ASSUME JobInv, UNCHANGED <<fftLen, ltf1>>, NEW h \in HtSigs, SniffLdpc(h)
    PROVE  JobInv'
<1>0. Sniff
  BY DEF SniffLdpc
<1>s. /\ active = {} /\ vht = FALSE /\ fec = FALSE /\ sym = 4
      /\ ltfSeen \in [{"MIMO", "STBC"} -> Nat] /\ haveY0 \in BOOLEAN
  BY <1>0, Sniffed
<1>1. Begin("HT", 0, 20, h.len, 13) /\ h.len \in Nat /\ 0 \in 0 .. 7
  BY Inputs DEF SniffLdpc, LdpcSig
<1>2. 13 * HtOfdm(0, 20).cbps <= MAX_ENCODED_BITS
  BY Inputs DEF HtOfdm, Ofdm, HtCoding
<1>3. /\ active' = {"HT"} /\ job' \in Job
      /\ job'.dsym = 0 /\ job'.dsym < job'.nsym
      /\ job'.nsym * job'.cbps <= MAX_ENCODED_BITS
      /\ filled' = 0 .. job'.dsym - 1
  BY <1>s, <1>1, <1>2, Begun
<1>4. Sniff /\ fec' = TRUE /\ UNCHANGED <<vhtMcs, ltfSeen, haveY0>>
  BY DEF SniffLdpc
<1> QED
  BY <1>s, <1>3, <1>4, BegunKeeps

LEMMA SniffMimoKeeps ==
    ASSUME JobInv, UNCHANGED <<fftLen, ltf1>>, NEW h \in HtSigs, SniffMimo(h)
    PROVE  JobInv'
<1>0. Sniff
  BY DEF SniffMimo
<1>s. /\ active = {} /\ vht = FALSE /\ fec = FALSE /\ sym = 4
      /\ ltfSeen \in [{"MIMO", "STBC"} -> Nat] /\ haveY0 \in BOOLEAN
  BY <1>0, Sniffed
<1> DEFINE m == h.mcs - 8
           c == HtOfdm(m, 20).cbps
           n == MimoNSym(h.mcs, h.len)
<1>1. m \in 0 .. 7 /\ h.len \in Nat
  BY Inputs DEF SniffMimo, MimoSig
<1>2. n \in Nat \ {0} /\ c \in Nat
  <2>1. 2 * HtOfdm(m, 20).dbps \in Nat \ {0} /\ c \in Nat
    BY <1>1, HtOfdmType
  <2> QED
    BY <1>1, <2>1, NSymPositive DEF MimoNSym
<1>3. n * c <= MAX_ENCODED_BITS
  <2>1. n * 2 * c <= MAX_ENCODED_BITS
    BY DEF SniffMimo, MimoFits, Fits
  <2> HIDE DEF n, c
  <2>2. n * c \in Nat /\ n * 2 * c = n * c + n * c
    BY <1>2
  <2> QED
    BY <2>1, <2>2, Inputs
<1>4. Begin("MIMO", m, 20, h.len, n)
  BY DEF SniffMimo
<1>5. /\ active' = {"MIMO"} /\ job' \in Job
      /\ job'.dsym = 0 /\ job'.dsym < job'.nsym
      /\ job'.nsym * job'.cbps <= MAX_ENCODED_BITS
      /\ filled' = 0 .. job'.dsym - 1
  <2>1. n * HtOfdm(m, 20).cbps <= MAX_ENCODED_BITS
    BY <1>3
  <2> HIDE DEF n, m
  <2> QED
    BY <1>s, <1>1, <1>2, <2>1, <1>4, Begun
<1>6. /\ Sniff /\ fec' = FALSE /\ UNCHANGED <<vhtMcs, haveY0>>
      /\ ltfSeen' \in [{"MIMO", "STBC"} -> Nat]
  BY <1>s DEF SniffMimo
<1> QED
  BY <1>s, <1>5, <1>6, BegunKeeps

LEMMA SniffStbcKeeps ==
    ASSUME JobInv, UNCHANGED <<fftLen, ltf1>>, NEW h \in HtSigs, SniffStbc(h)
    PROVE  JobInv'
<1>0. Sniff
  BY DEF SniffStbc
<1>s. /\ active = {} /\ vht = FALSE /\ fec = FALSE /\ sym = 4
      /\ ltfSeen \in [{"MIMO", "STBC"} -> Nat] /\ haveY0 \in BOOLEAN
  BY <1>0, Sniffed
<1> DEFINE n == StbcNSym(h.mcs, h.len)
           b == NSym(h.len, HtOfdm(h.mcs, 20).dbps)
<1>1. h.mcs \in 0 .. 7 /\ h.len \in Nat
  BY Inputs DEF SniffStbc, StbcSig
<1>2. n \in Nat \ {0} /\ n % 2 = 0
  <2>1. b \in Nat \ {0}
    BY <1>1, HtOfdmType, NSymPositive
  <2>2. n = b + (b % 2)
    BY DEF StbcNSym
  <2> HIDE DEF n, b
  <2> QED
    BY <2>1, <2>2
<1>3. n * HtOfdm(h.mcs, 20).cbps <= MAX_ENCODED_BITS
  BY DEF SniffStbc, StbcFits, Fits
<1>4. Begin("STBC", h.mcs, 20, h.len, n)
  BY DEF SniffStbc
<1>5. /\ active' = {"STBC"} /\ job' \in Job
      /\ job'.dsym = 0 /\ job'.dsym < job'.nsym /\ job'.nsym % 2 = 0
      /\ job'.nsym * job'.cbps <= MAX_ENCODED_BITS
      /\ filled' = 0 .. job'.dsym - 1
  <2> HIDE DEF n
  <2> QED
    BY <1>s, <1>1, <1>2, <1>3, <1>4, Begun
<1>6. /\ Sniff /\ fec' = FALSE /\ haveY0' = FALSE /\ UNCHANGED vhtMcs
      /\ ltfSeen' \in [{"MIMO", "STBC"} -> Nat]
  BY <1>s DEF SniffStbc
<1> QED
  BY <1>s, <1>5, <1>6, BegunKeeps

LEMMA SniffVhtKeeps ==
    ASSUME JobInv, UNCHANGED <<fftLen, ltf1>>, NEW v \in VhtSigs, SniffVht(v)
    PROVE  JobInv'
<1>0. Sniff
  BY DEF SniffVht
<1>s. /\ active = {} /\ vht = FALSE /\ fec = FALSE /\ sym = 4
      /\ ltfSeen \in [{"MIMO", "STBC"} -> Nat] /\ haveY0 \in BOOLEAN
  BY <1>0, Sniffed
<1>1. /\ sym' = 5 /\ active' = {"VHT_PENDING"} /\ vhtMcs' = v.mcs
      /\ UNCHANGED <<frame, frameSymbols, channel, vht, fec, job, ltfSeen, haveY0, filled>>
  BY <1>s DEF SniffVht, Sniff, PassOn
<1>2. vhtMcs' \in 0 .. 7
  BY Inputs, <1>1 DEF SniffVht, VhtSig
<1>3. EqTypes'
  BY <1>s, <1>1, <1>2 DEF JobInv, EqTypes
<1>4. /\ sym' >= 5 /\ sym' <= 7
      /\ active' = {"VHT_PENDING"} /\ vht' = FALSE /\ fec' = FALSE
  BY <1>s, <1>1
<1>5. /\ active' # {"HT"} /\ active' # {"MIMO"} /\ active' # {"STBC"}
      /\ ~Storing'
  BY <1>4, Apart DEF Storing
<1>6. SlotInv'
  BY <1>4, <1>5, Zenon DEF SlotInv
<1> QED
  BY <1>3, <1>6 DEF JobInv

LEMMA SniffNothingKeeps ==
    ASSUME JobInv, UNCHANGED <<fftLen, ltf1>>, SniffNothing
    PROVE  JobInv'
<1>0. Sniff
  BY DEF SniffNothing
<1>s. /\ active = {} /\ vht = FALSE /\ fec = FALSE /\ sym = 4
      /\ ltfSeen \in [{"MIMO", "STBC"} -> Nat] /\ haveY0 \in BOOLEAN
  BY <1>0, Sniffed
<1>1. /\ sym' = 5 /\ active' = {} /\ vht' = FALSE /\ fec' = FALSE
      /\ UNCHANGED <<frame, frameSymbols, channel, vhtMcs, job, ltfSeen, haveY0, filled>>
  BY <1>s DEF SniffNothing, Sniff, PassOn
<1> QED
  BY <1>s, <1>1 DEF JobInv, EqTypes, SlotInv, Storing

(* Data symbols fill slot after slot; the last one ends the decode.         *)
LEMMA Stored ==
    ASSUME JobInv, NEW mode \in {"HT", "MIMO", "STBC"}, active = {mode},
           NEW kind, NEW n \in {1, 2}, NEW slots,
           slots = job.dsym .. job.dsym + n - 1,
           n = 2 => job.dsym % 2 = 0 /\ job.nsym % 2 = 0,
           Store(mode, kind, slots)
    PROVE  /\ job' \in Job /\ job'.dsym = job.dsym + n
           /\ job'.nsym = job.nsym /\ job'.cbps = job.cbps
           /\ filled' = 0 .. job'.dsym - 1
           /\ \/ /\ active' = {mode} /\ job'.dsym < job'.nsym
                 /\ UNCHANGED <<vht, fec, decodes>>
              \/ /\ active' = {} /\ vht' = FALSE /\ fec' = FALSE
                 /\ job'.dsym = job'.nsym /\ Finish(kind, filled')
<1>1. /\ job \in Job /\ job.dsym \in Nat /\ job.nsym \in Nat /\ job.dsym < job.nsym
      /\ filled = 0 .. job.dsym - 1
      /\ fec => mode = "HT"
      /\ vht => mode = "HT" /\ ~fec
      /\ vht \in BOOLEAN /\ fec \in BOOLEAN
  BY DEF JobInv, EqTypes, SlotInv, Storing, Job
<1>2. Cardinality(slots) = n
  <2>1. CASE n = 1
    <3>1. slots = {job.dsym}
      BY <1>1, <2>1
    <3> QED
      BY <2>1, <3>1, FS_Singleton
  <2>2. CASE n = 2
    <3>1. slots = {job.dsym} \cup {job.dsym + 1} /\ job.dsym + 1 \notin {job.dsym}
      BY <1>1, <2>2
    <3>2. IsFiniteSet({job.dsym}) /\ Cardinality({job.dsym}) = 1
      BY FS_Singleton
    <3>3. Cardinality({job.dsym} \cup {job.dsym + 1}) =
              Cardinality({job.dsym}) + 1
      <4> DEFINE S == {job.dsym}
                 x == job.dsym + 1
      <4>1. IsFiniteSet(S) /\ x \notin S
        BY <3>1, <3>2
      <4> HIDE DEF S, x
      <4>2. Cardinality(S \cup {x}) = Cardinality(S) + 1
        BY <4>1, FS_AddElement
      <4> QED
        BY <4>2 DEF S, x
    <3>4. Cardinality({job.dsym}) + 1 = 2
      BY <3>2
    <3>5. Cardinality(slots) = Cardinality({job.dsym} \cup {job.dsym + 1})
      BY <3>1, Zenon
    <3> QED
      BY <2>2, <3>3, <3>4, <3>5
  <2> QED
    BY <2>1, <2>2
<1>3. /\ job' = [job EXCEPT !.dsym = job.dsym + n]
      /\ filled' = filled \cup slots
  BY <1>1, <1>2 DEF Store
<1>4. /\ job' \in Job /\ job'.dsym = job.dsym + n
      /\ job'.nsym = job.nsym /\ job'.cbps = job.cbps
  BY <1>1, <1>3 DEF Job
<1>5. filled' = 0 .. job'.dsym - 1
  BY <1>1, <1>3, <1>4
<1>6. CASE job'.dsym < job'.nsym
  <2>1. UNCHANGED <<active, vht, fec, decodes>>
    BY <1>1, <1>4, <1>6 DEF Store
  <2> QED
    BY <1>4, <1>5, <1>6, <2>1
<1>7. CASE ~(job'.dsym < job'.nsym)
  <2>1. /\ active' = active \ {mode} /\ Finish(kind, filled')
        /\ fec' = (fec /\ mode = "MIMO") /\ vht' = (vht /\ (fec \/ mode # "HT"))
    BY <1>1, <1>4, <1>7 DEF Store
  <2>2. fec' = FALSE /\ vht' = FALSE
    BY <1>1, <2>1
  <2>3. job'.dsym = job'.nsym
    BY <1>1, <1>4, <1>7
  <2>4. active' = {}
    BY <2>1
  <2> QED
    BY <1>4, <1>5, <2>1, <2>2, <2>3, <2>4
<1> QED
  BY <1>6, <1>7

LEMMA StoredOne ==
    ASSUME JobInv, NEW mode \in {"HT", "MIMO", "STBC"}, active = {mode},
           NEW kind, Store(mode, kind, {job.dsym})
    PROVE  /\ job' \in Job /\ job'.dsym = job.dsym + 1
           /\ job'.nsym = job.nsym /\ job'.cbps = job.cbps
           /\ filled' = 0 .. job'.dsym - 1
           /\ \/ /\ active' = {mode} /\ job'.dsym < job'.nsym
                 /\ UNCHANGED <<vht, fec, decodes>>
              \/ /\ active' = {} /\ vht' = FALSE /\ fec' = FALSE
                 /\ job'.dsym = job'.nsym /\ Finish(kind, filled')
<1>1. {job.dsym} = job.dsym .. job.dsym + 1 - 1
  BY DEF JobInv, EqTypes, Job
<1>2. 1 \in {1, 2} /\ 1 # 2
  OBVIOUS
<1> QED
  BY <1>1, <1>2, Stored, Zenon

(* What every symbol after the L-SIG leaves alone. *)
LEMMA Passed ==
    ASSUME JobInv, PassOn
    PROVE  /\ sym \in Nat /\ sym > 2 /\ sym' = sym + 1
           /\ UNCHANGED <<frame, frameSymbols, ltf1>>
           /\ sym' \in Nat /\ frame' \in Nat /\ frameSymbols' \in Nat /\ ltf1' \in Nat
           /\ job \in Job /\ job.dsym \in Nat /\ job.nsym \in Nat /\ job.cbps \in Nat
<1>1. sym > 2 /\ sym' = sym + 1 /\ UNCHANGED <<frame, frameSymbols, ltf1>>
  BY DEF PassOn
<1>2. frame \in Nat /\ frameSymbols \in Nat /\ ltf1 \in Nat /\ sym \in Nat /\ job \in Job
  BY DEF JobInv, EqTypes
<1>3. job.dsym \in Nat /\ job.nsym \in Nat /\ job.cbps \in Nat
  BY <1>2 DEF Job
<1> QED
  BY <1>1, <1>2, <1>3

(* The types after a step that leaves the channel estimates alone. *)
LEMMA TypesNext ==
    ASSUME JobInv, UNCHANGED fftLen,
           sym' \in Nat /\ frame' \in Nat /\ frameSymbols' \in Nat /\ ltf1' \in Nat,
           active' \in {{}, {"HT"}, {"MIMO"}, {"STBC"}, {"VHT_PENDING"}},
           vht' \in BOOLEAN /\ fec' \in BOOLEAN /\ haveY0' \in BOOLEAN,
           vhtMcs' \in 0 .. 7, job' \in Job,
           channel' \in [{"LLTF", "HT", "MIMO", "STBC"} -> Nat],
           ltfSeen' \in [{"MIMO", "STBC"} -> Nat]
    PROVE  EqTypes'
<1>1. fftLen' \in {64, 128}
  <2>1. fftLen \in {64, 128} /\ fftLen' = fftLen
    BY DEF JobInv, EqTypes
  <2> QED
    BY <2>1
<1> QED
  BY <1>1, Zenon DEF EqTypes

(* What a step may leave as it is. *)
LEMMA TypesNow ==
    ASSUME JobInv
    PROVE  /\ sym \in Nat /\ frame \in Nat /\ frameSymbols \in Nat /\ ltf1 \in Nat
           /\ active \in {{}, {"HT"}, {"MIMO"}, {"STBC"}, {"VHT_PENDING"}}
           /\ vht \in BOOLEAN /\ fec \in BOOLEAN /\ haveY0 \in BOOLEAN
           /\ vhtMcs \in 0 .. 7 /\ job \in Job
           /\ channel \in [{"LLTF", "HT", "MIMO", "STBC"} -> Nat]
           /\ ltfSeen \in [{"MIMO", "STBC"} -> Nat]
  BY Zenon DEF JobInv, EqTypes

(* The types after a symbol whose channel estimates are kept. *)
LEMMA TypesStored ==
    ASSUME JobInv, UNCHANGED fftLen, PassOn, UNCHANGED <<channel, vhtMcs, ltfSeen>>,
           NEW mode \in {"HT", "MIMO", "STBC"},
           job' \in Job, haveY0' \in BOOLEAN,
           \/ active' = {mode} /\ UNCHANGED <<vht, fec>>
           \/ active' = {} /\ vht' = FALSE /\ fec' = FALSE
    PROVE  EqTypes'
<1>1. vht' \in BOOLEAN /\ fec' \in BOOLEAN
  BY TypesNow
<1>2. active' \in {{}, {"HT"}, {"MIMO"}, {"STBC"}, {"VHT_PENDING"}}
  <2>1. CASE active' = {}
    BY <2>1
  <2>2. CASE active' = {mode}
    BY <2>2
  <2> QED
    BY <2>1, <2>2
<1>3. /\ vhtMcs' \in 0 .. 7
      /\ channel' \in [{"LLTF", "HT", "MIMO", "STBC"} -> Nat]
      /\ ltfSeen' \in [{"MIMO", "STBC"} -> Nat]
  <2>1. /\ vhtMcs \in 0 .. 7
        /\ channel \in [{"LLTF", "HT", "MIMO", "STBC"} -> Nat]
        /\ ltfSeen \in [{"MIMO", "STBC"} -> Nat]
    BY TypesNow
  <2>2. vhtMcs' = vhtMcs /\ channel' = channel /\ ltfSeen' = ltfSeen
    OBVIOUS
  <2> QED
    BY <2>1, <2>2, Zenon
<1>4. sym' \in Nat /\ frame' \in Nat /\ frameSymbols' \in Nat /\ ltf1' \in Nat
  BY Passed
<1> QED
  BY <1>1, <1>2, <1>3, <1>4, TypesNext, Zenon

(* The first data symbol, and the bits of a slot. *)
LEMMA HtDataKeepsJob ==
    ASSUME JobInv, UNCHANGED fftLen, HtData
    PROVE  JobInv'
<1>0. /\ active = {"HT"} /\ PassOn /\ sym >= DataStart
      /\ \E kind : Store("HT", kind, {job.dsym})
      /\ UNCHANGED <<channel, vhtMcs, ltfSeen, haveY0>>
  BY DEF HtData, Only
<1>p. /\ sym \in Nat /\ sym > 2 /\ sym' = sym + 1
      /\ sym' \in Nat /\ frame' \in Nat /\ frameSymbols' \in Nat /\ ltf1' \in Nat
      /\ job.dsym \in Nat
  BY <1>0, Passed
<1>1. /\ vht => sym >= 8 /\ ~fec
      /\ job.dsym = IF sym < DataStart THEN 0 ELSE sym - DataStart
      /\ sym >= 5
      /\ job.nsym * job.cbps <= MAX_ENCODED_BITS
  BY <1>0, ModeNow, Apart DEF JobRuns
<1>2. DataStart \in {7, 8} /\ job.dsym = sym - DataStart
  BY <1>0, <1>p, <1>1 DEF DataStart
<1>3. PICK kind : Store("HT", kind, {job.dsym})
  BY <1>0
<1>4. /\ job' \in Job /\ job'.dsym = job.dsym + 1
      /\ job'.nsym = job.nsym /\ job'.cbps = job.cbps
      /\ filled' = 0 .. job'.dsym - 1
      /\ \/ /\ active' = {"HT"} /\ job'.dsym < job'.nsym
            /\ UNCHANGED <<vht, fec, decodes>>
         \/ active' = {} /\ vht' = FALSE /\ fec' = FALSE
  <2>1. "HT" \in {"HT", "MIMO", "STBC"}
    OBVIOUS
  <2> QED
    BY <1>0, <1>3, <2>1, StoredOne, Zenon
<1>5. EqTypes'
  <2>1. /\ JobInv /\ UNCHANGED fftLen /\ PassOn /\ UNCHANGED <<channel, vhtMcs, ltfSeen>>
        /\ job' \in Job /\ haveY0' \in BOOLEAN /\ "HT" \in {"HT", "MIMO", "STBC"}
    BY <1>0, <1>4, TypesNow
  <2>2. \/ active' = {"HT"} /\ UNCHANGED <<vht, fec>>
        \/ active' = {} /\ vht' = FALSE /\ fec' = FALSE
    BY <1>4
  <2> QED
    BY <2>1, <2>2, TypesStored, Zenon
<1>6. CASE active' = {"HT"}
  <2>1. UNCHANGED <<vht, fec>> /\ job'.dsym < job'.nsym
    BY <1>4, <1>6, Apart
  <2>2. DataStart' = DataStart
    BY <2>1 DEF DataStart
  <2>3. job'.dsym = IF sym' < DataStart' THEN 0 ELSE sym' - DataStart'
    BY <1>0, <1>p, <1>2, <1>4, <2>2
  <2>4. sym' >= 5 /\ (vht' => sym' >= 8 /\ ~fec')
    BY <1>p, <1>1, <2>1
  <2>5. JobRuns'
    BY <1>1, <1>4, <2>1 DEF JobRuns
  <2> QED
    BY <1>5, <1>6, <2>3, <2>4, <2>5, SlotHt DEF JobInv
<1>7. CASE active' = {}
  BY <1>4, <1>5, <1>7, SlotNone, Apart DEF JobInv
<1> QED
  BY <1>4, <1>6, <1>7

LEMMA MimoDataKeepsJob ==
    ASSUME JobInv, UNCHANGED fftLen, MimoData
    PROVE  JobInv'
<1>0. /\ active = {"MIMO"} /\ PassOn /\ sym >= 8
      /\ Store("MIMO", "MIMO", {sym - 8})
      /\ UNCHANGED <<channel, vhtMcs, ltfSeen, haveY0>>
  BY DEF MimoData, Only
<1>p. /\ sym \in Nat /\ sym' = sym + 1
      /\ sym' \in Nat /\ frame' \in Nat /\ frameSymbols' \in Nat /\ ltf1' \in Nat
      /\ job.dsym \in Nat
  BY <1>0, Passed
<1>1. /\ vht = FALSE /\ fec = FALSE /\ job.dsym = Due
      /\ job.nsym * job.cbps <= MAX_ENCODED_BITS
  BY <1>0, ModeNow DEF JobRuns
<1>2. job.dsym = sym - 8 /\ Due' = sym - 7
  BY <1>0, <1>p, <1>1 DEF Due
<1>4. /\ job' \in Job /\ job'.dsym = job.dsym + 1
      /\ job'.nsym = job.nsym /\ job'.cbps = job.cbps
      /\ filled' = 0 .. job'.dsym - 1
      /\ \/ active' = {"MIMO"} /\ job'.dsym < job'.nsym /\ UNCHANGED <<vht, fec>>
         \/ active' = {} /\ vht' = FALSE /\ fec' = FALSE
  <2>1. "MIMO" \in {"HT", "MIMO", "STBC"} /\ sym - 8 = job.dsym
    BY <1>2
  <2>2. Store("MIMO", "MIMO", {job.dsym})
    BY <1>0, <2>1
  <2> QED
    BY <1>0, <2>1, <2>2, StoredOne, Zenon
<1>5. EqTypes'
  <2>1. /\ JobInv /\ UNCHANGED fftLen /\ PassOn /\ UNCHANGED <<channel, vhtMcs, ltfSeen>>
        /\ job' \in Job /\ haveY0' \in BOOLEAN /\ "MIMO" \in {"HT", "MIMO", "STBC"}
    BY <1>0, <1>4, TypesNow
  <2>2. \/ active' = {"MIMO"} /\ UNCHANGED <<vht, fec>>
        \/ active' = {} /\ vht' = FALSE /\ fec' = FALSE
    BY <1>4
  <2> QED
    BY <2>1, <2>2, TypesStored, Zenon
<1>6. CASE active' = {"MIMO"}
  <2>1. vht' = FALSE /\ fec' = FALSE /\ job'.dsym < job'.nsym
    BY <1>1, <1>4, <1>6, Apart
  <2>2. job'.dsym = Due' /\ sym' >= 5
    BY <1>0, <1>p, <1>2, <1>4
  <2>3. JobRuns'
    BY <1>1, <1>4, <2>1 DEF JobRuns
  <2> QED
    BY <1>5, <1>6, <2>1, <2>2, <2>3, SlotMimo DEF JobInv
<1>7. CASE active' = {}
  BY <1>4, <1>5, <1>7, SlotNone, Apart DEF JobInv
<1> QED
  BY <1>4, <1>6, <1>7

LEMMA StbcFirstKeepsJob ==
    ASSUME JobInv, UNCHANGED fftLen, StbcFirst
    PROVE  JobInv'
<1>0. /\ active = {"STBC"} /\ PassOn /\ sym >= 8 /\ ~haveY0 /\ haveY0' = TRUE
      /\ UNCHANGED <<active, vht, fec, vhtMcs, job, ltfSeen, filled, channel>>
  BY DEF StbcFirst, Only
<1>p. /\ sym \in Nat /\ sym' = sym + 1
      /\ sym' \in Nat /\ frame' \in Nat /\ frameSymbols' \in Nat /\ ltf1' \in Nat
  BY <1>0, Passed
<1>1. /\ vht = FALSE /\ fec = FALSE
      /\ job.dsym = Due - (Due % 2) /\ haveY0 = (Due % 2 = 1)
      /\ job.nsym % 2 = 0 /\ JobRuns
  BY <1>0, ModeNow
<1>2. Due = sym - 8 /\ Due' = sym - 7
  BY <1>0, <1>p DEF Due
<1>3. Due % 2 # 1
  BY <1>0, <1>1
<1>4. Due % 2 = 0
  BY <1>2, <1>3, <1>0, <1>p
<1>5. Due' % 2 = 1 /\ job.dsym = Due' - (Due' % 2)
  BY <1>0, <1>1, <1>2, <1>4, <1>p
<1>6. EqTypes'
  BY <1>0, <1>p, TypesNow, TypesNext
<1>7. JobRuns' /\ sym' >= 5 /\ job'.nsym % 2 = 0
  BY <1>0, <1>p, <1>1 DEF JobRuns
<1>8. haveY0' = (Due' % 2 = 1)
  BY <1>0, <1>5
<1> QED
  BY <1>0, <1>1, <1>5, <1>6, <1>7, <1>8, SlotStbc DEF JobInv

LEMMA StbcSecondKeepsJob ==
    ASSUME JobInv, UNCHANGED fftLen, StbcSecond
    PROVE  JobInv'
<1>0. /\ active = {"STBC"} /\ PassOn /\ sym >= 8 /\ haveY0 /\ haveY0' = FALSE
      /\ Store("STBC", "STBC", {job.dsym, job.dsym + 1})
      /\ UNCHANGED <<channel, vhtMcs, ltfSeen>>
  BY DEF StbcSecond, Only
<1>p. /\ sym \in Nat /\ sym' = sym + 1
      /\ sym' \in Nat /\ frame' \in Nat /\ frameSymbols' \in Nat /\ ltf1' \in Nat
      /\ job.dsym \in Nat
  BY <1>0, Passed
<1>1. /\ vht = FALSE /\ fec = FALSE
      /\ job.dsym = Due - (Due % 2) /\ haveY0 = (Due % 2 = 1)
      /\ job.nsym % 2 = 0 /\ job.nsym * job.cbps <= MAX_ENCODED_BITS
  BY <1>0, ModeNow DEF JobRuns
<1>2. Due = sym - 8 /\ Due' = sym - 7
  BY <1>0, <1>p DEF Due
<1>3. Due % 2 = 1
  BY <1>0, <1>1
<1>4. Due' % 2 = 0 /\ job.dsym % 2 = 0 /\ Due' = job.dsym + 2
  BY <1>0, <1>1, <1>2, <1>3, <1>p
<1>5. /\ job' \in Job /\ job'.dsym = job.dsym + 2
      /\ job'.nsym = job.nsym /\ job'.cbps = job.cbps
      /\ filled' = 0 .. job'.dsym - 1
      /\ \/ active' = {"STBC"} /\ job'.dsym < job'.nsym /\ UNCHANGED <<vht, fec>>
         \/ active' = {} /\ vht' = FALSE /\ fec' = FALSE
  <2>1. {job.dsym, job.dsym + 1} = job.dsym .. job.dsym + 2 - 1
    BY <1>p
  <2> QED
    BY <1>0, <1>1, <1>4, <2>1, Stored
<1>6. EqTypes'
  <2>1. /\ JobInv /\ UNCHANGED fftLen /\ PassOn /\ UNCHANGED <<channel, vhtMcs, ltfSeen>>
        /\ job' \in Job /\ haveY0' \in BOOLEAN /\ "STBC" \in {"HT", "MIMO", "STBC"}
    BY <1>0, <1>5, TypesNow
  <2>2. \/ active' = {"STBC"} /\ UNCHANGED <<vht, fec>>
        \/ active' = {} /\ vht' = FALSE /\ fec' = FALSE
    BY <1>5
  <2> QED
    BY <2>1, <2>2, TypesStored, Zenon
<1>7. CASE active' = {"STBC"}
  <2>1. vht' = FALSE /\ fec' = FALSE /\ job'.dsym < job'.nsym
    BY <1>1, <1>5, <1>7, Apart
  <2>2. job'.nsym % 2 = 0 /\ job'.dsym = Due' - (Due' % 2) /\ sym' >= 5
    BY <1>0, <1>p, <1>1, <1>4, <1>5
  <2>3. haveY0' = (Due' % 2 = 1)
    <3>1. Due' % 2 # 1
      BY <1>4
    <3> QED
      BY <1>0, <3>1, Zenon
  <2>4. JobRuns'
    BY <1>1, <1>5, <2>1 DEF JobRuns
  <2> QED
    BY <1>6, <1>7, <2>1, <2>2, <2>3, <2>4, SlotStbc DEF JobInv
<1>8. CASE active' = {}
  BY <1>5, <1>6, <1>8, SlotNone, Apart DEF JobInv
<1> QED
  BY <1>5, <1>7, <1>8

(* Everything else that the loop does. *)
LEMMA VhtSigBKeepsJob ==
    ASSUME JobInv, UNCHANGED fftLen, NEW apep \in Apeps, VhtSigB(apep)
    PROVE  JobInv'
<1> DEFINE len == 4 * apep
           fits == len \in 1 .. 4095 /\ HtFits(vhtMcs, len)
           n   == NSym(len, HtOfdm(vhtMcs, BW).dbps)
           c   == HtOfdm(vhtMcs, BW).cbps
<1>0. /\ active = {"VHT_PENDING"} /\ PassOn /\ sym = 7
      /\ UNCHANGED <<channel, vhtMcs, ltfSeen, haveY0>>
  BY DEF VhtSigB, Only
<1>p. /\ sym' = 8
      /\ sym' \in Nat /\ frame' \in Nat /\ frameSymbols' \in Nat /\ ltf1' \in Nat
  BY <1>0, Passed
<1>2. vht = FALSE /\ fec = FALSE /\ vhtMcs \in 0 .. 7
  BY <1>0, ModeNow, TypesNow
<1>b. \/ /\ fits
         /\ active' = {"HT"} /\ vht' = TRUE /\ fec' = FALSE /\ filled' = {}
         /\ job' = [mcs |-> vhtMcs, len |-> len, dsym |-> 0, nsym |-> n, cbps |-> c]
      \/ active' = {} /\ UNCHANGED <<vht, fec, job, filled>>
  BY DEF VhtSigB
<1>l. len \in Nat
  BY EqualizerAssumption
<1>n. n \in Nat \ {0} /\ c \in Nat
  <2> HIDE DEF len
  <2> QED
    BY <1>2, <1>l, HtOfdmType, NSymPositive
<1>f. fits => n * c <= MAX_ENCODED_BITS
  <2> SUFFICES ASSUME fits PROVE n * c <= MAX_ENCODED_BITS
    OBVIOUS
  <2>1. HtFits(vhtMcs, len)
    OBVIOUS
  <2> HIDE DEF fits, len
  <2> QED
    BY <2>1 DEF HtFits, Fits, NEncodedBits
<1> HIDE DEF fits, n, c, len
<1>3. CASE /\ fits
           /\ active' = {"HT"} /\ vht' = TRUE /\ fec' = FALSE /\ filled' = {}
           /\ job' = [mcs |-> vhtMcs, len |-> len, dsym |-> 0, nsym |-> n, cbps |-> c]
  <2>1. job' \in Job /\ job'.dsym = 0
    BY <1>2, <1>l, <1>n, <1>3 DEF Job
  <2>2. JobRuns'
    BY <1>n, <1>f, <1>3 DEF JobRuns
  <2>3. EqTypes'
    BY <1>0, <1>p, <1>3, <2>1, TypesNow, TypesNext
  <2>4. DataStart' = 8
    BY <1>3 DEF DataStart
  <2>5. /\ sym' >= 5 /\ (vht' => sym' >= 8 /\ ~fec')
        /\ job'.dsym = IF sym' < DataStart' THEN 0 ELSE sym' - DataStart'
    BY <1>p, <1>3, <2>1, <2>4
  <2> QED
    BY <1>3, <2>2, <2>3, <2>5, SlotHt DEF JobInv
<1>4. CASE active' = {} /\ UNCHANGED <<vht, fec, job, filled>>
  <2>1. EqTypes'
    BY <1>0, <1>p, <1>4, TypesNow, TypesNext
  <2> QED
    BY <1>2, <1>4, <2>1, SlotNone DEF JobInv
<1> QED
  BY <1>b, <1>3, <1>4

(* Symbols that change nothing of the job. *)
LEMMA IdleKeepsJob ==
    ASSUME JobInv, UNCHANGED fftLen, PassOn, sym # 4,
           UNCHANGED <<active, vht, fec, vhtMcs, job, haveY0, filled>>,
           channel' \in [{"LLTF", "HT", "MIMO", "STBC"} -> Nat],
           ltfSeen' \in [{"MIMO", "STBC"} -> Nat],
           \/ active = {}
           \/ active = {"HT"} /\ sym \in {5, 6}
           \/ active \in {{"MIMO"}, {"STBC"}} /\ sym \in {5, 6, 7}
           \/ active = {"VHT_PENDING"} /\ sym \in {5, 6}
    PROVE  JobInv'
<1>1. /\ sym \in Nat /\ sym' = sym + 1
      /\ sym' \in Nat /\ frame' \in Nat /\ frameSymbols' \in Nat /\ ltf1' \in Nat
  BY Passed
<1>2. EqTypes'
  BY <1>1, TypesNow, TypesNext
<1>r. JobRuns => JobRuns'
  BY DEF JobRuns
<1>3. CASE active = {}
  BY <1>2, <1>3, ModeNow, SlotNone DEF JobInv
<1>4. CASE active = {"HT"} /\ sym \in {5, 6}
  <2>1. /\ JobRuns /\ vht = FALSE
        /\ job.dsym = IF sym < DataStart THEN 0 ELSE sym - DataStart
    <3>1. /\ JobRuns /\ (vht => sym >= 8)
          /\ job.dsym = IF sym < DataStart THEN 0 ELSE sym - DataStart
      BY <1>4, ModeNow
    <3>2. ~(sym >= 8)
      BY <1>4
    <3> QED
      BY <3>1, <3>2, TypesNow
  <2>2. DataStart = 7 /\ DataStart' = 7
    BY <2>1 DEF DataStart
  <2>3. job'.dsym = IF sym' < DataStart' THEN 0 ELSE sym' - DataStart'
    BY <1>1, <1>4, <2>1, <2>2
  <2>4. active' = {"HT"} /\ sym' >= 5 /\ vht' = FALSE
    BY <1>1, <1>4, <2>1
  <2> QED
    BY <1>2, <1>r, <2>1, <2>3, <2>4, SlotHt DEF JobInv
<1>5. CASE active \in {{"MIMO"}, {"STBC"}} /\ sym \in {5, 6, 7}
  <2>1. Due = 0 /\ Due' = 0 /\ Due % 2 = 0 /\ Due' % 2 = 0 /\ sym' >= 5
    BY <1>1, <1>5 DEF Due
  <2>2. CASE active = {"MIMO"}
    BY <1>2, <1>r, <2>1, <2>2, ModeNow, SlotMimo DEF JobInv
  <2>3. CASE active = {"STBC"}
    <3>1. /\ vht = FALSE /\ fec = FALSE /\ JobRuns /\ job.nsym % 2 = 0
          /\ job.dsym = Due - (Due % 2) /\ haveY0 = (Due % 2 = 1)
      BY <2>3, ModeNow
    <3>2. job'.dsym = Due' - (Due' % 2) /\ haveY0' = (Due' % 2 = 1)
      BY <2>1, <3>1
    <3> QED
      BY <1>2, <1>r, <2>1, <2>3, <3>1, <3>2, SlotStbc DEF JobInv
  <2> QED
    BY <1>5, <2>2, <2>3
<1>6. CASE active = {"VHT_PENDING"} /\ sym \in {5, 6}
  <2>1. sym' >= 5 /\ sym' <= 7
    BY <1>1, <1>6
  <2> QED
    BY <1>2, <1>6, <2>1, ModeNow, SlotPending DEF JobInv
<1> QED
  BY <1>3, <1>4, <1>5, <1>6

LEMMA HtLtfKeepsJob ==
    ASSUME JobInv, UNCHANGED fftLen, HtLtf
    PROVE  JobInv'
<1>1. /\ active = {"HT"} /\ PassOn /\ sym = 6
      /\ channel' = [channel EXCEPT !["HT"] = frame]
      /\ UNCHANGED <<active, vht, fec, vhtMcs, job, haveY0, filled, ltfSeen>>
  BY DEF HtLtf, Only, modeVars
<1>2. /\ channel' \in [{"LLTF", "HT", "MIMO", "STBC"} -> Nat]
      /\ ltfSeen' \in [{"MIMO", "STBC"} -> Nat]
  BY <1>1 DEF JobInv, EqTypes
<1> QED
  BY <1>1, <1>2, IdleKeepsJob

LEMMA TwoLtfKeepsJob ==
    ASSUME JobInv, UNCHANGED fftLen, NEW mode \in {"MIMO", "STBC"}, TwoLtf(mode)
    PROVE  JobInv'
<1>1. /\ active = {mode} /\ PassOn /\ sym \in {6, 7}
      /\ ltfSeen' = [ltfSeen EXCEPT ![mode] = @ + 1]
      /\ channel' = [channel EXCEPT ![mode] = frame] \/ channel' = channel
      /\ UNCHANGED <<active, vht, fec, vhtMcs, job, haveY0, filled>>
  BY DEF TwoLtf, Only
<1>2. /\ channel' \in [{"LLTF", "HT", "MIMO", "STBC"} -> Nat]
      /\ ltfSeen' \in [{"MIMO", "STBC"} -> Nat]
  BY <1>1 DEF JobInv, EqTypes
<1> QED
  BY <1>1, <1>2, IdleKeepsJob

LEMMA OnlyPassOnKeepsJob ==
    ASSUME JobInv, UNCHANGED fftLen, OnlyPassOn
    PROVE  JobInv'
<1>1. /\ PassOn /\ UNCHANGED channel
      /\ UNCHANGED <<active, vht, fec, vhtMcs, job, haveY0, filled, ltfSeen>>
      /\ \/ sym \in {3, 5} \/ (sym > 5 /\ active = {})
         \/ active = {"VHT_PENDING"} /\ sym = 6
  BY DEF OnlyPassOn, modeVars
<1>2. /\ channel' \in [{"LLTF", "HT", "MIMO", "STBC"} -> Nat]
      /\ ltfSeen' \in [{"MIMO", "STBC"} -> Nat]
      /\ active \in {{}, {"HT"}, {"MIMO"}, {"STBC"}, {"VHT_PENDING"}}
  BY <1>1 DEF JobInv, EqTypes
<1>3. sym = 3 => active = {}
  BY Quiet
<1>4. sym # 4
  BY <1>1
<1> QED
  BY <1>1, <1>2, <1>3, <1>4, IdleKeepsJob

LEMMA NewFrameKeepsJob ==
    ASSUME JobInv, UNCHANGED fftLen, NewFrame
    PROVE  JobInv'
<1>1. /\ frame' = frame + 1 /\ sym' = 1 /\ frameSymbols' = 0 /\ ltf1' = frame'
      /\ active' = {} /\ vht' = FALSE /\ fec' = FALSE /\ haveY0' = FALSE
      /\ ltfSeen' = [ltfSeen EXCEPT !["STBC"] = 0]
      /\ UNCHANGED <<vhtMcs, job, channel>>
  BY DEF NewFrame
<1>2. /\ sym' \in Nat /\ frame' \in Nat /\ frameSymbols' \in Nat /\ ltf1' \in Nat
      /\ ltfSeen' \in [{"MIMO", "STBC"} -> Nat]
  BY <1>1, TypesNow
<1>3. EqTypes'
  BY <1>1, <1>2, TypesNow, TypesNext
<1> QED
  BY <1>1, <1>3, SlotNone DEF JobInv

LEMMA SkipKeepsJob ==
    ASSUME JobInv, UNCHANGED fftLen,
           UNCHANGED <<frame, sym, frameSymbols, modeVars>>,
           ltf1' \in Nat, channel' \in [{"LLTF", "HT", "MIMO", "STBC"} -> Nat]
    PROVE  JobInv'
<1>1. EqTypes'
  BY DEF modeVars, JobInv, EqTypes
<1>2. Due' = Due /\ DataStart' = DataStart
  BY DEF modeVars, Due, DataStart
<1>3. SlotInv'
  BY <1>2 DEF modeVars, JobInv, SlotInv, Storing
<1> QED
  BY <1>1, <1>3 DEF JobInv

(* The symbols before any decode. *)
LEMMA HeaderKeepsJob ==
    ASSUME JobInv, UNCHANGED fftLen, sym \in {1, 2}, sym' = sym + 1,
           UNCHANGED <<frame, ltf1, modeVars>>, frameSymbols' \in Nat,
           channel' \in [{"LLTF", "HT", "MIMO", "STBC"} -> Nat]
    PROVE  JobInv'
<1>1. /\ active' = active /\ vht' = vht /\ fec' = fec /\ vhtMcs' = vhtMcs
      /\ job' = job /\ ltfSeen' = ltfSeen /\ haveY0' = haveY0
  BY DEF modeVars
<1>2. /\ sym' \in Nat /\ frame' \in Nat /\ ltf1' \in Nat
  <2>1. sym \in Nat /\ frame \in Nat /\ ltf1 \in Nat
    BY TypesNow, Zenon
  <2> QED
    BY <2>1
<1>3. EqTypes'
  <2>1. /\ active' \in {{}, {"HT"}, {"MIMO"}, {"STBC"}, {"VHT_PENDING"}}
        /\ vht' \in BOOLEAN /\ fec' \in BOOLEAN /\ haveY0' \in BOOLEAN
        /\ vhtMcs' \in 0 .. 7 /\ job' \in Job
        /\ ltfSeen' \in [{"MIMO", "STBC"} -> Nat]
    BY <1>1, TypesNow, Zenon
  <2> QED
    BY <1>2, <2>1, TypesNext, Zenon
<1>4. active = {} /\ vht = FALSE /\ fec = FALSE
  <2>1. sym < 5
    OBVIOUS
  <2> QED
    BY <2>1, Quiet, Zenon
<1> QED
  BY <1>1, <1>3, <1>4, SlotNone DEF JobInv

Step == EqWork \/ SetAlgorithm

LEMMA JobKeeps == JobInv /\ Step => JobInv'
<1> SUFFICES ASSUME JobInv, Step PROVE JobInv'
  OBVIOUS
<1>0. /\ channel \in [{"LLTF", "HT", "MIMO", "STBC"} -> Nat] /\ ltf1 \in Nat
      /\ frameSymbols \in Nat
  BY DEF JobInv, EqTypes
<1>f. UNCHANGED fftLen
  BY DEF Step, EqWork, SetAlgorithm
<1>1. ASSUME SetAlgorithm PROVE JobInv'
  <2>1. /\ ltf1' = 0 /\ channel' = [channel EXCEPT !["LLTF"] = 0]
        /\ UNCHANGED <<frame, sym, frameSymbols, modeVars>>
    BY <1>1 DEF SetAlgorithm
  <2>2. channel' \in [{"LLTF", "HT", "MIMO", "STBC"} -> Nat] /\ ltf1' \in Nat
    BY <1>0, <2>1
  <2> QED
    BY <1>f, <2>1, <2>2, SkipKeepsJob
<1>2. ASSUME Skip PROVE JobInv'
  <2>1. UNCHANGED <<frame, sym, frameSymbols, ltf1, channel, modeVars>>
    BY <1>2 DEF Skip
  <2> QED
    BY <1>0, <1>f, <2>1, SkipKeepsJob
<1>3. ASSUME SecondLtf PROVE JobInv'
  <2>1. /\ sym = 1 /\ sym' = 2 /\ channel' = [channel EXCEPT !["LLTF"] = ltf1]
        /\ UNCHANGED <<frame, frameSymbols, ltf1, modeVars>>
    BY <1>3 DEF SecondLtf
  <2>2. channel' \in [{"LLTF", "HT", "MIMO", "STBC"} -> Nat]
    BY <1>0, <2>1
  <2> QED
    BY <1>0, <1>f, <2>1, <2>2, HeaderKeepsJob
<1>4. ASSUME SignalFailed PROVE JobInv'
  <2>1. sym = 2 /\ sym' = 3 /\ UNCHANGED <<frame, frameSymbols, ltf1, channel, modeVars>>
    BY <1>4 DEF SignalFailed
  <2> QED
    BY <1>0, <1>f, <2>1, HeaderKeepsJob
<1>5. ASSUME NEW l \in LSigs, SignalParsed(l) PROVE JobInv'
  <2>1. /\ sym = 2 /\ sym' = 3 /\ UNCHANGED <<frame, ltf1, channel, modeVars>>
        /\ frameSymbols' = NSym(l.bytes, LegacyOfdm(l.encoding).dbps)
    BY <1>5 DEF SignalParsed
  <2>2. l.encoding \in 0 .. 7 /\ l.bytes \in Nat
    BY Inputs
  <2>3. frameSymbols' \in Nat
    BY <2>1, <2>2, LegacyOfdmType, NSymPositive
  <2> QED
    BY <1>0, <1>f, <2>1, <2>3, HeaderKeepsJob
<1>6. ASSUME Sniff PROVE UNCHANGED ltf1
  BY <1>6 DEF Sniff, PassOn
<1>7. ASSUME NEW h \in HtSigs,
             SniffHt(h) \/ SniffLdpc(h) \/ SniffMimo(h) \/ SniffStbc(h)
      PROVE  JobInv'
  <2>1. SniffHt(h) => Sniff
    BY DEF SniffHt
  <2>2. SniffLdpc(h) => Sniff
    BY DEF SniffLdpc
  <2>3. SniffMimo(h) => Sniff
    BY DEF SniffMimo
  <2>4. SniffStbc(h) => Sniff
    BY DEF SniffStbc
  <2> QED
    BY <1>f, <1>6, <1>7, <2>1, <2>2, <2>3, <2>4,
       SniffHtKeeps, SniffLdpcKeeps, SniffMimoKeeps, SniffStbcKeeps
<1>8. ASSUME NEW v \in VhtSigs, SniffVht(v) PROVE JobInv'
  <2>1. Sniff
    BY <1>8 DEF SniffVht
  <2> QED
    BY <1>f, <1>6, <1>8, <2>1, SniffVhtKeeps
<1>9. ASSUME SniffNothing PROVE JobInv'
  <2>1. Sniff
    BY <1>9 DEF SniffNothing
  <2> QED
    BY <1>f, <1>6, <1>9, <2>1, SniffNothingKeeps
<1> QED
  BY <1>f, <1>1, <1>2, <1>3, <1>4, <1>5, <1>7, <1>8, <1>9,
     NewFrameKeepsJob, HtLtfKeepsJob, HtDataKeepsJob, MimoDataKeepsJob, StbcFirstKeepsJob,
     StbcSecondKeepsJob, TwoLtfKeepsJob, VhtSigBKeepsJob, OnlyPassOnKeepsJob
     DEF Step, EqWork

-----------------------------------------------------------------------------
(* What a symbol after the L-SIG does to the decodes and to the channel     *)
(* estimates.                                                               *)
SymbolStep ==
    \/ \E h \in HtSigs : SniffHt(h) \/ SniffLdpc(h) \/ SniffMimo(h) \/ SniffStbc(h)
    \/ \E v \in VhtSigs : SniffVht(v)
    \/ SniffNothing
    \/ HtLtf \/ HtData \/ MimoData \/ StbcFirst \/ StbcSecond
    \/ \E mode \in {"MIMO", "STBC"} : TwoLtf(mode)
    \/ \E apep \in Apeps : VhtSigB(apep)
    \/ OnlyPassOn

DecodeEffect ==
    \/ decodes' = decodes /\ (active = {} /\ sym >= 5 => active' = {})
    \/ active # {} /\ active' = {} /\ \E kind : Finish(kind, 0 .. job.nsym - 1)

TrainingEffect(mode) ==
    \/ sym = 4 /\ ltfSeen'[mode] = 0
    \/ sym = 5 /\ active = {mode} /\ ltfSeen'[mode] = ltfSeen[mode]
    \/ /\ sym \in {6, 7} /\ active = {mode}
       /\ ltfSeen'[mode] = ltfSeen[mode] + 1
       /\ ltfSeen'[mode] = 2 => channel'[mode] = frame
    \/ sym >= 8 /\ active = {mode} /\ channel'[mode] = channel[mode]

ChannelEffect ==
    /\ channel'["LLTF"] = channel["LLTF"]
    /\ active' = {"HT"} /\ ~vht' =>
          \/ sym <= 5
          \/ sym = 6 /\ channel'["HT"] = frame
          \/ active = {"HT"} /\ ~vht /\ sym >= 7 /\ channel'["HT"] = channel["HT"]
    /\ \A mode \in {"MIMO", "STBC"} : active' = {mode} => TrainingEffect(mode)

Effect == PassOn /\ DecodeEffect /\ ChannelEffect

LEMMA SniffEffect ==
    ASSUME JobInv, Sniff,
           \A mode \in {"MIMO", "STBC"} : active' = {mode} => ltfSeen'[mode] = 0
    PROVE  Effect
<1>1. PassOn /\ sym = 4 /\ decodes' = decodes /\ channel' = channel
  BY DEF Sniff
<1>2. ~(sym >= 5) /\ sym <= 5
  BY <1>1
<1>3. DecodeEffect
  BY <1>1, <1>2, Zenon DEF DecodeEffect
<1>4. ChannelEffect
  BY <1>1, <1>2, Zenon DEF ChannelEffect, TrainingEffect
<1> QED
  BY <1>1, <1>3, <1>4 DEF Effect

LEMMA StoreEffect ==
    ASSUME JobInv, PassOn, UNCHANGED channel,
           NEW mode \in {"HT", "MIMO", "STBC"}, active = {mode},
           mode = "HT" => sym >= 7, mode # "HT" => sym >= 8, NEW kind,
           job'.nsym = job.nsym, filled' = 0 .. job'.dsym - 1,
           \/ active' = {mode} /\ UNCHANGED <<vht, fec, decodes>>
           \/ /\ active' = {} /\ vht' = FALSE /\ fec' = FALSE
              /\ job'.dsym = job'.nsym /\ Finish(kind, filled')
    PROVE  Effect
<1>1. channel' = channel /\ active # {}
  OBVIOUS
<1>2. CASE active' = {mode} /\ UNCHANGED <<vht, fec, decodes>>
  <2>1. decodes' = decodes /\ vht' = vht
    BY <1>2
  <2>2. DecodeEffect
    BY <1>1, <2>1, Zenon DEF DecodeEffect
  <2>3. active' = {"HT"} => active = {"HT"} /\ sym >= 7
    BY <1>2, Apart
  <2>4. ASSUME NEW m \in {"MIMO", "STBC"}, active' = {m} PROVE active = {m} /\ sym >= 8
    <3>1. m = mode
      BY <1>2, <2>4
    <3>2. mode # "HT"
      BY <3>1
    <3> QED
      BY <3>1, <3>2
  <2>5. ChannelEffect
    BY <1>1, <2>1, <2>3, <2>4, Zenon DEF ChannelEffect, TrainingEffect
  <2> QED
    BY <2>2, <2>5 DEF Effect
<1>3. CASE /\ active' = {} /\ vht' = FALSE /\ fec' = FALSE
           /\ job'.dsym = job'.nsym /\ Finish(kind, filled')
  <2>1. Finish(kind, 0 .. job.nsym - 1)
    <3>1. filled' = 0 .. job.nsym - 1
      BY <1>3
    <3> QED
      BY <1>3, <3>1, Zenon DEF Finish
  <2>2. DecodeEffect
    BY <1>1, <1>3, <2>1, Zenon DEF DecodeEffect
  <2>3. ChannelEffect
    <3>1. active' # {"HT"} /\ active' # {"MIMO"} /\ active' # {"STBC"}
      BY <1>3, Apart
    <3>2. \A m \in {"MIMO", "STBC"} : active' # {m}
      BY <3>1
    <3> QED
      BY <1>1, <3>1, <3>2, Zenon DEF ChannelEffect
  <2> QED
    BY <2>2, <2>3 DEF Effect
<1> QED
  BY <1>2, <1>3

LEMMA DataEffect ==
    ASSUME JobInv, HtData \/ MimoData \/ StbcSecond
    PROVE  Effect
<1>1. ASSUME HtData PROVE Effect
  <2>1. /\ active = {"HT"} /\ PassOn /\ UNCHANGED channel /\ sym >= DataStart
        /\ \E kind : Store("HT", kind, {job.dsym})
    BY <1>1 DEF HtData, Only
  <2>2. sym >= 7
    BY <2>1, TypesNow DEF DataStart
  <2>3. PICK kind : Store("HT", kind, {job.dsym})
    BY <2>1
  <2>4. "HT" \in {"HT", "MIMO", "STBC"}
    OBVIOUS
  <2>5. /\ job'.nsym = job.nsym /\ filled' = 0 .. job'.dsym - 1
        /\ \/ active' = {"HT"} /\ UNCHANGED <<vht, fec, decodes>>
           \/ /\ active' = {} /\ vht' = FALSE /\ fec' = FALSE
              /\ job'.dsym = job'.nsym /\ Finish(kind, filled')
    BY <2>1, <2>3, <2>4, StoredOne, Zenon
  <2> QED
    BY <2>1, <2>2, <2>4, <2>5, StoreEffect, Zenon
<1>2. ASSUME MimoData PROVE Effect
  <2>1. /\ active = {"MIMO"} /\ PassOn /\ UNCHANGED channel /\ sym >= 8
        /\ Store("MIMO", "MIMO", {sym - 8})
    BY <1>2 DEF MimoData, Only
  <2>2. job.dsym = sym - 8
    BY <2>1, ModeNow, TypesNow DEF Due
  <2>3. Store("MIMO", "MIMO", {job.dsym})
    BY <2>1, <2>2
  <2>4. "MIMO" \in {"HT", "MIMO", "STBC"} /\ "MIMO" # "HT"
    OBVIOUS
  <2>5. /\ job'.nsym = job.nsym /\ filled' = 0 .. job'.dsym - 1
        /\ \/ active' = {"MIMO"} /\ UNCHANGED <<vht, fec, decodes>>
           \/ /\ active' = {} /\ vht' = FALSE /\ fec' = FALSE
              /\ job'.dsym = job'.nsym /\ Finish("MIMO", filled')
    BY <2>1, <2>3, <2>4, StoredOne, Zenon
  <2> QED
    BY <2>1, <2>4, <2>5, StoreEffect, Zenon
<1>3. ASSUME StbcSecond PROVE Effect
  <2>1. /\ active = {"STBC"} /\ PassOn /\ UNCHANGED channel /\ sym >= 8
        /\ Store("STBC", "STBC", {job.dsym, job.dsym + 1})
    BY <1>3 DEF StbcSecond, Only
  <2>2. job.dsym = Due - (Due % 2) /\ Due \in Nat /\ job.nsym % 2 = 0
    BY <2>1, ModeNow, TypesNow DEF Due
  <2>3. /\ {job.dsym, job.dsym + 1} = job.dsym .. job.dsym + 2 - 1
        /\ job.dsym % 2 = 0 /\ job.nsym % 2 = 0
    BY <2>2
  <2>4. "STBC" \in {"HT", "MIMO", "STBC"} /\ "STBC" # "HT" /\ 2 \in {1, 2}
    OBVIOUS
  <2>5. /\ job'.nsym = job.nsym /\ filled' = 0 .. job'.dsym - 1
        /\ \/ active' = {"STBC"} /\ UNCHANGED <<vht, fec, decodes>>
           \/ /\ active' = {} /\ vht' = FALSE /\ fec' = FALSE
              /\ job'.dsym = job'.nsym /\ Finish("STBC", filled')
    BY <2>1, <2>3, <2>4, Stored, Zenon
  <2> QED
    BY <2>1, <2>4, <2>5, StoreEffect, Zenon
<1> QED
  BY <1>1, <1>2, <1>3

(* Symbols that neither begin nor end a decode. *)
LEMMA TrainEffect ==
    ASSUME JobInv, PassOn, sym # 4, active' = active, vht' = vht, decodes' = decodes,
           channel'["LLTF"] = channel["LLTF"],
           active = {"HT"} => sym = 5 \/ (sym = 6 /\ channel'["HT"] = frame),
           \A mode \in {"MIMO", "STBC"} : active = {mode} => TrainingEffect(mode)
    PROVE  Effect
<1>1. DecodeEffect
  BY Zenon DEF DecodeEffect
<1>2. ChannelEffect
  <2>1. active' = {"HT"} => sym <= 5 \/ (sym = 6 /\ channel'["HT"] = frame)
    <3>1. sym = 5 => sym <= 5
      OBVIOUS
    <3> QED
      BY <3>1, Zenon
  <2> QED
    BY <2>1, Zenon DEF ChannelEffect
<1> QED
  BY <1>1, <1>2 DEF Effect

LEMMA OtherEffect ==
    ASSUME JobInv,
           \/ HtLtf \/ StbcFirst \/ OnlyPassOn
           \/ \E mode \in {"MIMO", "STBC"} : TwoLtf(mode)
           \/ \E apep \in Apeps : VhtSigB(apep)
    PROVE  Effect
<1>t. channel \in [{"LLTF", "HT", "MIMO", "STBC"} -> Nat]
      /\ ltfSeen \in [{"MIMO", "STBC"} -> Nat] /\ sym \in Nat
      /\ active \in {{}, {"HT"}, {"MIMO"}, {"STBC"}, {"VHT_PENDING"}}
  BY TypesNow
<1>1. ASSUME HtLtf PROVE Effect
  <2>1. /\ active = {"HT"} /\ PassOn /\ sym = 6
        /\ channel' = [channel EXCEPT !["HT"] = frame]
        /\ active' = active /\ vht' = vht /\ decodes' = decodes
    BY <1>1 DEF HtLtf, Only, modeVars
  <2>2. channel'["LLTF"] = channel["LLTF"] /\ channel'["HT"] = frame /\ sym # 4
    BY <1>t, <2>1
  <2>3. \A mode \in {"MIMO", "STBC"} : active # {mode}
    BY <2>1
  <2> QED
    BY <2>1, <2>2, <2>3, TrainEffect, Zenon
<1>2. ASSUME StbcFirst PROVE Effect
  <2>1. /\ active = {"STBC"} /\ PassOn /\ sym >= 8
        /\ channel' = channel /\ active' = active /\ vht' = vht /\ decodes' = decodes
    BY <1>2 DEF StbcFirst, Only
  <2>2. active # {"HT"} /\ sym # 4
    BY <1>t, <2>1, Apart
  <2>3. \A mode \in {"MIMO", "STBC"} : active = {mode} => TrainingEffect(mode)
    BY <2>1, Zenon DEF TrainingEffect
  <2> QED
    BY <2>1, <2>2, <2>3, TrainEffect, Zenon
<1>3. ASSUME OnlyPassOn PROVE Effect
  <2>1. /\ PassOn /\ channel' = channel /\ ltfSeen' = ltfSeen
        /\ active' = active /\ vht' = vht /\ decodes' = decodes
        /\ \/ sym \in {3, 5}
           \/ sym > 5 /\ active = {}
           \/ active = {"VHT_PENDING"} /\ sym = 6
    BY <1>3 DEF OnlyPassOn, modeVars
  <2>2. sym # 4 /\ (active # {} /\ active # {"VHT_PENDING"} => sym = 5)
    <3>1. sym = 3 => active = {}
      BY Quiet
    <3>2. sym # 4
      BY <2>1
    <3>3. sym \in {3, 5} => sym = 3 \/ sym = 5
      OBVIOUS
    <3> QED
      BY <2>1, <3>1, <3>2, <3>3, Zenon
  <2>3. active = {"HT"} => sym = 5
    BY <2>2, Apart, Zenon
  <2>4. ASSUME NEW mode \in {"MIMO", "STBC"}, active = {mode} PROVE TrainingEffect(mode)
    <3>1. active # {} /\ active # {"VHT_PENDING"}
      BY <2>4
    <3>2. sym = 5 /\ ltfSeen'[mode] = ltfSeen[mode]
      BY <2>1, <2>2, <3>1, Zenon
    <3> QED
      BY <2>4, <3>2 DEF TrainingEffect
  <2> QED
    BY <2>1, <2>2, <2>3, <2>4, TrainEffect, Zenon
<1>4. ASSUME NEW mode \in {"MIMO", "STBC"}, TwoLtf(mode) PROVE Effect
  <2>1. /\ active = {mode} /\ PassOn /\ sym \in {6, 7}
        /\ ltfSeen' = [ltfSeen EXCEPT ![mode] = ltfSeen[mode] + 1]
        /\ channel' = IF ltfSeen'[mode] = 2 THEN [channel EXCEPT ![mode] = frame] ELSE channel
        /\ active' = active /\ vht' = vht /\ decodes' = decodes
    BY <1>4 DEF TwoLtf, Only
  <2>2. /\ channel'["LLTF"] = channel["LLTF"] /\ sym # 4
        /\ ltfSeen'[mode] = ltfSeen[mode] + 1
        /\ ltfSeen'[mode] = 2 => channel'[mode] = frame
    BY <1>t, <2>1
  <2>3. active # {"HT"} /\ \A m \in {"MIMO", "STBC"} : active = {m} => m = mode
    BY <2>1
  <2>4. TrainingEffect(mode)
    BY <2>1, <2>2, Zenon DEF TrainingEffect
  <2> QED
    BY <2>1, <2>2, <2>3, <2>4, TrainEffect, Zenon
<1>5. ASSUME NEW apep \in Apeps, VhtSigB(apep) PROVE Effect
  <2>1. /\ active = {"VHT_PENDING"} /\ PassOn
        /\ channel' = channel /\ decodes' = decodes
        /\ \/ active' = {"HT"} /\ vht' = TRUE
           \/ active' = {}
    BY <1>5 DEF VhtSigB, Only
  <2>2. active # {}
    BY <2>1
  <2>3. DecodeEffect
    BY <2>1, <2>2, Zenon DEF DecodeEffect
  <2>4. /\ active' # {"MIMO"} /\ active' # {"STBC"}
        /\ active' = {"HT"} => vht' = TRUE
    BY <2>1, Apart
  <2>5. \A mode \in {"MIMO", "STBC"} : active' # {mode}
    BY <2>4
  <2>6. ChannelEffect
    BY <2>1, <2>4, <2>5, Zenon DEF ChannelEffect
  <2> QED
    BY <2>1, <2>3, <2>6 DEF Effect
<1> QED
  BY <1>1, <1>2, <1>3, <1>4, <1>5

LEMMA SymbolEffect ==
    ASSUME JobInv, SymbolStep
    PROVE  Effect
<1>1. ASSUME NEW h \in HtSigs, SniffHt(h) \/ SniffLdpc(h) PROVE Effect
  <2>1. Sniff /\ \E mcs, bw, nsym : Begin("HT", mcs, bw, h.len, nsym)
    BY <1>1 DEF SniffHt, SniffLdpc
  <2>2. active' = {"HT"}
    BY <2>1, Sniffed DEF Begin
  <2>3. \A mode \in {"MIMO", "STBC"} : active' # {mode}
    BY <2>2
  <2> QED
    BY <2>1, <2>3, SniffEffect, Zenon
<1>2. ASSUME NEW h \in HtSigs, NEW m \in {"MIMO", "STBC"},
             (SniffMimo(h) /\ m = "MIMO") \/ (SniffStbc(h) /\ m = "STBC")
      PROVE Effect
  <2>1. /\ Sniff /\ (\E mcs, bw, nsym : Begin(m, mcs, bw, h.len, nsym))
        /\ ltfSeen' = [ltfSeen EXCEPT ![m] = 0]
    BY <1>2 DEF SniffMimo, SniffStbc
  <2>2. active' = {m} /\ ltfSeen'[m] = 0
    BY <2>1, Sniffed DEF Begin
  <2>3. \A mode \in {"MIMO", "STBC"} : active' = {mode} => mode = m
    BY <2>2
  <2> QED
    BY <2>1, <2>2, <2>3, SniffEffect, Zenon
<1>3. ASSUME NEW v \in VhtSigs, SniffVht(v) PROVE Effect
  <2>1. Sniff /\ active' = {"VHT_PENDING"}
    BY <1>3, Sniffed DEF SniffVht
  <2>2. \A mode \in {"MIMO", "STBC"} : active' # {mode}
    BY <2>1
  <2> QED
    BY <2>1, <2>2, SniffEffect, Zenon
<1>4. ASSUME SniffNothing PROVE Effect
  <2>1. Sniff /\ active' = {}
    BY <1>4, Sniffed DEF SniffNothing
  <2>2. \A mode \in {"MIMO", "STBC"} : active' # {mode}
    BY <2>1
  <2> QED
    BY <2>1, <2>2, SniffEffect, Zenon
<1> QED
  BY <1>1, <1>2, <1>3, <1>4, DataEffect, OtherEffect DEF SymbolStep

-----------------------------------------------------------------------------
(* The whole invariant. *)
LEMMA StepCases ==
    ASSUME Step
    PROVE  \/ SymbolStep
           \/ NewFrame
           \/ Skip \/ SetAlgorithm
           \/ SecondLtf \/ SignalFailed
           \/ \E l \in LSigs : SignalParsed(l)
  BY DEF Step, EqWork, SymbolStep

LEMMA Raised ==
    ASSUME NEW S \in {{}, {"HT"}, {"MIMO"}, {"STBC"}, {"VHT_PENDING"}}
    PROVE  /\ "HT" \in S <=> S = {"HT"}
           /\ "MIMO" \in S <=> S = {"MIMO"}
           /\ "STBC" \in S <=> S = {"STBC"}
           /\ \A mode \in {"MIMO", "STBC"} : mode \in S <=> S = {mode}
<1>1. S = {} \/ S = {"HT"} \/ S = {"MIMO"} \/ S = {"STBC"} \/ S = {"VHT_PENDING"}
  OBVIOUS
<1> QED
  BY <1>1

(* ChannelInv with the one mode that may be raised. *)
OneChannel ==
    /\ ltf1 \in {0, frame}
    /\ \A mode \in {"MIMO", "STBC"} : active = {mode} =>
          /\ sym \in {5, 6} => ltfSeen[mode] = 0
          /\ sym = 7 => ltfSeen[mode] = 1
          /\ sym >= 8 => channel[mode] = frame
    /\ (active = {"HT"} /\ ~vht /\ sym >= 7) => channel["HT"] = frame
    /\ sym >= 2 => channel["LLTF"] \in {0, frame}

LEMMA OneChannelIs ==
    /\ EqTypes => (ChannelInv <=> OneChannel)
    /\ EqTypes' => (ChannelInv' <=> OneChannel')
<1>1. EqTypes => (ChannelInv <=> OneChannel)
  <2> SUFFICES ASSUME EqTypes PROVE ChannelInv <=> OneChannel
    OBVIOUS
  <2>1. active \in {{}, {"HT"}, {"MIMO"}, {"STBC"}, {"VHT_PENDING"}}
    BY Zenon DEF EqTypes
  <2>2. ("HT" \in active <=> active = {"HT"})
        /\ \A mode \in {"MIMO", "STBC"} : mode \in active <=> active = {mode}
    BY <2>1, Raised, Zenon
  <2> QED
    BY <2>2, Zenon DEF ChannelInv, OneChannel, OwnChannel
<1>2. EqTypes' => (ChannelInv' <=> OneChannel')
  <2> SUFFICES ASSUME EqTypes' PROVE ChannelInv' <=> OneChannel'
    OBVIOUS
  <2>1. active' \in {{}, {"HT"}, {"MIMO"}, {"STBC"}, {"VHT_PENDING"}}
    BY Zenon DEF EqTypes
  <2>2. ("HT" \in active' <=> active' = {"HT"})
        /\ \A mode \in {"MIMO", "STBC"} : mode \in active' <=> active' = {mode}
    BY <2>1, Raised, Zenon
  <2> QED
    BY <2>2, Zenon DEF ChannelInv, OneChannel, OwnChannel
<1> QED
  BY <1>1, <1>2

LEMMA TrainingKeeps ==
    ASSUME OneChannel, sym \in Nat, sym' = sym + 1, frame' = frame,
           NEW mode \in {"MIMO", "STBC"}, active' = {mode}, TrainingEffect(mode)
    PROVE  /\ sym' \in {5, 6} => ltfSeen'[mode] = 0
           /\ sym' = 7 => ltfSeen'[mode] = 1
           /\ sym' >= 8 => channel'[mode] = frame'
<1>1. CASE sym = 4 /\ ltfSeen'[mode] = 0
  BY <1>1
<1>2. CASE sym = 5 /\ active = {mode} /\ ltfSeen'[mode] = ltfSeen[mode]
  <2>1. ltfSeen[mode] = 0
    BY <1>2 DEF OneChannel
  <2> QED
    BY <1>2, <2>1
<1>3. CASE /\ sym \in {6, 7} /\ active = {mode}
           /\ ltfSeen'[mode] = ltfSeen[mode] + 1
           /\ ltfSeen'[mode] = 2 => channel'[mode] = frame
  <2>1. (sym = 6 => ltfSeen[mode] = 0) /\ (sym = 7 => ltfSeen[mode] = 1)
    BY <1>3 DEF OneChannel
  <2> QED
    BY <1>3, <2>1
<1>4. CASE sym >= 8 /\ active = {mode} /\ channel'[mode] = channel[mode]
  <2>1. channel[mode] = frame
    BY <1>4 DEF OneChannel
  <2> QED
    BY <1>4, <2>1
<1> QED
  BY <1>1, <1>2, <1>3, <1>4 DEF TrainingEffect

LEMMA ChannelKeeps ==
    ASSUME JobInv, JobInv', ChannelInv, Step
    PROVE  ChannelInv'
<1>0. OneChannel
  BY OneChannelIs DEF JobInv
<1>t. /\ sym \in Nat /\ frame \in Nat
      /\ channel \in [{"LLTF", "HT", "MIMO", "STBC"} -> Nat]
  BY TypesNow
<1>m. \A mode \in {"MIMO", "STBC"} : mode = "MIMO" \/ mode = "STBC"
  OBVIOUS
<1>1. ASSUME SymbolStep PROVE OneChannel'
  <2>1. PassOn /\ ChannelEffect
    BY <1>1, SymbolEffect DEF Effect
  <2>2. sym > 2 /\ sym' = sym + 1 /\ frame' = frame /\ ltf1' = ltf1
    BY <2>1 DEF PassOn
  <2>3. ltf1' \in {0, frame'}
    BY <1>0, <2>2, Zenon DEF OneChannel
  <2>4. ASSUME NEW mode \in {"MIMO", "STBC"}, active' = {mode}
        PROVE  /\ sym' \in {5, 6} => ltfSeen'[mode] = 0
               /\ sym' = 7 => ltfSeen'[mode] = 1
               /\ sym' >= 8 => channel'[mode] = frame'
    <3>1. TrainingEffect(mode)
      BY <2>1, <2>4, Zenon DEF ChannelEffect
    <3> QED
      BY <1>0, <1>t, <2>2, <2>4, <3>1, TrainingKeeps, Zenon
  <2>5. (active' = {"HT"} /\ ~vht' /\ sym' >= 7) => channel'["HT"] = frame'
    <3> SUFFICES ASSUME active' = {"HT"}, ~vht', sym' >= 7 PROVE channel'["HT"] = frame'
      BY Zenon
    <3>1. \/ sym <= 5
          \/ sym = 6 /\ channel'["HT"] = frame
          \/ active = {"HT"} /\ ~vht /\ sym >= 7 /\ channel'["HT"] = channel["HT"]
      BY <2>1, Zenon DEF ChannelEffect
    <3>2. ~(sym <= 5)
      BY <1>t, <2>2
    <3> QED
      BY <1>0, <2>2, <3>1, <3>2, Zenon DEF OneChannel
  <2>6. channel'["LLTF"] \in {0, frame'}
    <3>1. channel["LLTF"] \in {0, frame}
      <4>1. sym >= 2
        BY <1>t, <2>2
      <4> QED
        BY <1>0, <4>1, Zenon DEF OneChannel
    <3>2. channel'["LLTF"] = channel["LLTF"]
      BY <2>1, Zenon DEF ChannelEffect
    <3> QED
      BY <2>2, <3>1, <3>2, Zenon
  <2> QED
    BY <2>3, <2>4, <2>5, <2>6, Zenon DEF OneChannel
<1>2. ASSUME active' = {}, ltf1' \in {0, frame'},
             sym' >= 2 => channel'["LLTF"] \in {0, frame'}
      PROVE  OneChannel'
  <2>1. active' # {"HT"} /\ active' # {"MIMO"} /\ active' # {"STBC"}
    BY <1>2, Apart
  <2>2. \A mode \in {"MIMO", "STBC"} : active' # {mode}
    BY <1>m, <2>1, Zenon
  <2> QED
    BY <1>2, <2>1, <2>2, Zenon DEF OneChannel
<1>3. ASSUME NewFrame PROVE OneChannel'
  <2>1. /\ active' = {} /\ ltf1' = frame' /\ sym' = 1
    BY <1>3 DEF NewFrame
  <2>2. ~(sym' >= 2)
    BY <2>1
  <2> QED
    BY <1>2, <2>1, <2>2, Zenon
<1>4. ASSUME \/ SecondLtf \/ SignalFailed \/ \E l \in LSigs : SignalParsed(l)
      PROVE  OneChannel'
  <2>1. /\ sym \in {1, 2} /\ frame' = frame /\ ltf1' = ltf1 /\ active' = active
        /\ \/ sym = 1 /\ channel' = [channel EXCEPT !["LLTF"] = ltf1]
           \/ sym = 2 /\ channel' = channel
    BY <1>4 DEF SecondLtf, SignalFailed, SignalParsed, modeVars
  <2>2. active = {}
    <3>1. sym < 5
      BY <2>1
    <3> QED
      BY <3>1, Quiet, Zenon
  <2>3. ltf1 \in {0, frame} /\ (sym >= 2 => channel["LLTF"] \in {0, frame})
    BY <1>0, Zenon DEF OneChannel
  <2>4. channel'["LLTF"] \in {0, frame'}
    BY <1>t, <2>1, <2>3
  <2> QED
    BY <1>2, <2>1, <2>2, <2>3, <2>4, Zenon
<1>5. ASSUME Skip PROVE OneChannel'
  <2>1. /\ frame' = frame /\ sym' = sym /\ ltf1' = ltf1 /\ channel' = channel
        /\ active' = active /\ vht' = vht /\ ltfSeen' = ltfSeen
    BY <1>5 DEF Skip, modeVars
  <2> QED
    BY <1>0, <2>1, Zenon DEF OneChannel
<1>6. ASSUME SetAlgorithm PROVE OneChannel'
  <2>1. /\ frame' = frame /\ sym' = sym /\ ltf1' = 0
        /\ channel' = [channel EXCEPT !["LLTF"] = 0]
        /\ active' = active /\ vht' = vht /\ ltfSeen' = ltfSeen
    BY <1>6 DEF SetAlgorithm, modeVars
  <2>2. /\ channel'["LLTF"] = 0 /\ channel'["HT"] = channel["HT"]
        /\ \A mode \in {"MIMO", "STBC"} : channel'[mode] = channel[mode]
    BY <1>t, <2>1
  <2>3. 0 \in {0, frame'}
    OBVIOUS
  <2> QED
    BY <1>0, <2>1, <2>2, <2>3, Zenon DEF OneChannel
<1>7. OneChannel'
  BY <1>1, <1>3, <1>4, <1>5, <1>6, StepCases
<1> QED
  BY <1>7, OneChannelIs DEF JobInv

LEMMA Appended ==
    ASSUME NEW S, NEW s \in Seq(S), NEW x
    PROVE  /\ Append(s, x) \in Seq(S \cup {x})
           /\ Len(s) \in Nat /\ DOMAIN s = 1 .. Len(s)
           /\ DOMAIN Append(s, x) = 1 .. Len(s) + 1
           /\ \A k \in 1 .. Len(s) : Append(s, x)[k] = s[k]
           /\ Append(s, x)[Len(s) + 1] = x
<1> DEFINE T == S \cup {x}
<1>1. s \in Seq(T)
  <2>1. PICK n \in Nat : s \in [1 .. n -> S]
    BY SeqDef
  <2>2. s \in [1 .. n -> T]
    BY <2>1
  <2> HIDE DEF T
  <2> QED
    BY <2>2, SeqDef
<1>2. x \in T
  OBVIOUS
<1> HIDE DEF T
<1>3. /\ Append(s, x) \in Seq(T) /\ Len(Append(s, x)) = Len(s) + 1
      /\ \A k \in 1 .. Len(s) : Append(s, x)[k] = s[k]
      /\ Append(s, x)[Len(s) + 1] = x
  BY <1>1, <1>2, AppendProperties
<1>4. Len(s) \in Nat /\ DOMAIN s = 1 .. Len(s)
  BY LenProperties
<1>5. DOMAIN Append(s, x) = 1 .. Len(s) + 1
  BY <1>3, LenProperties
<1> QED
  BY <1>3, <1>4, <1>5 DEF T

LEMMA DecodesKept ==
    ASSUME DecodesInv, decodes' = decodes, frame \in Nat, sym' \in Nat,
           \/ frame' = frame /\ (active = {} /\ sym >= 5 => active' = {} /\ sym' >= 5)
           \/ frame' = frame + 1
    PROVE  DecodesInv'
<1>1. ASSUME NEW k \in DOMAIN decodes
      PROVE  /\ decodes[k].frame \in Nat /\ decodes[k].frame <= frame'
             /\ decodes[k].frame = frame' => active' = {} /\ sym' >= 5
  <2>1. /\ decodes[k].frame \in Nat /\ decodes[k].frame <= frame
        /\ decodes[k].frame = frame => active = {} /\ sym >= 5
    BY DEF DecodesInv
  <2>2. CASE frame' = frame /\ (active = {} /\ sym >= 5 => active' = {} /\ sym' >= 5)
    BY <2>1, <2>2
  <2>3. CASE frame' = frame + 1
    BY <2>1, <2>3
  <2> QED
    BY <2>2, <2>3
<1>2. WholeFramesDecoded' /\ \E S : decodes' \in Seq(S)
  BY DEF DecodesInv, WholeFramesDecoded
<1> QED
  BY <1>1, <1>2, Zenon DEF DecodesInv

LEMMA DecodeAdded ==
    ASSUME JobInv, DecodesInv, active # {}, active' = {}, frame' = frame, sym' >= 5,
           NEW kind, Finish(kind, 0 .. job.nsym - 1)
    PROVE  DecodesInv'
<1>1. frame \in Nat
  BY TypesNow
<1>2. PICK d : /\ decodes' = Append(decodes, d)
               /\ d.frame = frame /\ d.nsym = job.nsym /\ d.read = 0 .. job.nsym - 1
  BY DEF Finish
<1>3. PICK S : decodes \in Seq(S)
  BY DEF DecodesInv
<1> DEFINE n == Len(decodes)
<1>4. /\ decodes' \in Seq(S \cup {d}) /\ n \in Nat
      /\ DOMAIN decodes = 1 .. n /\ DOMAIN decodes' = 1 .. n + 1
      /\ \A k \in 1 .. n : decodes'[k] = decodes[k]
      /\ decodes'[n + 1] = d
  BY <1>2, <1>3, Appended
<1> HIDE DEF n
<1>5. ASSUME NEW k \in 1 .. n
      PROVE  decodes[k].frame \in Nat /\ decodes[k].frame < frame
  <2>1. k \in DOMAIN decodes
    BY <1>4
  <2>2. /\ decodes[k].frame \in Nat /\ decodes[k].frame <= frame
        /\ decodes[k].frame # frame
    BY <2>1, Zenon DEF DecodesInv
  <2> QED
    BY <1>1, <2>2
<1>6. ASSUME NEW k \in 1 .. n + 1
      PROVE  decodes'[k].frame \in Nat /\ decodes'[k].frame <= frame
  <2>1. CASE k = n + 1
    BY <1>1, <1>2, <1>4, <2>1
  <2>2. CASE k # n + 1
    <3>1. k \in 1 .. n
      BY <1>4, <2>2
    <3> QED
      BY <1>1, <1>4, <1>5, <3>1
  <2> QED
    BY <2>1, <2>2
<1>7. ASSUME NEW k \in 1 .. n + 1
      PROVE  decodes'[k].read = 0 .. decodes'[k].nsym - 1
  <2>1. CASE k = n + 1
    BY <1>2, <1>4, <2>1
  <2>2. CASE k # n + 1
    <3>1. k \in 1 .. n
      BY <1>4, <2>2
    <3> QED
      BY <1>4, <3>1 DEF DecodesInv, WholeFramesDecoded
  <2> QED
    BY <2>1, <2>2
<1>8. ASSUME NEW j \in 1 .. n + 1, NEW k \in 1 .. n + 1, j < k
      PROVE  decodes'[j].frame < decodes'[k].frame
  <2>1. j \in 1 .. n
    BY <1>4, <1>8
  <2>2. CASE k = n + 1
    BY <1>2, <1>4, <1>5, <2>1, <2>2
  <2>3. CASE k # n + 1
    <3>1. k \in 1 .. n
      BY <1>4, <2>3
    <3>2. decodes[j].frame < decodes[k].frame
      BY <1>4, <1>8, <2>1, <3>1 DEF DecodesInv, WholeFramesDecoded
    <3> QED
      BY <1>4, <2>1, <3>1, <3>2
  <2> QED
    BY <2>2, <2>3
<1>9. WholeFramesDecoded'
  BY <1>4, <1>7, <1>8 DEF WholeFramesDecoded
<1> QED
  BY <1>4, <1>6, <1>9 DEF DecodesInv

LEMMA DecodesKeep ==
    ASSUME JobInv, JobInv', DecodesInv, Step
    PROVE  DecodesInv'
<1>t. sym \in Nat /\ frame \in Nat /\ sym' \in Nat
  <2>1. sym' \in Nat
    BY Zenon DEF JobInv, EqTypes
  <2> QED
    BY <2>1, TypesNow
<1>1. ASSUME SymbolStep PROVE DecodesInv'
  <2>1. PassOn /\ DecodeEffect
    BY <1>1, SymbolEffect DEF Effect
  <2>2. sym' = sym + 1 /\ frame' = frame
    BY <2>1 DEF PassOn
  <2>3. sym >= 5 => sym' >= 5
    BY <1>t, <2>2
  <2>4. CASE decodes' = decodes /\ (active = {} /\ sym >= 5 => active' = {})
    BY <1>t, <2>2, <2>3, <2>4, DecodesKept, Zenon
  <2>5. CASE active # {} /\ active' = {} /\ \E kind : Finish(kind, 0 .. job.nsym - 1)
    <3>1. sym >= 5
      BY <2>5, ModeNow, Zenon
    <3> QED
      BY <2>2, <2>3, <2>5, <3>1, DecodeAdded, Zenon
  <2> QED
    BY <2>1, <2>4, <2>5, Zenon DEF DecodeEffect
<1>2. ASSUME NewFrame PROVE DecodesInv'
  <2>1. decodes' = decodes /\ frame' = frame + 1
    BY <1>2 DEF NewFrame
  <2> QED
    BY <1>t, <2>1, DecodesKept, Zenon
<1>3. ASSUME Skip \/ SetAlgorithm PROVE DecodesInv'
  <2>1. decodes' = decodes /\ frame' = frame /\ sym' = sym /\ active' = active
    BY <1>3 DEF Skip, SetAlgorithm, modeVars
  <2> QED
    BY <1>t, <2>1, DecodesKept, Zenon
<1>4. ASSUME \/ SecondLtf \/ SignalFailed \/ \E l \in LSigs : SignalParsed(l)
      PROVE  DecodesInv'
  <2>1. sym \in {1, 2} /\ decodes' = decodes /\ frame' = frame
    BY <1>4 DEF SecondLtf, SignalFailed, SignalParsed, modeVars
  <2>2. ~(sym >= 5)
    BY <2>1
  <2> QED
    BY <1>t, <2>1, <2>2, DecodesKept, Zenon
<1> QED
  BY <1>1, <1>2, <1>3, <1>4, StepCases

LEMMA HeadersKeep ==
    ASSUME JobInv, HeadersInv, Step
    PROVE  HeadersInv'
<1>t. sym \in Nat /\ frame \in Nat /\ frameSymbols \in Nat
  BY TypesNow
<1>h. items \in Seq(Item) /\ headers \in Seq(Header)
  BY DEF HeadersInv, SymbolTypeOK
<1> DEFINE n == Len(items)
           m == Len(headers)
<1>n. /\ n \in Nat /\ DOMAIN items = 1 .. n
      /\ m \in Nat /\ DOMAIN headers = 1 .. m /\ (headers # <<>> => m > 0)
  BY <1>h, LenProperties, EmptySeq
<1>1. ASSUME SymbolStep PROVE HeadersInv'
  <2>1. PassOn
    BY <1>1, SymbolEffect DEF Effect
  <2> DEFINE x == [frame |-> frame, sym |-> sym]
  <2>2. /\ frame' = frame /\ frameSymbols' = frameSymbols /\ headers' = headers
        /\ items' = Append(items, x)
        /\ Interesting /\ sym > 2
    BY <2>1 DEF PassOn, Emit
  <2>3. headers # <<>> /\ headers[m].frame = frame
    <3>1. frameSymbols > 0 \/ active # {}
      BY <1>t, <2>2 DEF Interesting
    <3> QED
      BY <3>1, Zenon DEF HeadersInv
  <2>4. /\ items' \in Seq(Item) /\ Len(items') = n + 1 /\ DOMAIN items' = 1 .. n + 1
        /\ \A p \in 1 .. n : items'[p] = items[p]
        /\ items'[n + 1].frame = frame
    <3>1. x \in Item
      BY <1>t DEF Item
    <3>2. items'[n + 1] = x /\ x.frame = frame
      BY <1>h, <2>2, <3>1, AppendProperties
    <3> HIDE DEF x
    <3>3. /\ items' \in Seq(Item) /\ Len(items') = n + 1
          /\ \A p \in 1 .. n : items'[p] = items[p]
      BY <1>h, <2>2, <3>1, AppendProperties
    <3>4. DOMAIN items' = 1 .. n + 1
      BY <3>3, LenProperties
    <3> QED
      BY <3>2, <3>3, <3>4
  <2> HIDE DEF x, n, m
  <2>5. ASSUME NEW k \in DOMAIN headers PROVE headers[k].at \in Nat /\ headers[k].at <= n
    <3>1. k \in 1 .. Len(headers)
      BY <1>h, LenProperties
    <3>2. headers[k] \in Header
      BY <1>h, <3>1, ElementOfSeq
    <3>3. headers[k].at \in Nat
      BY <3>2 DEF Header
    <3>4. headers[k].at <= n
      BY Zenon DEF HeadersInv, n
    <3> QED
      BY <3>3, <3>4
  <2>6. SymbolsOwned'
    <3> SUFFICES ASSUME NEW p \in 1 .. n + 1
                 PROVE  \E k \in DOMAIN headers :
                            /\ headers[k].at < p /\ headers[k].frame = items'[p].frame
                            /\ \A j \in DOMAIN headers : j > k => headers[j].at >= p
      BY <2>2, <2>4 DEF SymbolsOwned
    <3>1. CASE p = n + 1
      <4>1. m \in DOMAIN headers
        BY <1>n, <2>3
      <4>2. headers[m].at < p /\ headers[m].frame = items'[p].frame
        BY <1>n, <2>3, <2>4, <2>5, <3>1, <4>1
      <4>3. \A j \in DOMAIN headers : ~(j > m)
        BY <1>n
      <4> QED
        BY <4>1, <4>2, <4>3
    <3>2. CASE p # n + 1
      <4>1. p \in DOMAIN items /\ items'[p] = items[p]
        BY <1>n, <2>4, <3>2
      <4> QED
        BY <4>1, Zenon DEF HeadersInv, SymbolsOwned
    <3> QED
      BY <3>1, <3>2
  <2>7. \A k \in DOMAIN headers' : headers'[k].at <= Len(items')
    BY <1>n, <2>2, <2>4, <2>5
  <2> QED
    BY <1>h, <2>2, <2>3, <2>4, <2>6, <2>7 DEF HeadersInv, SymbolTypeOK, m
<1>2. ASSUME NEW l \in LSigs, SignalParsed(l) PROVE HeadersInv'
  <2> DEFINE x == [at |-> n, frame |-> frame, encoding |-> l.encoding, bytes |-> l.bytes]
  <2>1. frame' = frame /\ items' = items /\ headers' = Append(headers, x)
    BY <1>2 DEF SignalParsed, Announce
  <2>2. x \in Header /\ x.at = n /\ x.frame = frame
    BY <1>n, <1>t, Inputs DEF Header
  <2> HIDE DEF x, n, m
  <2>3. /\ headers' \in Seq(Header) /\ Len(headers') = m + 1 /\ DOMAIN headers' = 1 .. m + 1
        /\ \A k \in 1 .. m : headers'[k] = headers[k]
        /\ headers'[m + 1] = x
    <3>1. /\ headers' \in Seq(Header) /\ Len(headers') = m + 1
          /\ \A k \in 1 .. m : headers'[k] = headers[k]
          /\ headers'[m + 1] = x
      BY <1>h, <2>1, <2>2, AppendProperties DEF m
    <3> QED
      BY <3>1, LenProperties
  <2>4. ASSUME NEW k \in 1 .. m + 1 PROVE headers'[k].at <= n
    <3>1. CASE k = m + 1
      BY <1>n, <2>2, <2>3, <3>1
    <3>2. CASE k # m + 1
      <4>1. k \in DOMAIN headers
        BY <1>n, <3>2
      <4> QED
        BY <1>n, <2>3, <4>1 DEF HeadersInv, n
    <3> QED
      BY <3>1, <3>2
  <2>5. SymbolsOwned'
    <3> SUFFICES ASSUME NEW p \in DOMAIN items
                 PROVE  \E k \in 1 .. m + 1 :
                            /\ headers'[k].at < p /\ headers'[k].frame = items[p].frame
                            /\ \A j \in 1 .. m + 1 : j > k => headers'[j].at >= p
      BY <2>1, <2>3 DEF SymbolsOwned
    <3>1. PICK k \in DOMAIN headers :
              /\ headers[k].at < p /\ headers[k].frame = items[p].frame
              /\ \A j \in DOMAIN headers : j > k => headers[j].at >= p
      BY Zenon DEF HeadersInv, SymbolsOwned
    <3>2. k \in 1 .. m + 1 /\ headers'[k] = headers[k]
      BY <1>n, <2>3
    <3>3. ASSUME NEW j \in 1 .. m + 1, j > k PROVE headers'[j].at >= p
      <4>1. CASE j = m + 1
        BY <1>n, <2>2, <2>3, <4>1
      <4>2. CASE j # m + 1
        <5>1. j \in DOMAIN headers /\ headers'[j] = headers[j]
          BY <1>n, <2>3, <4>2
        <5> QED
          BY <3>1, <3>3, <5>1
      <4> QED
        BY <4>1, <4>2
    <3> QED
      BY <3>1, <3>2, <3>3
  <2>6. headers' # <<>> /\ headers'[Len(headers')].frame = frame'
    BY <1>n, <2>1, <2>2, <2>3, EmptySeq
  <2> QED
    BY <1>h, <2>1, <2>3, <2>4, <2>5, <2>6 DEF HeadersInv, SymbolTypeOK, n
<1>3. ASSUME items' = items, headers' = headers,
             \/ frameSymbols' = 0 /\ active' = {}
             \/ frame' = frame /\ frameSymbols' = frameSymbols /\ active' = active
      PROVE  HeadersInv'
  <2>1. (frameSymbols' > 0 \/ active' # {}) =>
            headers # <<>> /\ headers[Len(headers)].frame = frame'
    <3>1. frameSymbols' = 0 => ~(frameSymbols' > 0)
      OBVIOUS
    <3> QED
      BY <1>3, <3>1, Zenon DEF HeadersInv
  <2> QED
    BY <1>3, <2>1 DEF HeadersInv, SymbolTypeOK, SymbolsOwned
<1>4. ASSUME NewFrame PROVE HeadersInv'
  BY <1>3, <1>4 DEF NewFrame, symbolVars
<1>5. ASSUME Skip \/ SetAlgorithm \/ SecondLtf \/ SignalFailed PROVE HeadersInv'
  BY <1>3, <1>5 DEF Skip, SetAlgorithm, SecondLtf, SignalFailed, modeVars, symbolVars
<1> QED
  BY <1>1, <1>2, <1>4, <1>5, StepCases

-----------------------------------------------------------------------------
(* The theorems about frame_equalizer. *)
LEMMA EqInvInit == EqStart => EqInv
<1> SUFFICES ASSUME EqStart PROVE EqInv
  OBVIOUS
<1>1. /\ fftLen \in FFT_LENS /\ frame = 0 /\ sym = 0 /\ frameSymbols = 0
      /\ active = {} /\ vht = FALSE /\ fec = FALSE /\ vhtMcs = 0 /\ job = NoJob
      /\ ltfSeen = [m \in {"MIMO", "STBC"} |-> 0] /\ haveY0 = FALSE
      /\ ltf1 = 0 /\ channel = [c \in {"LLTF", "HT", "MIMO", "STBC"} |-> 0]
      /\ decodes = <<>> /\ items = <<>> /\ headers = <<>>
  BY DEF EqStart, EqInit, SymbolInit
<1>2. active # {"HT"} /\ active # {"MIMO"} /\ active # {"STBC"} /\ active # {"VHT_PENDING"}
  BY <1>1, Apart
<1>3. EqTypes
  <2>1. fftLen \in {64, 128}
    BY <1>1, EqualizerAssumption
  <2>2. job \in Job
    <3>1. NoJob \in Job
      BY DEF Job, NoJob
    <3> QED
      BY <1>1, <3>1, Zenon
  <2>3. /\ active \in {{}, {"HT"}, {"MIMO"}, {"STBC"}, {"VHT_PENDING"}}
    BY <1>1
  <2>4. /\ ltfSeen \in [{"MIMO", "STBC"} -> Nat]
        /\ channel \in [{"LLTF", "HT", "MIMO", "STBC"} -> Nat]
    BY <1>1
  <2>5. /\ frame \in Nat /\ sym \in Nat /\ frameSymbols \in Nat /\ ltf1 \in Nat
        /\ vht \in BOOLEAN /\ fec \in BOOLEAN /\ haveY0 \in BOOLEAN /\ vhtMcs \in 0 .. 7
    <3>1. 0 \in Nat /\ 0 \in 0 .. 7
      OBVIOUS
    <3> QED
      BY <1>1, <3>1, Zenon
  <2> QED
    BY <2>1, <2>2, <2>3, <2>4, <2>5, Zenon DEF EqTypes
<1>4. SlotInv
  BY <1>1, <1>2, Zenon DEF SlotInv, Storing
<1>5. ChannelInv
  <2>1. \A mode \in {"MIMO", "STBC"} : active # {mode}
    BY <1>2
  <2>2. ltf1 \in {0, frame} /\ ~(sym >= 2)
    BY <1>1
  <2>3. OneChannel
    BY <1>2, <2>1, <2>2, Zenon DEF OneChannel
  <2> QED
    BY <1>3, <2>3, OneChannelIs
<1>6. DecodesInv
  <2>1. DOMAIN decodes = {} /\ decodes \in Seq({})
    BY <1>1
  <2> QED
    BY <2>1, Zenon DEF DecodesInv, WholeFramesDecoded
<1>7. HeadersInv
  <2>1. items \in Seq(Item) /\ headers \in Seq(Header)
    BY <1>1
  <2>2. DOMAIN items = {} /\ DOMAIN headers = {} /\ ~(frameSymbols > 0)
    BY <1>1
  <2> QED
    BY <1>1, <2>1, <2>2, Zenon DEF HeadersInv, SymbolTypeOK, SymbolsOwned
<1> QED
  BY <1>3, <1>4, <1>5, <1>6, <1>7 DEF EqInv

LEMMA EqInvStutter ==
    ASSUME EqInv, UNCHANGED eqVars
    PROVE  EqInv'
<1>1. /\ fftLen' = fftLen /\ frame' = frame /\ sym' = sym /\ frameSymbols' = frameSymbols
      /\ active' = active /\ vht' = vht /\ fec' = fec /\ vhtMcs' = vhtMcs /\ job' = job
      /\ ltfSeen' = ltfSeen /\ haveY0' = haveY0 /\ ltf1' = ltf1 /\ channel' = channel
      /\ filled' = filled /\ decodes' = decodes /\ items' = items /\ headers' = headers
  BY DEF eqVars, ownVars, modeVars, symbolVars
<1>2. EqTypes'
  BY <1>1, Zenon DEF EqInv, EqTypes
<1>3. SlotInv'
  BY <1>1, Zenon DEF EqInv, SlotInv, Storing, Due, DataStart
<1>4. ChannelInv'
  BY <1>1, Zenon DEF EqInv, ChannelInv, OwnChannel
<1>5. DecodesInv'
  BY <1>1, Zenon DEF EqInv, DecodesInv, WholeFramesDecoded
<1>6. HeadersInv'
  BY <1>1, Zenon DEF EqInv, HeadersInv, SymbolTypeOK, SymbolsOwned
<1> QED
  BY <1>2, <1>3, <1>4, <1>5, <1>6 DEF EqInv

LEMMA EqInvKeeps == EqInv /\ [EqWork \/ SetAlgorithm]_eqVars => EqInv'
<1>1. ASSUME EqInv, Step PROVE EqInv'
  <2>1. JobInv
    BY <1>1 DEF EqInv, JobInv
  <2>2. JobInv'
    BY <1>1, <2>1, JobKeeps
  <2>3. ChannelInv' /\ DecodesInv' /\ HeadersInv'
    BY <1>1, <2>1, <2>2, ChannelKeeps, DecodesKeep, HeadersKeep DEF EqInv
  <2> QED
    BY <2>2, <2>3 DEF EqInv, JobInv
<1> QED
  BY <1>1, EqInvStutter DEF Step

(* The inductive invariant of frame_equalizer holds in every state, for     *)
(* every content of the signal fields.                                      *)
THEOREM EqualizerInvariant == EqSpec => []EqInv
<1>1. EqStart => EqInv
  BY EqInvInit
<1>2. EqInv /\ [EqWork \/ SetAlgorithm]_eqVars => EqInv'
  BY EqInvKeeps
<1> QED
  BY <1>1, <1>2, PTL DEF EqSpec

LEMMA ExclusiveHolds == JobInv => ModesExclusive
<1> SUFFICES ASSUME JobInv PROVE ModesExclusive
  OBVIOUS
<1>1. active = {} \/ \E mode \in Modes : active = {mode}
  <2>1. active \in {{}, {"HT"}, {"MIMO"}, {"STBC"}, {"VHT_PENDING"}}
    BY TypesNow, Zenon
  <2> QED
    BY <2>1 DEF Modes
<1>2. CASE active = {}
  BY <1>2, FS_EmptySet DEF ModesExclusive
<1>3. CASE \E mode \in Modes : active = {mode}
  <2>1. PICK mode : active = {mode}
    BY <1>3
  <2>2. Cardinality({mode}) = 1
    BY FS_Singleton
  <2>3. Cardinality(active) = 1
    BY <2>1, <2>2, Zenon
  <2> QED
    BY <2>3 DEF ModesExclusive
<1> QED
  BY <1>1, <1>2, <1>3

(* A flag of one kind of frame is never up beside that of another, whatever *)
(* the sequence of frames and signal fields.                                *)
THEOREM DecodesAlone == EqSpec => []ModesExclusive
<1>1. EqInv => ModesExclusive
  BY ExclusiveHolds DEF EqInv, JobInv
<1> QED
  BY <1>1, EqualizerInvariant, PTL

LEMMA ClockHolds == JobInv => SlotClock
<1> SUFFICES ASSUME JobInv PROVE SlotClock
  OBVIOUS
<1> DEFINE first == CASE "HT" \in active /\ ~vht -> 7 [] OTHER -> 8
           due   == IF sym < first THEN 0 ELSE sym - first
<1>0. sym \in Nat /\ vht \in BOOLEAN /\ fec \in BOOLEAN
      /\ active \in {{}, {"HT"}, {"MIMO"}, {"STBC"}, {"VHT_PENDING"}}
  BY TypesNow
<1>1. /\ active # {} => sym >= 5
      /\ vht => active = {"HT"} /\ sym >= 8 /\ ~fec
      /\ fec => active = {"HT"}
      /\ active = {"VHT_PENDING"} => sym <= 7
  BY Zenon DEF JobInv, SlotInv
<1>2. CASE active = {} \/ active = {"VHT_PENDING"}
  <2>1. /\ active \cap {"HT", "MIMO"} = {} /\ "STBC" \notin active
        /\ active \cap {"HT", "MIMO", "STBC"} = {}
        /\ "VHT_PENDING" \in active => active = {"VHT_PENDING"}
    BY <1>2
  <2> QED
    BY <1>1, <2>1, Zenon DEF SlotClock
<1>3. CASE active = {"HT"}
  <2>1. job.dsym = (IF sym < DataStart THEN 0 ELSE sym - DataStart) /\ JobRuns
    BY <1>3, ModeNow, Zenon
  <2>2. "VHT_PENDING" \notin active /\ "STBC" \notin active /\ "HT" \in active
    BY <1>3
  <2>3. first = DataStart
    BY <2>2 DEF DataStart
  <2>4. job.dsym = due
    BY <2>1, <2>3
  <2> QED
    BY <1>1, <2>1, <2>2, <2>4 DEF SlotClock, JobRuns
<1>4. CASE active = {"MIMO"}
  <2>1. job.dsym = Due /\ JobRuns
    BY <1>4, ModeNow, Zenon
  <2>2. "VHT_PENDING" \notin active /\ "STBC" \notin active /\ "HT" \notin active
    BY <1>4
  <2>3. job.dsym = due
    BY <2>1, <2>2 DEF Due
  <2> QED
    BY <1>1, <2>1, <2>2, <2>3 DEF SlotClock, JobRuns
<1>5. CASE active = {"STBC"}
  <2>1. /\ job.dsym = Due - (Due % 2) /\ haveY0 = (Due % 2 = 1)
        /\ job.nsym % 2 = 0 /\ JobRuns
    BY <1>5, ModeNow, Zenon
  <2>2. "VHT_PENDING" \notin active /\ "HT" \notin active /\ "MIMO" \notin active
    BY <1>5
  <2>3. due = Due
    BY <2>2 DEF Due
  <2> QED
    BY <1>1, <2>1, <2>2, <2>3 DEF SlotClock, JobRuns
<1> QED
  BY <1>0, <1>2, <1>3, <1>4, <1>5

(* The counter d_ht_dsym, which says where bits are stored and when a decode *)
(* ends, keeps step with the symbol index in every decode.                  *)
THEOREM SlotsKeepStep == EqSpec => []SlotClock
<1>1. EqInv => SlotClock
  BY ClockHolds DEF EqInv, JobInv
<1> QED
  BY <1>1, EqualizerInvariant, PTL

LEMMA BoundsHold == JobInv => WritesInBounds
<1> SUFFICES ASSUME JobInv PROVE WritesInBounds
  OBVIOUS
<1>0. /\ sym \in Nat /\ MAX_ENCODED_BITS \in Nat
      /\ active \in {{}, {"HT"}, {"MIMO"}, {"STBC"}, {"VHT_PENDING"}}
  BY TypesNow, Inputs
<1>j. job.dsym \in Nat /\ job.nsym \in Nat /\ job.cbps \in Nat
  BY TypesNow DEF Job
<1>r. /\ "HT" \in active <=> active = {"HT"}
      /\ "MIMO" \in active <=> active = {"MIMO"}
      /\ "STBC" \in active <=> active = {"STBC"}
  BY <1>0, Raised, Zenon
<1>1. ASSUME active = {"HT"} PROVE (job.dsym + 1) * job.cbps <= MAX_ENCODED_BITS
  <2>1. JobRuns
    BY <1>1, ModeNow, Zenon
  <2>2. job.dsym + 1 \in Nat /\ job.dsym + 1 <= job.nsym
        /\ job.nsym * job.cbps <= MAX_ENCODED_BITS
    BY <1>j, <2>1 DEF JobRuns
  <2> QED
    BY <1>0, <1>j, <2>2, SlotFits
<1>2. ASSUME active = {"STBC"} PROVE (job.dsym + 2) * job.cbps <= MAX_ENCODED_BITS
  <2>1. /\ job.dsym = Due - (Due % 2) /\ job.nsym % 2 = 0 /\ JobRuns
    BY <1>2, ModeNow, Zenon
  <2>2. Due \in Nat
    BY <1>0 DEF Due
  <2>3. job.dsym % 2 = 0
    BY <2>1, <2>2
  <2>4. job.dsym + 2 \in Nat /\ job.dsym + 2 <= job.nsym
        /\ job.nsym * job.cbps <= MAX_ENCODED_BITS
    BY <1>j, <2>1, <2>3 DEF JobRuns
  <2> QED
    BY <1>0, <1>j, <2>4, SlotFits
<1>3. ASSUME active = {"MIMO"}, sym >= 8
      PROVE  (sym - 7) * job.cbps <= MAX_ENCODED_BITS
  <2>1. job.dsym = Due /\ JobRuns
    BY <1>3, ModeNow, Zenon
  <2>2. /\ sym - 7 = job.dsym + 1 /\ job.dsym + 1 \in Nat /\ job.dsym + 1 <= job.nsym
        /\ job.nsym * job.cbps <= MAX_ENCODED_BITS
    BY <1>0, <1>3, <1>j, <2>1 DEF JobRuns, Due
  <2> QED
    BY <1>0, <1>j, <2>2, SlotFits
<1> QED
  BY <1>r, <1>1, <1>2, <1>3, Zenon DEF WritesInBounds

(* What ht_begin, mimo_begin, stbc_begin and vht_begin compare once is      *)
(* enough for every bit stored later: no symbol writes past its buffer.     *)
THEOREM SlotsInBounds == EqSpec => []WritesInBounds
<1>1. EqInv => WritesInBounds
  BY BoundsHold DEF EqInv, JobInv
<1> QED
  BY <1>1, EqualizerInvariant, PTL

(* No frame is equalized with the training symbols of another, whatever     *)
(* was interrupted and however often set_algorithm was called.              *)
THEOREM OwnTraining == EqSpec => []OwnChannel
<1>1. EqInv => OwnChannel
  BY DEF EqInv, ChannelInv
<1> QED
  BY <1>1, EqualizerInvariant, PTL

(* ht_finish and mimo_finish read only bits of their own frame, all of      *)
(* them, and once for a frame.                                              *)
THEOREM DecodesWhole == EqSpec => []WholeFramesDecoded
<1>1. EqInv => WholeFramesDecoded
  BY DEF EqInv, DecodesInv
<1> QED
  BY <1>1, EqualizerInvariant, PTL

(* What decode_mac takes for the symbols of a frame are symbols of it. *)
THEOREM SymbolsTagged == EqSpec => []SymbolsOwned
<1>1. EqInv => SymbolsOwned
  BY DEF EqInv, HeadersInv
<1> QED
  BY <1>1, EqualizerInvariant, PTL

-----------------------------------------------------------------------------
(* The order of the headers, and what every item is.                        *)
Newest(k, p) == /\ headers[k].at < p
                /\ \A j \in DOMAIN headers : j > k => headers[j].at >= p

OrderInv ==
    /\ sym > 0 => frame > 0
    /\ \A k \in DOMAIN headers : /\ headers[k].frame \in 1 .. frame
                                 /\ headers[k].frame = frame => sym >= 3
    /\ \A j, k \in DOMAIN headers : j < k => /\ headers[j].at <= headers[k].at
                                             /\ headers[j].frame < headers[k].frame
    /\ (headers # <<>> /\ headers[Len(headers)].frame = frame) =>
          sym - 3 = Len(items) - headers[Len(headers)].at
    /\ \A p \in DOMAIN items, k \in DOMAIN headers : Newest(k, p) =>
          /\ items[p].frame = headers[k].frame
          /\ items[p].sym = p - headers[k].at + 2

(* What a step of frame_equalizer does to the buffer it shares.             *)
Grown ==
    /\ Len(items) <= Len(items') /\ items' \in Seq(Item)
    /\ \A p \in DOMAIN items : items'[p] = items[p]
    /\ Len(headers) <= Len(headers') /\ headers' \in Seq(Header)
    /\ \A k \in DOMAIN headers : headers'[k] = headers[k]
    /\ \A k \in DOMAIN headers' : k > Len(headers) => headers'[k].at >= Len(items)

(* The buffer's two sequences and their indices. *)
LEMMA BufferNow ==
    ASSUME SymbolTypeOK
    PROVE  /\ Len(items) \in Nat /\ DOMAIN items = 1 .. Len(items)
           /\ Len(headers) \in Nat /\ DOMAIN headers = 1 .. Len(headers)
           /\ headers # <<>> => Len(headers) \in DOMAIN headers
           /\ \A p \in DOMAIN items : items[p] \in Item /\ items[p].frame \in Nat
           /\ \A k \in DOMAIN headers :
                 /\ headers[k].at \in Nat /\ headers[k].frame \in Nat
                 /\ headers[k].encoding \in Nat /\ headers[k].bytes \in Nat
<1>1. items \in Seq(Item) /\ headers \in Seq(Header)
  BY DEF SymbolTypeOK
<1>2. /\ Len(items) \in Nat /\ DOMAIN items = 1 .. Len(items)
      /\ Len(headers) \in Nat /\ DOMAIN headers = 1 .. Len(headers)
  BY <1>1, LenProperties
<1>3. headers # <<>> => Len(headers) \in DOMAIN headers
  <2>1. headers # <<>> => Len(headers) \in Nat \ {0}
    BY <1>1, EmptySeq
  <2> QED
    BY <1>2, <2>1
<1>4. ASSUME NEW p \in DOMAIN items PROVE items[p] \in Item /\ items[p].frame \in Nat
  <2>1. items[p] \in Item
    BY <1>1, <1>2, ElementOfSeq
  <2> QED
    BY <2>1 DEF Item
<1>5. ASSUME NEW k \in DOMAIN headers
      PROVE  /\ headers[k].at \in Nat /\ headers[k].frame \in Nat
             /\ headers[k].encoding \in Nat /\ headers[k].bytes \in Nat
  <2>1. headers[k] \in Header
    BY <1>1, <1>2, ElementOfSeq
  <2> QED
    BY <2>1 DEF Header
<1> QED
  BY <1>2, <1>3, <1>4, <1>5

LEMMA Added ==
    ASSUME NEW S, NEW s \in Seq(S), NEW x \in S
    PROVE  /\ Append(s, x) \in Seq(S) /\ Len(s) \in Nat /\ Len(Append(s, x)) = Len(s) + 1
           /\ DOMAIN s = 1 .. Len(s) /\ DOMAIN Append(s, x) = 1 .. Len(s) + 1
           /\ \A k \in 1 .. Len(s) : Append(s, x)[k] = s[k]
           /\ Append(s, x)[Len(s) + 1] = x
<1>1. /\ Append(s, x) \in Seq(S) /\ Len(Append(s, x)) = Len(s) + 1
      /\ \A k \in 1 .. Len(s) : Append(s, x)[k] = s[k]
      /\ Append(s, x)[Len(s) + 1] = x
  BY AppendProperties
<1>2. /\ Len(s) \in Nat /\ DOMAIN s = 1 .. Len(s)
      /\ DOMAIN Append(s, x) = 1 .. Len(Append(s, x))
  BY <1>1, LenProperties
<1> QED
  BY <1>1, <1>2

(* One item, or one header, or neither.                                     *)
LEMMA BufferCases ==
    ASSUME EqInv, Step
    PROVE  \/ /\ PassOn /\ headers' = headers /\ frame' = frame /\ sym > 2 /\ sym' = sym + 1
              /\ items' = Append(items, [frame |-> frame, sym |-> sym])
              /\ headers # <<>> /\ headers[Len(headers)].frame = frame
           \/ /\ frame' = frame /\ sym = 2 /\ sym' = 3 /\ items' = items
              /\ \E l \in LSigs :
                    headers' = Append(headers, [at |-> Len(items), frame |-> frame,
                                                encoding |-> l.encoding, bytes |-> l.bytes])
           \/ /\ items' = items /\ headers' = headers
              /\ \/ frame' = frame + 1 /\ sym' = 1
                 \/ frame' = frame /\ sym' = sym
                 \/ frame' = frame /\ frame > 0 /\ sym = 1 /\ sym' = 2
                 \/ frame' = frame /\ sym = 2 /\ sym' = 3
<1>t. sym \in Nat /\ frame \in Nat /\ frameSymbols \in Nat
  BY TypesNow DEF EqInv, JobInv
<1>1. ASSUME SymbolStep
      PROVE  /\ PassOn /\ headers' = headers /\ frame' = frame /\ sym > 2 /\ sym' = sym + 1
             /\ items' = Append(items, [frame |-> frame, sym |-> sym])
             /\ headers # <<>> /\ headers[Len(headers)].frame = frame
  <2>1. PassOn
    BY <1>1, SymbolEffect DEF Effect, EqInv, JobInv
  <2>2. /\ headers' = headers /\ frame' = frame /\ sym > 2 /\ sym' = sym + 1
        /\ items' = Append(items, [frame |-> frame, sym |-> sym])
        /\ sym <= frameSymbols + 2 \/ active # {}
    BY <2>1 DEF PassOn, Emit, Interesting
  <2>3. frameSymbols > 0 \/ active # {}
    BY <1>t, <2>2
  <2>4. headers # <<>> /\ headers[Len(headers)].frame = frame
    BY <2>3, Zenon DEF EqInv, HeadersInv
  <2> QED
    BY <2>1, <2>2, <2>4
<1>2. ASSUME NEW l \in LSigs, SignalParsed(l)
      PROVE  /\ frame' = frame /\ sym = 2 /\ sym' = 3 /\ items' = items
             /\ headers' = Append(headers, [at |-> Len(items), frame |-> frame,
                                            encoding |-> l.encoding, bytes |-> l.bytes])
  BY <1>2 DEF SignalParsed, Announce
<1>3. ASSUME NewFrame \/ Skip \/ SetAlgorithm \/ SecondLtf \/ SignalFailed
      PROVE  /\ items' = items /\ headers' = headers
             /\ \/ frame' = frame + 1 /\ sym' = 1
                \/ frame' = frame /\ sym' = sym
                \/ frame' = frame /\ frame > 0 /\ sym = 1 /\ sym' = 2
                \/ frame' = frame /\ sym = 2 /\ sym' = 3
  BY <1>3 DEF NewFrame, Skip, SetAlgorithm, SecondLtf, SignalFailed, symbolVars
<1> QED
  BY <1>1, <1>2, <1>3, StepCases, Zenon

LEMMA OrderInit == EqStart => OrderInv
<1> SUFFICES ASSUME EqStart PROVE OrderInv
  OBVIOUS
<1>1. sym = 0 /\ items = <<>> /\ headers = <<>>
  BY DEF EqStart, EqInit, SymbolInit
<1>2. ~(sym > 0) /\ DOMAIN items = {} /\ DOMAIN headers = {}
  BY <1>1
<1> QED
  BY <1>1, <1>2, Zenon DEF OrderInv

LEMMA OrderKeeps ==
    ASSUME EqInv, OrderInv, Step
    PROVE  OrderInv' /\ Grown
<1>t. sym \in Nat /\ frame \in Nat
  BY TypesNow DEF EqInv, JobInv
<1>s. SymbolTypeOK /\ items \in Seq(Item) /\ headers \in Seq(Header)
      /\ \A k \in DOMAIN headers : headers[k].at <= Len(items)
  BY Zenon DEF EqInv, HeadersInv, SymbolTypeOK
<1> DEFINE n == Len(items)
           m == Len(headers)
<1>n. /\ n \in Nat /\ DOMAIN items = 1 .. n /\ m \in Nat /\ DOMAIN headers = 1 .. m
      /\ headers # <<>> => m \in DOMAIN headers
      /\ \A k \in DOMAIN headers : /\ headers[k].at \in Nat /\ headers[k].at <= n
                                   /\ headers[k].frame \in Nat
  BY <1>s, BufferNow
<1>o. /\ sym > 0 => frame > 0
      /\ \A k \in DOMAIN headers : /\ headers[k].frame \in 1 .. frame
                                   /\ headers[k].frame = frame => sym >= 3
      /\ \A j, k \in DOMAIN headers : j < k => /\ headers[j].at <= headers[k].at
                                               /\ headers[j].frame < headers[k].frame
      /\ (headers # <<>> /\ headers[m].frame = frame) => sym - 3 = n - headers[m].at
      /\ \A p \in DOMAIN items, k \in DOMAIN headers : Newest(k, p) =>
            /\ items[p].frame = headers[k].frame
            /\ items[p].sym = p - headers[k].at + 2
  BY Zenon DEF OrderInv
<1> HIDE DEF n, m
<1>1. ASSUME headers' = headers, frame' = frame, sym > 2, sym' = sym + 1,
             items' = Append(items, [frame |-> frame, sym |-> sym]),
             headers # <<>>, headers[m].frame = frame
      PROVE  OrderInv' /\ Grown
  <2> DEFINE x == [frame |-> frame, sym |-> sym]
  <2>1. x \in Item /\ x.frame = frame /\ x.sym = sym
    BY <1>t DEF Item
  <2> HIDE DEF x
  <2>2. /\ items' \in Seq(Item) /\ Len(items') = n + 1 /\ DOMAIN items' = 1 .. n + 1
        /\ \A p \in 1 .. n : items'[p] = items[p]
        /\ items'[n + 1] = x
    BY <1>1, <1>s, <2>1, Added DEF x, n
  <2>3. \A k, p : Newest(k, p)' <=> Newest(k, p)
    BY <1>1 DEF Newest
  <2>4. ASSUME NEW p \in 1 .. n + 1, NEW k \in DOMAIN headers, Newest(k, p)
        PROVE  items'[p].frame = headers[k].frame /\ items'[p].sym = p - headers[k].at + 2
    <3>1. CASE p = n + 1
      <4>1. m \in DOMAIN headers /\ m >= k
        BY <1>1, <1>n
      <4>2. ~(m > k)
        <5>1. m > k => headers[m].at >= p
          BY <2>4, <4>1, Zenon DEF Newest
        <5> QED
          BY <1>n, <3>1, <4>1, <5>1
      <4>3. k = m
        BY <1>n, <4>1, <4>2
      <4>4. sym - 3 = n - headers[m].at /\ headers[m].at \in Nat
        BY <1>1, <1>n, <1>o, <4>1
      <4> QED
        BY <1>1, <1>n, <1>t, <2>1, <2>2, <3>1, <4>3, <4>4
    <3>2. CASE p # n + 1
      <4>1. p \in DOMAIN items /\ items'[p] = items[p]
        BY <1>n, <2>2, <3>2
      <4> QED
        BY <1>o, <2>4, <4>1, Zenon
    <3> QED
      BY <3>1, <3>2
  <2>5. sym' - 3 = Len(items') - headers'[Len(headers')].at
    <3>1. sym - 3 = n - headers[m].at /\ headers[m].at \in Nat
      BY <1>1, <1>n, <1>o
    <3> QED
      BY <1>1, <1>n, <1>t, <2>2, <3>1 DEF m
  <2>6. /\ sym' > 0 => frame' > 0
        /\ \A k \in DOMAIN headers' : /\ headers'[k].frame \in 1 .. frame'
                                      /\ headers'[k].frame = frame' => sym' >= 3
    BY <1>1, <1>o, <1>t
  <2>7. OrderInv'
    BY <1>1, <1>o, <2>2, <2>3, <2>4, <2>5, <2>6, Zenon DEF OrderInv
  <2>8. Grown
    BY <1>1, <1>n, <1>s, <2>2 DEF Grown, n, m
  <2> QED
    BY <2>7, <2>8
<1>2. ASSUME frame' = frame, sym = 2, sym' = 3, items' = items, NEW l \in LSigs,
             headers' = Append(headers, [at |-> n, frame |-> frame,
                                         encoding |-> l.encoding, bytes |-> l.bytes])
      PROVE  OrderInv' /\ Grown
  <2> DEFINE x == [at |-> n, frame |-> frame, encoding |-> l.encoding, bytes |-> l.bytes]
  <2>0. frame' = frame /\ sym' = 3
    BY <1>2
  <2>1. x \in Header /\ x.at = n /\ x.frame = frame
    <3>1. l.encoding \in Nat /\ l.bytes \in Nat
      BY Inputs
    <3> QED
      BY <1>n, <1>t, <3>1 DEF Header
  <2> HIDE DEF x
  <2>2. /\ headers' \in Seq(Header) /\ Len(headers') = m + 1 /\ DOMAIN headers' = 1 .. m + 1
        /\ \A k \in 1 .. m : headers'[k] = headers[k]
        /\ headers'[m + 1] = x
    BY <1>2, <1>s, <2>1, Added DEF x, m
  <2>3. frame > 0 /\ \A k \in DOMAIN headers : headers[k].frame \in 1 .. frame - 1
    <3>1. frame > 0
      BY <1>2, <1>o
    <3>2. ASSUME NEW k \in DOMAIN headers PROVE headers[k].frame \in 1 .. frame - 1
      <4>1. headers[k].frame \in 1 .. frame /\ headers[k].frame # frame
        BY <1>2, <1>o
      <4> QED
        BY <1>t, <4>1
    <3> QED
      BY <3>1, <3>2
  <2>4. ASSUME NEW k \in 1 .. m + 1
        PROVE  \/ k = m + 1 /\ headers'[k] = x
               \/ k \in 1 .. m /\ headers'[k] = headers[k]
    BY <1>n, <2>2
  <2>5. ASSUME NEW k \in 1 .. m + 1
        PROVE  /\ headers'[k].frame \in 1 .. frame'
               /\ headers'[k].frame = frame' => sym' >= 3
    <3>1. CASE k = m + 1 /\ headers'[k] = x
      BY <1>t, <2>0, <2>1, <2>3, <3>1
    <3>2. CASE k \in 1 .. m /\ headers'[k] = headers[k]
      <4>1. headers[k].frame \in 1 .. frame - 1
        BY <1>n, <2>3, <3>2
      <4> QED
        BY <1>t, <2>0, <3>2, <4>1
    <3> QED
      BY <2>4, <3>1, <3>2
  <2>6. ASSUME NEW j \in 1 .. m + 1, NEW k \in 1 .. m + 1, j < k
        PROVE  headers'[j].at <= headers'[k].at /\ headers'[j].frame < headers'[k].frame
    <3>1. j \in 1 .. m /\ headers'[j] = headers[j]
      BY <1>n, <2>4, <2>6
    <3>2. CASE k = m + 1 /\ headers'[k] = x
      <4>1. headers[j].frame \in 1 .. frame - 1 /\ headers[j].at <= n
        BY <1>n, <2>3, <3>1
      <4> QED
        BY <1>t, <2>1, <3>1, <3>2, <4>1
    <3>3. CASE k \in 1 .. m /\ headers'[k] = headers[k]
      BY <1>n, <1>o, <2>6, <3>1, <3>3
    <3> QED
      BY <2>4, <3>2, <3>3
  <2>7. sym' - 3 = Len(items') - headers'[Len(headers')].at
    BY <1>2, <1>n, <2>1, <2>2 DEF n
  <2>8. ASSUME NEW p \in DOMAIN items, NEW k \in 1 .. m + 1, Newest(k, p)'
        PROVE  items[p].frame = headers'[k].frame /\ items[p].sym = p - headers'[k].at + 2
    <3>1. k # m + 1
      <4>1. headers'[k].at < p /\ p <= n
        BY <1>n, <2>8 DEF Newest
      <4> QED
        BY <1>n, <2>1, <2>2, <4>1
    <3>2. k \in DOMAIN headers /\ headers'[k] = headers[k]
      BY <1>n, <2>2, <3>1
    <3>3. Newest(k, p)
      <4>1. headers[k].at < p
        BY <2>8, <3>2 DEF Newest
      <4>2. ASSUME NEW j \in DOMAIN headers, j > k PROVE headers[j].at >= p
        <5>1. j \in DOMAIN headers' /\ headers'[j] = headers[j]
          BY <1>n, <2>2
        <5>2. headers'[j].at >= p
          BY <2>8, <4>2, <5>1, Zenon DEF Newest
        <5> QED
          BY <5>1, <5>2
      <4> QED
        BY <4>1, <4>2 DEF Newest
    <3> QED
      BY <1>o, <3>2, <3>3
  <2>9. OrderInv'
    <3>1. sym' > 0 => frame' > 0
      BY <1>2, <2>3
    <3> QED
      BY <1>2, <2>2, <2>5, <2>6, <2>7, <2>8, <3>1, Zenon DEF OrderInv
  <2>10. Grown
    <3>1. ASSUME NEW k \in DOMAIN headers', k > m PROVE headers'[k].at >= n
      BY <1>n, <2>1, <2>2, <3>1
    <3> QED
      BY <1>2, <1>n, <1>s, <2>2, <3>1 DEF Grown, n, m
  <2> QED
    BY <2>9, <2>10
<1>3. ASSUME items' = items, headers' = headers,
             \/ frame' = frame + 1 /\ sym' = 1
             \/ frame' = frame /\ sym' = sym
             \/ frame' = frame /\ frame > 0 /\ sym = 1 /\ sym' = 2
             \/ frame' = frame /\ sym = 2 /\ sym' = 3
      PROVE  OrderInv' /\ Grown
  <2>1. Grown
    <3>1. \A k \in DOMAIN headers : ~(k > m)
      BY <1>n
    <3> QED
      BY <1>3, <1>n, <1>s, <3>1 DEF Grown, n, m
  <2>2. \A k, p : Newest(k, p)' <=> Newest(k, p)
    BY <1>3 DEF Newest
  <2>3. (sym' > 0 => frame' > 0) /\ (frame' = frame => sym' >= sym)
    BY <1>3, <1>t, <1>o
  <2>4. ASSUME NEW k \in DOMAIN headers
        PROVE  /\ headers[k].frame \in 1 .. frame'
               /\ headers[k].frame = frame' => frame' = frame /\ sym' = sym
    <3>1. headers[k].frame \in 1 .. frame /\ (headers[k].frame = frame => sym >= 3)
      BY <1>o
    <3> QED
      BY <1>3, <1>t, <3>1
  <2>5. ASSUME headers # <<>>, headers[m].frame = frame'
        PROVE  sym' - 3 = n - headers[m].at
    <3>1. frame' = frame /\ sym' = sym
      BY <1>n, <2>4, <2>5
    <3> QED
      BY <1>o, <2>5, <3>1
  <2>6. \A k \in DOMAIN headers : headers[k].frame = frame' => sym' >= 3
    BY <1>o, <2>4
  <2>7. OrderInv'
    BY <1>3, <1>o, <2>2, <2>3, <2>4, <2>5, <2>6, Zenon DEF OrderInv, n, m
  <2> QED
    BY <2>1, <2>7
<1> QED
  BY <1>1, <1>2, <1>3, BufferCases, Zenon DEF n, m

-----------------------------------------------------------------------------
(* decode_mac: what it collects, what it has decoded, and what it has seen. *)
Seen(k) == Effective(k) /\ headers[k].at < mread

(* The i-th symbol collected of frame f is its own, or of a refused one.    *)
Refuses(H, f) == \E k \in DOMAIN H : H[k].frame = f /\ ~Accepts(H[k])

Owns(H, s, i, f) == \/ s.frame = f /\ s.sym = i + 2
                    \/ s.frame > f /\ Refuses(H, s.frame)

(* Header k is that of the frame in d_frame, the newest one accepted.       *)
Collecting(k) ==
    /\ Seen(k) /\ Accepts(headers[k])
    /\ \A j \in DOMAIN headers : j > k /\ Seen(j) => ~Accepts(headers[j])
    /\ dFrame.frame = headers[k].frame /\ dFrame.nsym = HeaderNSym(k)
    /\ copied = Len(rxSymbols)
    /\ copied = IF mread - headers[k].at < HeaderNSym(k) THEN mread - headers[k].at
                ELSE HeaderNSym(k)
    /\ \A i \in 1 .. copied : rxSymbols[i] = items[headers[k].at + i]

MacInv ==
    /\ mread \in Nat /\ mread <= Len(items)
    /\ dFrame.frame \in Nat /\ dFrame.nsym \in Nat /\ copied \in Int
    /\ rxSymbols \in Seq(Item)
    /\ \E S : mdecodes \in Seq(S)

CollectInv ==
    /\ dFrame.frame = 0 => \A k \in DOMAIN headers : Seen(k) => ~Accepts(headers[k])
    /\ dFrame.frame > 0 => \E k \in DOMAIN headers : Collecting(k)
    /\ \A k \in DOMAIN headers : Newest(k, mread) => dMeta = headers[k].frame
    /\ \A i \in DOMAIN rxSymbols : Owns(headers, rxSymbols[i], i, dFrame.frame)

DecodedInv ==
    /\ \A d \in DOMAIN mdecodes : /\ mdecodes[d].frame \in Nat
                                  /\ mdecodes[d].frame <= dFrame.frame
                                  /\ mdecodes[d].frame = dFrame.frame => copied >= dFrame.nsym
    /\ DecodesOwnSymbols
    /\ CompleteFramesDecoded

MacSafe == MacInv /\ CollectInv /\ DecodedInv
RxInv == EqInv /\ OrderInv /\ MacSafe

LEMMA OwnSymbolsAre ==
    /\ DecodesOwnSymbols <=>
          \A d \in DOMAIN mdecodes : \A i \in DOMAIN mdecodes[d].symbols :
              Owns(headers, mdecodes[d].symbols[i], i, mdecodes[d].frame)
    /\ DecodesOwnSymbols' <=>
          \A d \in DOMAIN mdecodes' : \A i \in DOMAIN mdecodes'[d].symbols :
              Owns(headers', mdecodes'[d].symbols[i], i, mdecodes'[d].frame)
<1>1. DecodesOwnSymbols <=>
          \A d \in DOMAIN mdecodes : \A i \in DOMAIN mdecodes[d].symbols :
              Owns(headers, mdecodes[d].symbols[i], i, mdecodes[d].frame)
  BY Zenon DEF DecodesOwnSymbols, Owns, Rejected, Refuses
<1>2. DecodesOwnSymbols' <=>
          \A d \in DOMAIN mdecodes' : \A i \in DOMAIN mdecodes'[d].symbols :
              Owns(headers', mdecodes'[d].symbols[i], i, mdecodes'[d].frame)
  BY Zenon DEF DecodesOwnSymbols, Owns, Rejected, Refuses
<1> QED
  BY <1>1, <1>2, Zenon

LEMMA AcceptedSize ==
    ASSUME NEW k, Accepts(headers[k])
    PROVE  HeaderNSym(k) \in 1 .. MAX_SYM /\ HeaderNSym(k) \in Nat \ {0} /\ HeaderNSym(k) <= MAX_SYM
<1>1. HeaderNSym(k) \in 1 .. MAX_SYM
  BY Zenon DEF Accepts, HeaderNSym
<1>2. MAX_SYM \in Int
  BY LimitsAssumption
<1> QED
  BY <1>1, <1>2

(* h is a header's item, w its frame's symbols, r what was read of the n    *)
(* items and c what was copied.                                             *)
LEMMA InFront ==
    ASSUME NEW h \in Nat, NEW w \in Nat, NEW r \in Nat, NEW n \in Nat, NEW c, r <= n,
           r - h < w => c = r - h, ~(r - h < w) => c = w, NEW i \in 1 .. c
    PROVE  h + i \in 1 .. n /\ h + i <= r
OBVIOUS

LEMMA CopiedOne ==
    ASSUME NEW h \in Nat, NEW w \in Nat, NEW r \in Nat, NEW c \in Nat, h < r,
           r - h < w => c = r - h, ~(r - h < w) => c = w, ~(c >= w)
    PROVE  h + (c + 1) = r + 1
OBVIOUS

LEMMA CopiedAll ==
    ASSUME NEW h \in Nat, NEW w \in Nat \ {0}, NEW r \in Nat, NEW c, h + w = r + 1,
           r - h < w => c = r - h, ~(r - h < w) => c = w
    PROVE  ~(c >= w) /\ c + 1 = w
OBVIOUS

LEMMA ReadNow ==
    ASSUME NEW h \in Nat, NEW r \in Nat, h < r + 1, h # r
    PROVE  h < r
OBVIOUS

(* frame_equalizer takes nothing away from what decode_mac goes by. *)
LEMMA GrownSafe ==
    ASSUME EqInv, OrderInv, MacSafe, Grown, UNCHANGED macVars
    PROVE  MacSafe'
<1>s. SymbolTypeOK
  BY Zenon DEF EqInv, HeadersInv
<1> DEFINE n == Len(items)
           m == Len(headers)
<1>n. /\ n \in Nat /\ DOMAIN items = 1 .. n /\ m \in Nat /\ DOMAIN headers = 1 .. m
      /\ \A k \in DOMAIN headers : headers[k].at \in Nat
  BY <1>s, BufferNow
<1>g. /\ n <= Len(items') /\ m <= Len(headers') /\ Len(items') \in Nat /\ Len(headers') \in Nat
      /\ DOMAIN items' = 1 .. Len(items') /\ DOMAIN headers' = 1 .. Len(headers')
      /\ \A p \in DOMAIN items : p \in DOMAIN items' /\ items'[p] = items[p]
      /\ \A k \in DOMAIN headers : k \in DOMAIN headers' /\ headers'[k] = headers[k]
  <2>1. /\ n <= Len(items') /\ m <= Len(headers')
        /\ Len(items') \in Nat /\ Len(headers') \in Nat
        /\ DOMAIN items' = 1 .. Len(items') /\ DOMAIN headers' = 1 .. Len(headers')
    BY LenProperties DEF Grown
  <2>2. ASSUME NEW p \in DOMAIN items PROVE p \in DOMAIN items' /\ items'[p] = items[p]
    <3>1. p \in 1 .. Len(items')
      BY <1>n, <2>1
    <3> QED
      BY <2>1, <3>1 DEF Grown
  <2>3. ASSUME NEW k \in DOMAIN headers PROVE k \in DOMAIN headers' /\ headers'[k] = headers[k]
    <3>1. k \in 1 .. Len(headers')
      BY <1>n, <2>1
    <3> QED
      BY <2>1, <3>1 DEF Grown
  <2> QED
    BY <2>1, <2>2, <2>3
<1>u. /\ mread' = mread /\ dFrame' = dFrame /\ dMeta' = dMeta /\ copied' = copied
      /\ rxSymbols' = rxSymbols /\ mdecodes' = mdecodes
  BY DEF macVars
<1>m. mread \in Nat /\ mread <= n
  BY Zenon DEF MacSafe, MacInv
<1>1. ASSUME NEW k \in DOMAIN headers'
      PROVE  \/ k \in DOMAIN headers /\ headers'[k] = headers[k]
             \/ k > m /\ headers'[k].at >= n /\ headers'[k].at \in Int
  <2>1. CASE k <= m
    <3>1. k \in DOMAIN headers
      BY <1>n, <1>g, <2>1
    <3> QED
      BY <1>g, <3>1, Zenon
  <2>2. CASE ~(k <= m)
    <3>1. k > m /\ k \in Nat
      BY <1>n, <1>g, <2>2
    <3>2. headers'[k].at >= n
      BY <3>1, Zenon DEF Grown
    <3>3. headers'[k] \in Header
      <4>1. headers' \in Seq(Header) /\ k \in 1 .. Len(headers')
        BY <1>g DEF Grown
      <4> QED
        BY <4>1, ElementOfSeq
    <3>4. headers'[k].at \in Int
      BY <3>3 DEF Header
    <3> QED
      BY <3>1, <3>2, <3>4
  <2> QED
    BY <2>1, <2>2
<1> HIDE DEF n, m
<1>2. ASSUME NEW k \in DOMAIN headers', headers'[k].at < mread
      PROVE  k \in DOMAIN headers /\ headers'[k] = headers[k]
  BY <1>1, <1>2, <1>m, <1>n
<1>3. ASSUME NEW k \in DOMAIN headers, headers[k].at < mread
      PROVE  Effective(k)' <=> Effective(k)
  <2>1. ASSUME Effective(k) PROVE Effective(k)'
    <3> SUFFICES ASSUME NEW j \in DOMAIN headers', j > k PROVE headers'[j].at > headers'[k].at
      BY DEF Effective
    <3>1. CASE j \in DOMAIN headers /\ headers'[j] = headers[j]
      BY <1>g, <2>1, <3>1, Zenon DEF Effective
    <3>2. CASE j > m /\ headers'[j].at >= n /\ headers'[j].at \in Int
      <4>1. headers'[k] = headers[k] /\ headers[k].at \in Nat
        BY <1>g, <1>n
      <4> QED
        BY <1>3, <1>m, <1>n, <3>2, <4>1
    <3> QED
      BY <1>1, <3>1, <3>2
  <2>2. ASSUME Effective(k)' PROVE Effective(k)
    <3> SUFFICES ASSUME NEW j \in DOMAIN headers, j > k PROVE headers[j].at > headers[k].at
      BY DEF Effective
    <3>1. j \in DOMAIN headers' /\ headers'[j] = headers[j] /\ headers'[k] = headers[k]
      BY <1>g
    <3>2. headers'[j].at > headers'[k].at
      BY <2>2, <3>1, Zenon DEF Effective
    <3> QED
      BY <3>1, <3>2
  <2> QED
    BY <2>1, <2>2
<1>4. /\ \A k \in DOMAIN headers : Seen(k)' <=> Seen(k)
      /\ \A k \in DOMAIN headers' : Seen(k)' => k \in DOMAIN headers
  <2>1. ASSUME NEW k \in DOMAIN headers PROVE Seen(k)' <=> Seen(k)
    <3>1. headers'[k] = headers[k]
      BY <1>g
    <3> QED
      BY <1>3, <1>u, <3>1, Zenon DEF Seen
  <2>2. ASSUME NEW k \in DOMAIN headers', Seen(k)' PROVE k \in DOMAIN headers
    <3>1. headers'[k].at < mread
      BY <1>u, <2>2, Zenon DEF Seen
    <3> QED
      BY <1>2, <3>1
  <2> QED
    BY <2>1, <2>2
<1>5. \A f : Refuses(headers, f) => Refuses(headers', f)
  BY <1>g, Zenon DEF Refuses
<1>6. \A s, i, f : Owns(headers, s, i, f) => Owns(headers', s, i, f)
  BY <1>5, Zenon DEF Owns
<1>7. MacInv'
  <2>1. mread' <= Len(items')
    BY <1>g, <1>m, <1>n, <1>u
  <2> QED
    BY <1>u, <2>1, Zenon DEF MacSafe, MacInv
<1>8. \A k \in DOMAIN headers' : Seen(k)' /\ dFrame.frame = 0 => ~Accepts(headers'[k])
  BY <1>4, <1>g, Zenon DEF MacSafe, CollectInv
<1>9. ASSUME NEW k \in DOMAIN headers, Collecting(k) PROVE Collecting(k)'
  <2>1. headers'[k] = headers[k] /\ headers[k].at \in Nat /\ HeaderNSym(k)' = HeaderNSym(k)
    BY <1>g, <1>n DEF HeaderNSym
  <2>2. Seen(k)' /\ Accepts(headers'[k])
    BY <1>4, <1>9, <2>1, Zenon DEF Collecting
  <2>3. \A j \in DOMAIN headers' : j > k /\ Seen(j)' => ~Accepts(headers'[j])
    BY <1>4, <1>9, <1>g, Zenon DEF Collecting
  <2>4. ASSUME NEW i \in 1 .. copied PROVE rxSymbols[i] = items'[headers[k].at + i]
    <3>1. rxSymbols[i] = items[headers[k].at + i]
      BY <1>9, Zenon DEF Collecting
    <3>2. HeaderNSym(k) \in Nat
      BY <1>9, AcceptedSize DEF Collecting
    <3>3. /\ mread - headers[k].at < HeaderNSym(k) => copied = mread - headers[k].at
          /\ ~(mread - headers[k].at < HeaderNSym(k)) => copied = HeaderNSym(k)
      BY <1>9, Zenon DEF Collecting
    <3>4. headers[k].at + i \in 1 .. n
      BY <1>m, <1>n, <2>1, <3>2, <3>3, InFront, Zenon
    <3>5. headers[k].at + i \in DOMAIN items
      BY <1>n, <3>4, Zenon
    <3> QED
      BY <1>g, <3>1, <3>5, Zenon
  <2> QED
    BY <1>9, <1>u, <2>1, <2>2, <2>3, <2>4, Zenon DEF Collecting
<1>10. ASSUME NEW k \in DOMAIN headers', Newest(k, mread)' PROVE dMeta = headers'[k].frame
  <2>1. k \in DOMAIN headers /\ headers'[k] = headers[k] /\ headers'[k].at < mread
    <3>1. headers'[k].at < mread
      BY <1>10, <1>u, Zenon DEF Newest
    <3> QED
      BY <1>2, <3>1
  <2>2. \A j \in DOMAIN headers : j > k => headers[j].at >= mread
    BY <1>10, <1>g, <1>u, Zenon DEF Newest
  <2>3. Newest(k, mread)
    BY <2>1, <2>2, Zenon DEF Newest
  <2> QED
    BY <2>1, <2>3, Zenon DEF MacSafe, CollectInv
<1>11. CollectInv'
  <2>1. dFrame.frame > 0 => \E k \in DOMAIN headers' : Collecting(k)'
    BY <1>9, <1>g, Zenon DEF MacSafe, CollectInv
  <2>2. \A i \in DOMAIN rxSymbols : Owns(headers', rxSymbols[i], i, dFrame.frame)
    BY <1>6, <1>u, Zenon DEF MacSafe, CollectInv
  <2>3. \A k \in DOMAIN headers' : Newest(k, mread)' => dMeta' = headers'[k].frame
    BY <1>10, <1>u, Zenon
  <2> QED
    BY <1>8, <1>u, <2>1, <2>2, <2>3, Zenon DEF CollectInv
<1>12. DecodesOwnSymbols'
  <2>1. \A d \in DOMAIN mdecodes : \A i \in DOMAIN mdecodes[d].symbols :
              Owns(headers, mdecodes[d].symbols[i], i, mdecodes[d].frame)
    BY OwnSymbolsAre DEF MacSafe, DecodedInv
  <2>2. \A d \in DOMAIN mdecodes' : \A i \in DOMAIN mdecodes'[d].symbols :
              Owns(headers', mdecodes'[d].symbols[i], i, mdecodes'[d].frame)
    BY <1>6, <1>u, <2>1, Zenon
  <2> QED
    BY <2>2, OwnSymbolsAre
<1>13. CompleteFramesDecoded'
  <2> SUFFICES ASSUME NEW k \in DOMAIN headers', Accepts(headers'[k]),
                      headers'[k].at + HeaderNSym(k)' <= mread,
                      \A j \in DOMAIN headers' : j > k =>
                          headers'[j].at >= headers'[k].at + HeaderNSym(k)'
               PROVE  \E d \in DOMAIN mdecodes :
                          /\ mdecodes[d].frame = headers'[k].frame
                          /\ mdecodes[d].meta = headers'[k].frame
                          /\ \A s \in DOMAIN mdecodes[d].symbols :
                                mdecodes[d].symbols[s].frame = headers'[k].frame
    BY <1>u, Zenon DEF CompleteFramesDecoded, MacSafe, DecodedInv
  <2>1. HeaderNSym(k)' \in Nat \ {0}
    <3>1. NSym(headers'[k].bytes, LegacyOfdm(headers'[k].encoding).dbps) \in 1 .. MAX_SYM
      BY Zenon DEF Accepts
    <3>2. HeaderNSym(k)' \in 1 .. MAX_SYM
      BY <3>1, Zenon DEF HeaderNSym
    <3> QED
      BY <3>2, LimitsAssumption
  <2>2. headers'[k].at < mread
    BY <1>1, <1>m, <1>n, <2>1
  <2>3. k \in DOMAIN headers /\ headers'[k] = headers[k]
    BY <1>2, <2>2
  <2>4. HeaderNSym(k)' = HeaderNSym(k)
    BY <2>3 DEF HeaderNSym
  <2>5. \A j \in DOMAIN headers : j > k => headers[j].at >= headers[k].at + HeaderNSym(k)
    BY <1>g, <2>3, <2>4, Zenon
  <2> QED
    BY <2>3, <2>4, <2>5, Zenon DEF CompleteFramesDecoded, MacSafe, DecodedInv
<1>14. DecodedInv'
  BY <1>12, <1>13, <1>u, Zenon DEF DecodedInv, MacSafe
<1> QED
  BY <1>7, <1>11, <1>14 DEF MacSafe

(* The header that decode_mac takes from an item is the newest one. *)
LEMMA NewestOnly ==
    ASSUME EqInv, NEW p \in Int, NEW j \in DOMAIN headers, NEW k \in DOMAIN headers,
           Newest(j, p), Newest(k, p)
    PROVE  j = k
<1>s. SymbolTypeOK
  BY Zenon DEF EqInv, HeadersInv
<1>1. /\ Len(headers) \in Nat /\ DOMAIN headers = 1 .. Len(headers)
      /\ headers[j].at \in Nat /\ headers[k].at \in Nat
  BY <1>s, BufferNow
<1>2. headers[j].at < p /\ headers[k].at < p
  BY Zenon DEF Newest
<1>3. (j > k => headers[j].at >= p) /\ (k > j => headers[k].at >= p)
  BY Zenon DEF Newest
<1> QED
  BY <1>1, <1>2, <1>3

LEMMA NewestTaken ==
    ASSUME EqInv, OrderInv, mread \in Nat, HeadersAt(mread) # {}
    PROVE  \E k \in DOMAIN headers : /\ NewestHeader = headers[k] /\ headers[k].at = mread
                                     /\ Newest(k, mread + 1) /\ Effective(k)
<1>s. SymbolTypeOK
  BY Zenon DEF EqInv, HeadersInv
<1> DEFINE H == HeadersAt(mread)
           m == Len(headers)
           G == {m - h : h \in H}
<1>1. /\ m \in Nat /\ DOMAIN headers = 1 .. m
      /\ \A k \in DOMAIN headers : headers[k].at \in Nat
  BY <1>s, BufferNow
<1>2. \A h : h \in H <=> h \in 1 .. m /\ headers[h].at = mread
  BY <1>1, Zenon DEF HeadersAt
<1>o. \A i, k \in DOMAIN headers : i < k => headers[i].at <= headers[k].at
  BY Zenon DEF OrderInv
<1> HIDE DEF m, H
<1>3. G \subseteq Nat /\ G # {}
  <2>1. \A h \in H : m - h \in Nat
    BY <1>1, <1>2
  <2>2. H # {}
    BY DEF H
  <2> QED
    BY <2>1, <2>2, Zenon
<1>4. PICK g \in G : \A x \in G : g <= x
  BY <1>3, LeastNat
<1>5. PICK t \in H : g = m - t
  BY <1>4, Zenon
<1>6. \A y \in H : t >= y
  <2>1. \A y \in H : g <= m - y
    BY <1>4, Zenon
  <2> QED
    BY <1>1, <1>2, <1>5, <2>1
<1>7. Max(H) \in H /\ \A y \in H : Max(H) >= y
  BY <1>5, <1>6, Zenon DEF Max
<1> DEFINE k == Max(H)
<1>8. k \in 1 .. m /\ headers[k].at = mread /\ NewestHeader = headers[k]
  BY <1>2, <1>7, Zenon DEF NewestHeader, H
<1>9. k \in H /\ \A y \in H : k >= y
  BY <1>7, Zenon
<1> HIDE DEF k, G
<1>10. ASSUME NEW j \in DOMAIN headers, j > k
       PROVE  headers[j].at > headers[k].at /\ headers[j].at >= mread + 1
  <2>1. headers[k].at <= headers[j].at
    BY <1>1, <1>8, <1>10, <1>o
  <2>2. headers[j].at # mread
    <3>1. headers[j].at = mread => k >= j
      BY <1>1, <1>2, <1>9, Zenon
    <3> QED
      BY <1>1, <1>8, <1>10, <3>1
  <2> QED
    BY <1>1, <1>8, <2>1, <2>2
<1>11. Effective(k)
  BY <1>10, Zenon DEF Effective
<1>12. headers[k].at < mread + 1
  BY <1>8
<1>13. Newest(k, mread + 1)
  BY <1>10, <1>12, Zenon DEF Newest
<1> QED
  BY <1>1, <1>8, <1>11, <1>13, Zenon

(* What decode_mac makes of one item. *)
LEMMA Collected1 ==
    ASSUME NEW f, NEW n, NEW symbols, NEW meta, Collect(f, n, symbols, meta)
    PROVE  \/ /\ n >= f.nsym /\ copied' = n /\ rxSymbols' = symbols
              /\ mdecodes' = mdecodes
           \/ /\ ~(n >= f.nsym) /\ copied' = n + 1
              /\ rxSymbols' = Append(symbols, items[mread + 1])
              /\ \/ n + 1 # f.nsym /\ mdecodes' = mdecodes
                 \/ /\ n + 1 = f.nsym
                    /\ \E d : /\ mdecodes' = Append(mdecodes, d) /\ d.frame = f.frame
                              /\ d.meta = meta /\ d.symbols = rxSymbols'
<1>1. CASE n >= f.nsym
  BY <1>1, Zenon DEF Collect
<1>2. CASE ~(n >= f.nsym) /\ n + 1 # f.nsym
  BY <1>2, Zenon DEF Collect
<1>3. CASE ~(n >= f.nsym) /\ n + 1 = f.nsym
  <2>1. /\ copied' = n + 1 /\ rxSymbols' = Append(symbols, items[mread + 1])
        /\ Decode(f, meta, rxSymbols')
    BY <1>3, Zenon DEF Collect
  <2>2. mdecodes' = Append(mdecodes, [frame |-> f.frame, meta |-> meta,
                                      symbols |-> rxSymbols', bytes |-> f.bytes])
    BY <2>1, Zenon DEF Decode, Decoded
  <2>3. \E d : /\ mdecodes' = Append(mdecodes, d) /\ d.frame = f.frame
               /\ d.meta = meta /\ d.symbols = rxSymbols'
    BY <2>2
  <2> QED
    BY <1>3, <2>1, <2>3, Zenon
<1> QED
  BY <1>1, <1>2, <1>3, Zenon

(* The last symbol of frame k, if the next item is one. *)
EndsHere(k) == /\ Accepts(headers[k]) /\ headers[k].at + HeaderNSym(k) = mread + 1
               /\ \A j \in DOMAIN headers : j > k => headers[j].at >= mread + 1

LEMMA CollectKeeps ==
    ASSUME EqInv, MacSafe, NextItem, UNCHANGED symbolVars,
           dFrame'.frame \in Nat, dFrame'.nsym \in Nat,
           NEW n \in Int, NEW symbols \in Seq(Item), Collect(dFrame', n, symbols, dMeta'),
           \A d \in DOMAIN mdecodes :
               /\ mdecodes[d].frame <= dFrame'.frame
               /\ mdecodes[d].frame = dFrame'.frame => n >= dFrame'.nsym,
           \A i \in DOMAIN symbols : Owns(headers, symbols[i], i, dFrame'.frame),
           ~(n >= dFrame'.nsym) =>
               Owns(headers, items[mread + 1], Len(symbols) + 1, dFrame'.frame),
           \A k \in DOMAIN headers : EndsHere(k) =>
               /\ ~(n >= dFrame'.nsym) /\ n + 1 = dFrame'.nsym
               /\ dFrame'.frame = headers[k].frame /\ dMeta' = headers[k].frame
               /\ items[mread + 1].frame = headers[k].frame
               /\ \A i \in DOMAIN symbols : symbols[i].frame = headers[k].frame
    PROVE  /\ MacInv' /\ DecodedInv'
           /\ \A i \in DOMAIN rxSymbols' : Owns(headers', rxSymbols'[i], i, dFrame'.frame)
<1>s. SymbolTypeOK
  BY Zenon DEF EqInv, HeadersInv
<1>b. /\ Len(items) \in Nat /\ DOMAIN items = 1 .. Len(items)
      /\ \A p \in DOMAIN items : items[p] \in Item
      /\ \A k \in DOMAIN headers : headers[k].at \in Nat
  BY <1>s, BufferNow
<1>m. /\ mread \in Nat /\ mread < Len(items) /\ mread' = mread + 1
      /\ \E S : mdecodes \in Seq(S)
      /\ items' = items /\ headers' = headers
  BY Zenon DEF MacSafe, MacInv, NextItem, symbolVars
<1>i. items[mread + 1] \in Item
  BY <1>b, <1>m
<1>a. /\ symbols \in Seq(Item) /\ Len(symbols) \in Nat /\ DOMAIN symbols = 1 .. Len(symbols)
      /\ Append(symbols, items[mread + 1]) \in Seq(Item)
      /\ DOMAIN Append(symbols, items[mread + 1]) = 1 .. Len(symbols) + 1
      /\ \A i \in 1 .. Len(symbols) : Append(symbols, items[mread + 1])[i] = symbols[i]
      /\ Append(symbols, items[mread + 1])[Len(symbols) + 1] = items[mread + 1]
  BY <1>i, Added
<1> DEFINE x == items[mread + 1]
           l == Len(symbols)
           f == dFrame'.frame
           w == dFrame'.nsym
<1>f. /\ f \in Nat /\ w \in Nat /\ l \in Nat
      /\ ~(n >= w) => Owns(headers, x, l + 1, f)
      /\ \A i \in 1 .. l : Owns(headers, symbols[i], i, f)
      /\ \A d \in DOMAIN mdecodes : /\ mdecodes[d].frame <= f
                                    /\ mdecodes[d].frame = f => n >= w
      /\ \A k \in DOMAIN headers : EndsHere(k) =>
               /\ ~(n >= w) /\ n + 1 = w
               /\ f = headers[k].frame /\ dMeta' = headers[k].frame
               /\ x.frame = headers[k].frame
               /\ \A i \in 1 .. l : symbols[i].frame = headers[k].frame
  BY <1>a, Zenon
<1>c. \/ /\ n >= w /\ copied' = n /\ rxSymbols' = symbols /\ mdecodes' = mdecodes
      \/ /\ ~(n >= w) /\ copied' = n + 1 /\ rxSymbols' = Append(symbols, x)
         /\ \/ n + 1 # w /\ mdecodes' = mdecodes
            \/ /\ n + 1 = w
               /\ \E d : /\ mdecodes' = Append(mdecodes, d) /\ d.frame = f
                         /\ d.meta = dMeta' /\ d.symbols = rxSymbols'
  <2>1. Collect(dFrame', n, symbols, dMeta')
    OBVIOUS
  <2> QED
    BY <2>1, Collected1
<1>x. /\ DOMAIN symbols = 1 .. l /\ Append(symbols, x) \in Seq(Item)
      /\ DOMAIN Append(symbols, x) = 1 .. l + 1
      /\ \A i \in 1 .. l : Append(symbols, x)[i] = symbols[i]
      /\ Append(symbols, x)[l + 1] = x
  BY <1>a, Zenon
<1> HIDE DEF x, l, f, w
<1>1. /\ rxSymbols' \in Seq(Item) /\ copied' \in Int
      /\ \A i \in DOMAIN rxSymbols' : Owns(headers, rxSymbols'[i], i, f)
  <2>1. CASE n >= w /\ copied' = n /\ rxSymbols' = symbols
    BY <1>f, <1>x, <2>1, Zenon
  <2>2. CASE ~(n >= w) /\ copied' = n + 1 /\ rxSymbols' = Append(symbols, x)
    <3>1. \A i \in 1 .. l + 1 : i \in 1 .. l \/ i = l + 1
      BY <1>f
    <3>2. \A i \in 1 .. l + 1 : Owns(headers, Append(symbols, x)[i], i, f)
      BY <1>f, <1>x, <2>2, <3>1, Zenon
    <3>3. n + 1 \in Int
      OBVIOUS
    <3> QED
      BY <1>x, <2>2, <3>2, <3>3, Zenon
  <2> QED
    BY <1>c, <2>1, <2>2, Zenon
<1>2. \A d \in DOMAIN mdecodes : /\ mdecodes[d].frame \in Nat
                                 /\ mdecodes[d].frame <= f
                                 /\ mdecodes[d].frame = f => n >= w
  BY <1>f, Zenon DEF MacSafe, DecodedInv
<1>3. copied' >= n /\ (n >= w => copied' >= w)
  BY <1>c, <1>f
<1>4. /\ \A d \in DOMAIN mdecodes : \A i \in DOMAIN mdecodes[d].symbols :
              Owns(headers, mdecodes[d].symbols[i], i, mdecodes[d].frame)
      /\ CompleteFramesDecoded
  BY OwnSymbolsAre, Zenon DEF MacSafe, DecodedInv
<1>5. ASSUME NEW k \in DOMAIN headers, Accepts(headers[k]),
             headers[k].at + HeaderNSym(k) <= mread + 1,
             \A j \in DOMAIN headers : j > k => headers[j].at >= headers[k].at + HeaderNSym(k)
      PROVE  \/ EndsHere(k)
             \/ \E d \in DOMAIN mdecodes :
                   /\ mdecodes[d].frame = headers[k].frame
                   /\ mdecodes[d].meta = headers[k].frame
                   /\ \A s \in DOMAIN mdecodes[d].symbols :
                         mdecodes[d].symbols[s].frame = headers[k].frame
  <2>1. HeaderNSym(k) \in Nat /\ headers[k].at \in Nat
    BY <1>5, <1>b, AcceptedSize
  <2>2. CASE headers[k].at + HeaderNSym(k) <= mread
    BY <1>4, <1>5, <2>2, Zenon DEF CompleteFramesDecoded
  <2>3. CASE headers[k].at + HeaderNSym(k) = mread + 1
    BY <1>5, <2>3, Zenon DEF EndsHere
  <2> QED
    BY <1>5, <1>m, <2>1, <2>2, <2>3
<1>6. \A k : HeaderNSym(k)' = HeaderNSym(k)
  BY <1>m, Zenon DEF HeaderNSym
<1>7. CASE mdecodes' = mdecodes /\ (n >= w \/ n + 1 # w)
  <2>1. \A d \in DOMAIN mdecodes' : /\ mdecodes'[d].frame \in Nat
                                    /\ mdecodes'[d].frame <= f
                                    /\ mdecodes'[d].frame = f => copied' >= w
    BY <1>2, <1>3, <1>7, Zenon
  <2>2. DecodesOwnSymbols'
    <3>1. \A d \in DOMAIN mdecodes' : \A i \in DOMAIN mdecodes'[d].symbols :
              Owns(headers', mdecodes'[d].symbols[i], i, mdecodes'[d].frame)
      BY <1>4, <1>7, <1>m, Zenon
    <3> QED
      BY <3>1, OwnSymbolsAre, Zenon
  <2>3. \A k \in DOMAIN headers : ~EndsHere(k)
    BY <1>7, <1>f, Zenon
  <2>4. CompleteFramesDecoded'
    <3>1. ASSUME NEW k \in DOMAIN headers', Accepts(headers'[k]),
                 headers'[k].at + HeaderNSym(k)' <= mread',
                 \A j \in DOMAIN headers' : j > k =>
                     headers'[j].at >= headers'[k].at + HeaderNSym(k)'
          PROVE  \E d \in DOMAIN mdecodes' :
                    /\ mdecodes'[d].frame = headers'[k].frame
                    /\ mdecodes'[d].meta = headers'[k].frame
                    /\ \A s \in DOMAIN mdecodes'[d].symbols :
                          mdecodes'[d].symbols[s].frame = headers'[k].frame
      <4>1. /\ headers' = headers /\ mdecodes' = mdecodes
            /\ k \in DOMAIN headers /\ Accepts(headers[k])
            /\ headers[k].at + HeaderNSym(k) <= mread + 1
            /\ \A j \in DOMAIN headers : j > k =>
                     headers[j].at >= headers[k].at + HeaderNSym(k)
        BY <1>6, <1>7, <1>m, <3>1, Zenon
      <4> QED
        BY <1>5, <2>3, <4>1, Zenon
    <3>2. \A c, d \in DOMAIN mdecodes' : c < d => mdecodes'[c].frame < mdecodes'[d].frame
      BY <1>4, <1>7, Zenon DEF CompleteFramesDecoded
    <3> QED
      BY <3>1, <3>2, Zenon DEF CompleteFramesDecoded
  <2>5. DecodedInv'
    BY <2>1, <2>2, <2>4, Zenon DEF DecodedInv, f, w
  <2>6. MacInv'
    <3>1. mread' \in Nat /\ mread' <= Len(items')
      BY <1>b, <1>m
    <3> QED
      BY <1>1, <1>7, <1>f, <1>m, <3>1, Zenon DEF MacInv, f, w
  <2> QED
    BY <1>1, <1>m, <2>5, <2>6, Zenon DEF f
<1>8. CASE /\ ~(n >= w) /\ n + 1 = w /\ copied' = n + 1 /\ rxSymbols' = Append(symbols, x)
           /\ \E d : /\ mdecodes' = Append(mdecodes, d) /\ d.frame = f
                     /\ d.meta = dMeta' /\ d.symbols = rxSymbols'
  <2>1. PICK d : /\ mdecodes' = Append(mdecodes, d) /\ d.frame = f
                 /\ d.meta = dMeta' /\ d.symbols = rxSymbols'
    BY <1>8, Zenon
  <2> DEFINE c == Len(mdecodes)
  <2>2. /\ \E S : mdecodes' \in Seq(S)
        /\ c \in Nat /\ DOMAIN mdecodes = 1 .. c
        /\ DOMAIN mdecodes' = 1 .. c + 1
        /\ \A k \in 1 .. c : mdecodes'[k] = mdecodes[k]
        /\ mdecodes'[c + 1] = d
    <3>1. PICK S : mdecodes \in Seq(S)
      BY <1>m, Zenon
    <3>2. /\ Append(mdecodes, d) \in Seq(S \cup {d}) /\ Len(mdecodes) \in Nat
          /\ DOMAIN mdecodes = 1 .. Len(mdecodes)
          /\ DOMAIN Append(mdecodes, d) = 1 .. Len(mdecodes) + 1
          /\ \A k \in 1 .. Len(mdecodes) : Append(mdecodes, d)[k] = mdecodes[k]
          /\ Append(mdecodes, d)[Len(mdecodes) + 1] = d
      BY <3>1, Appended
    <3> QED
      BY <2>1, <3>2, Zenon
  <2> HIDE DEF c
  <2>3. \A k \in 1 .. c + 1 : k \in 1 .. c \/ k = c + 1
    BY <2>2
  <2>4. ASSUME NEW k \in DOMAIN mdecodes'
        PROVE  \/ k \in DOMAIN mdecodes /\ mdecodes'[k] = mdecodes[k]
               \/ k = c + 1 /\ mdecodes'[k] = d
    BY <2>2, <2>3, Zenon
  <2>5. ASSUME NEW k \in DOMAIN mdecodes'
        PROVE  /\ mdecodes'[k].frame \in Nat
               /\ mdecodes'[k].frame <= f
               /\ mdecodes'[k].frame = f => copied' >= w
    <3>1. CASE k \in DOMAIN mdecodes /\ mdecodes'[k] = mdecodes[k]
      BY <1>2, <1>3, <3>1, Zenon
    <3>2. CASE mdecodes'[k] = d
      BY <1>8, <1>f, <2>1, <3>2
    <3> QED
      BY <2>4, <3>1, <3>2
  <2>6. \A i \in DOMAIN d.symbols : Owns(headers', d.symbols[i], i, d.frame)
    BY <1>1, <1>m, <2>1, Zenon
  <2>7. DecodesOwnSymbols'
    <3>1. \A k \in DOMAIN mdecodes' : \A i \in DOMAIN mdecodes'[k].symbols :
              Owns(headers', mdecodes'[k].symbols[i], i, mdecodes'[k].frame)
      BY <1>4, <1>m, <2>4, <2>6, Zenon
    <3> QED
      BY <3>1, OwnSymbolsAre, Zenon
  <2>8. ASSUME NEW i \in DOMAIN mdecodes', NEW j \in DOMAIN mdecodes', i < j
        PROVE  mdecodes'[i].frame < mdecodes'[j].frame
    <3>1. i \in 1 .. c /\ mdecodes'[i] = mdecodes[i] /\ i \in DOMAIN mdecodes
      <4>1. i \in 1 .. c
        BY <2>2, <2>8
      <4> QED
        BY <2>2, <4>1
    <3>2. CASE j \in DOMAIN mdecodes /\ mdecodes'[j] = mdecodes[j]
      BY <1>4, <2>8, <3>1, <3>2, Zenon DEF CompleteFramesDecoded
    <3>3. CASE mdecodes'[j] = d
      <4>1. mdecodes[i].frame \in Nat /\ mdecodes[i].frame <= f /\ mdecodes[i].frame # f
        BY <1>2, <1>8, <3>1, Zenon
      <4>2. mdecodes[i].frame < f
        BY <1>f, <4>1
      <4> QED
        BY <2>1, <3>1, <3>3, <4>2, Zenon
    <3> QED
      BY <2>4, <3>2, <3>3
  <2>9. ASSUME NEW k \in DOMAIN headers, EndsHere(k)
        PROVE  /\ d.frame = headers[k].frame /\ d.meta = headers[k].frame
               /\ \A s \in DOMAIN d.symbols : d.symbols[s].frame = headers[k].frame
    <3>1. /\ f = headers[k].frame /\ dMeta' = headers[k].frame /\ x.frame = headers[k].frame
          /\ \A i \in 1 .. l : symbols[i].frame = headers[k].frame
      BY <1>f, <2>9, Zenon
    <3>2. \A i \in 1 .. l + 1 : i \in 1 .. l \/ i = l + 1
      BY <1>f
    <3>3. \A i \in 1 .. l + 1 : Append(symbols, x)[i].frame = headers[k].frame
      BY <1>x, <3>1, <3>2, Zenon
    <3> QED
      <4>1. d.symbols = Append(symbols, x) /\ DOMAIN d.symbols = 1 .. l + 1
        BY <1>8, <1>x, <2>1, Zenon
      <4>2. d.frame = headers[k].frame /\ d.meta = headers[k].frame
        BY <2>1, <3>1, Zenon
      <4> QED
        BY <3>3, <4>1, <4>2, Zenon
  <2>10. c + 1 \in DOMAIN mdecodes' /\ \A k \in DOMAIN mdecodes : /\ k \in DOMAIN mdecodes'
                                                                 /\ mdecodes'[k] = mdecodes[k]
    BY <2>2
  <2>11. ASSUME NEW k \in DOMAIN headers', Accepts(headers'[k]),
                headers'[k].at + HeaderNSym(k)' <= mread',
                \A j \in DOMAIN headers' : j > k =>
                   headers'[j].at >= headers'[k].at + HeaderNSym(k)'
         PROVE  \E e \in DOMAIN mdecodes' :
                   /\ mdecodes'[e].frame = headers'[k].frame
                   /\ mdecodes'[e].meta = headers'[k].frame
                   /\ \A s \in DOMAIN mdecodes'[e].symbols :
                         mdecodes'[e].symbols[s].frame = headers'[k].frame
    <3>1. k \in DOMAIN headers /\ headers' = headers
      BY <1>m, <2>11, Zenon
    <3>2. \/ EndsHere(k)
          \/ \E e \in DOMAIN mdecodes :
                   /\ mdecodes[e].frame = headers[k].frame
                   /\ mdecodes[e].meta = headers[k].frame
                   /\ \A s \in DOMAIN mdecodes[e].symbols :
                         mdecodes[e].symbols[s].frame = headers[k].frame
      BY <1>5, <1>6, <1>m, <2>11, <3>1, Zenon
    <3>3. CASE EndsHere(k)
      BY <2>2, <2>9, <2>10, <3>1, <3>3, Zenon
    <3>4. CASE \E e \in DOMAIN mdecodes :
                   /\ mdecodes[e].frame = headers[k].frame
                   /\ mdecodes[e].meta = headers[k].frame
                   /\ \A s \in DOMAIN mdecodes[e].symbols :
                         mdecodes[e].symbols[s].frame = headers[k].frame
      <4>1. PICK e \in DOMAIN mdecodes :
                   /\ mdecodes[e].frame = headers[k].frame
                   /\ mdecodes[e].meta = headers[k].frame
                   /\ \A s \in DOMAIN mdecodes[e].symbols :
                         mdecodes[e].symbols[s].frame = headers[k].frame
        BY <3>4, Zenon
      <4>2. e \in DOMAIN mdecodes' /\ mdecodes'[e] = mdecodes[e]
        BY <2>10, Zenon
      <4> QED
        BY <3>1, <4>1, <4>2
    <3> QED
      BY <3>2, <3>3, <3>4, Zenon
  <2>12. CompleteFramesDecoded'
    BY <2>8, <2>11, Zenon DEF CompleteFramesDecoded
  <2>13. DecodedInv'
    BY <2>5, <2>7, <2>12, Zenon DEF DecodedInv, f, w
  <2>14. MacInv'
    <3>1. mread' \in Nat /\ mread' <= Len(items')
      BY <1>b, <1>m
    <3> QED
      BY <1>1, <1>f, <1>m, <2>2, <3>1, Zenon DEF MacInv, f, w
  <2> QED
    BY <1>1, <1>m, <2>13, <2>14, Zenon DEF f
<1> QED
  BY <1>7, <1>8, <1>c, Zenon

LEMMA NewestEffective ==
    ASSUME EqInv, NEW p \in Int, NEW k \in DOMAIN headers, Newest(k, p)
    PROVE  Effective(k)
<1>s. SymbolTypeOK
  BY Zenon DEF EqInv, HeadersInv
<1>1. SUFFICES ASSUME NEW j \in DOMAIN headers, j > k PROVE headers[j].at > headers[k].at
  BY DEF Effective
<1>2. headers[j].at >= p /\ headers[k].at < p
  BY <1>1, Zenon DEF Newest
<1>3. headers[j].at \in Nat /\ headers[k].at \in Nat
  BY <1>s, BufferNow
<1> QED
  BY <1>2, <1>3

(* The next item belongs to the newest header in front of it. *)
LEMMA NextItemIs ==
    ASSUME EqInv, OrderInv, mread \in Nat, mread < Len(items)
    PROVE  \E j \in DOMAIN headers :
               /\ Newest(j, mread + 1) /\ Effective(j)
               /\ items[mread + 1].frame = headers[j].frame
               /\ items[mread + 1].sym = (mread + 1) - headers[j].at + 2
<1>s. SymbolTypeOK /\ SymbolsOwned
  BY Zenon DEF EqInv, HeadersInv
<1> DEFINE p == mread + 1
<1>1. p \in DOMAIN items /\ p \in Int
  BY <1>s, BufferNow
<1>p. p = mread + 1
  OBVIOUS
<1> HIDE DEF p
<1>2. PICK j \in DOMAIN headers :
          /\ headers[j].at < p
          /\ \A i \in DOMAIN headers : i > j => headers[i].at >= p
  BY <1>s, <1>1, Zenon DEF SymbolsOwned
<1>3. Newest(j, p)
  BY <1>2, Zenon DEF Newest
<1>4. Effective(j)
  BY <1>1, <1>3, NewestEffective, Zenon
<1>5. items[p].frame = headers[j].frame /\ items[p].sym = p - headers[j].at + 2
  BY <1>1, <1>3, Zenon DEF OrderInv
<1>6. \A i : i = p => (/\ Newest(j, i) /\ items[i].frame = headers[j].frame
                      /\ items[i].sym = i - headers[j].at + 2)
  BY <1>3, <1>5
<1>7. /\ Newest(j, mread + 1) /\ items[mread + 1].frame = headers[j].frame
      /\ items[mread + 1].sym = (mread + 1) - headers[j].at + 2
  <2>1. mread + 1 = p => (/\ Newest(j, mread + 1) /\ items[mread + 1].frame = headers[j].frame
                          /\ items[mread + 1].sym = (mread + 1) - headers[j].at + 2)
    BY <1>6, Zenon
  <2> QED
    BY <1>p, <2>1
<1> QED
  BY <1>4, <1>7, Zenon

LEMMA Differences ==
    ASSUME NEW a, NEW b, NEW c, NEW d, a = c, b = d
    PROVE  a - b = c - d
OBVIOUS

(* An item that starts no accepted frame. *)
LEMMA CopyKeeps ==
    ASSUME EqInv, OrderInv, MacSafe, NextItem, UNCHANGED symbolVars, dFrame' = dFrame,
           Collect(dFrame, copied, rxSymbols, dMeta'),
           \A k \in DOMAIN headers : Newest(k, mread + 1) => dMeta' = headers[k].frame,
           \A k \in DOMAIN headers :
               Effective(k) /\ headers[k].at = mread => ~Accepts(headers[k])
    PROVE  MacSafe'
<1>s. SymbolTypeOK
  BY Zenon DEF EqInv, HeadersInv
<1>b. /\ Len(items) \in Nat /\ DOMAIN items = 1 .. Len(items)
      /\ DOMAIN headers = 1 .. Len(headers) /\ Len(headers) \in Nat
      /\ \A k \in DOMAIN headers : headers[k].at \in Nat /\ headers[k].frame \in Nat
  BY <1>s, BufferNow
<1>n. /\ mread \in Nat /\ mread < Len(items) /\ mread' = mread + 1
      /\ dFrame.frame \in Nat /\ dFrame.nsym \in Nat /\ copied \in Int
  BY Zenon DEF MacSafe, MacInv, NextItem
<1>m. /\ mread \in Nat /\ mread < Len(items) /\ mread' = mread + 1
      /\ dFrame.frame \in Nat /\ dFrame.nsym \in Nat /\ copied \in Int
      /\ rxSymbols \in Seq(Item) /\ items' = items /\ headers' = headers
      /\ dFrame.frame = 0 => \A k \in DOMAIN headers : Seen(k) => ~Accepts(headers[k])
      /\ dFrame.frame > 0 => \E k \in DOMAIN headers : Collecting(k)
      /\ \A i \in DOMAIN rxSymbols : Owns(headers, rxSymbols[i], i, dFrame.frame)
      /\ \A d \in DOMAIN mdecodes : /\ mdecodes[d].frame <= dFrame.frame
                                    /\ mdecodes[d].frame = dFrame.frame => copied >= dFrame.nsym
  BY Zenon DEF MacSafe, MacInv, CollectInv, DecodedInv, NextItem, symbolVars
<1>d. Len(rxSymbols) \in Nat /\ DOMAIN rxSymbols = 1 .. Len(rxSymbols)
  BY <1>m, LenProperties
<1> DEFINE x == items[mread + 1]
<1>1. PICK j \in DOMAIN headers :
          /\ Newest(j, mread + 1) /\ Effective(j)
          /\ x.frame = headers[j].frame /\ x.sym = (mread + 1) - headers[j].at + 2
  BY <1>m, NextItemIs
<1>x. x = items[mread + 1]
  OBVIOUS
<1> HIDE DEF x
<1>2. /\ headers[j].at < mread + 1
      /\ \A i \in DOMAIN headers : i > j => headers[i].at >= mread + 1
  BY <1>1, Zenon DEF Newest
<1>3. \A k \in DOMAIN headers : Seen(k)' <=> Effective(k) /\ headers[k].at < mread + 1
  BY <1>m, Zenon DEF Seen, Effective
<1>4. ASSUME NEW k \in DOMAIN headers, Effective(k), headers[k].at < mread + 1
      PROVE  Seen(k) \/ ~Accepts(headers[k])
  <2>1. CASE headers[k].at = mread
    BY <1>4, <2>1
  <2>2. CASE headers[k].at # mread
    <3>1. headers[k].at < mread
      BY <1>4, <1>b, <1>n, <2>2, ReadNow, Zenon
    <3> QED
      BY <1>4, <3>1, Zenon DEF Seen
  <2> QED
    BY <2>1, <2>2
<1>q. ASSUME NEW q \in DOMAIN headers, Collecting(q)
      PROVE  /\ Effective(q) /\ headers[q].at < mread /\ Accepts(headers[q])
             /\ headers[q].at \in Nat /\ HeaderNSym(q) \in Nat
             /\ \A k \in DOMAIN headers : k > q /\ Seen(k) => ~Accepts(headers[k])
             /\ dFrame.frame = headers[q].frame /\ dFrame.nsym = HeaderNSym(q)
             /\ copied = Len(rxSymbols)
             /\ copied = IF mread - headers[q].at < HeaderNSym(q) THEN mread - headers[q].at
                         ELSE HeaderNSym(q)
             /\ \A i \in 1 .. copied : rxSymbols[i] = items[headers[q].at + i]
             /\ ~(q > j)
  <2>1. /\ Effective(q) /\ headers[q].at < mread /\ Accepts(headers[q])
        /\ \A k \in DOMAIN headers : k > q /\ Seen(k) => ~Accepts(headers[k])
        /\ dFrame.frame = headers[q].frame /\ dFrame.nsym = HeaderNSym(q)
        /\ copied = Len(rxSymbols)
        /\ copied = IF mread - headers[q].at < HeaderNSym(q) THEN mread - headers[q].at
                    ELSE HeaderNSym(q)
        /\ \A i \in 1 .. copied : rxSymbols[i] = items[headers[q].at + i]
    BY <1>q, Zenon DEF Collecting, Seen
  <2>2. headers[q].at \in Nat /\ HeaderNSym(q) \in Nat
    BY <1>b, <2>1, AcceptedSize
  <2>3. ~(q > j)
    BY <1>2, <1>m, <2>1, <2>2
  <2> QED
    BY <2>1, <2>2, <2>3, Zenon
<1>5. ASSUME ~(copied >= dFrame.nsym)
      PROVE  Owns(headers, x, Len(rxSymbols) + 1, dFrame.frame)
  <2>1. CASE dFrame.frame = 0
    <3>1. ~Accepts(headers[j])
      BY <1>1, <1>2, <1>4, <1>m, <2>1, Zenon
    <3>2. Refuses(headers, x.frame)
      BY <1>1, <3>1, Zenon DEF Refuses
    <3>3. headers[j].frame \in 1 .. frame
      BY Zenon DEF OrderInv
    <3>4. x.frame > dFrame.frame
      BY <1>1, <2>1, <3>3
    <3> QED
      BY <3>2, <3>4, Zenon DEF Owns
  <2>2. CASE dFrame.frame > 0
    <3>1. PICK q \in DOMAIN headers : Collecting(q)
      BY <1>m, <2>2
    <3>2. CASE q = j
      <4>1. x.frame = dFrame.frame
        BY <1>1, <1>q, <3>1, <3>2
      <4>2. x.sym = Len(rxSymbols) + 1 + 2
        BY <1>1, <1>5, <1>q, <1>m, <3>1, <3>2
      <4> QED
        BY <4>1, <4>2, Zenon DEF Owns
    <3>3. CASE q # j
      <4>1. q < j /\ j > q
        BY <1>b, <1>q, <3>1, <3>3
      <4>2. ~Accepts(headers[j])
        BY <1>1, <1>2, <1>4, <1>q, <3>1, <4>1, Zenon
      <4>3. headers[q].frame < headers[j].frame
        BY <4>1, Zenon DEF OrderInv
      <4>4. x.frame > dFrame.frame
        BY <1>1, <1>b, <1>q, <3>1, <4>3
      <4>5. Refuses(headers, x.frame)
        BY <1>1, <4>2, Zenon DEF Refuses
      <4> QED
        BY <4>4, <4>5, Zenon DEF Owns
    <3> QED
      BY <3>2, <3>3
  <2> QED
    BY <1>m, <2>1, <2>2
<1>6. ASSUME NEW k \in DOMAIN headers, EndsHere(k)
      PROVE  /\ ~(copied >= dFrame.nsym) /\ copied + 1 = dFrame.nsym
             /\ dFrame.frame = headers[k].frame /\ dMeta' = headers[k].frame
             /\ x.frame = headers[k].frame
             /\ \A i \in DOMAIN rxSymbols : rxSymbols[i].frame = headers[k].frame
  <2>1. /\ Accepts(headers[k]) /\ headers[k].at + HeaderNSym(k) = mread + 1
        /\ \A i \in DOMAIN headers : i > k => headers[i].at >= mread + 1
    BY <1>6, Zenon DEF EndsHere
  <2>2. HeaderNSym(k) \in Nat \ {0} /\ headers[k].at \in Nat
    BY <1>b, <2>1, AcceptedSize
  <2>3. headers[k].at < mread + 1
    BY <2>1, <2>2, <1>n
  <2>4. Newest(k, mread + 1)
    BY <2>1, <2>3, Zenon DEF Newest
  <2>5. Effective(k)
    <3>1. mread + 1 \in Int
      BY <1>m
    <3> QED
      BY <2>4, <3>1, NewestEffective, Zenon
  <2>6. k = j
    <3>1. mread + 1 \in Int
      BY <1>m
    <3> QED
      BY <1>1, <2>4, <3>1, NewestOnly, Zenon
  <2>7. Seen(k)
    BY <1>4, <2>1, <2>3, <2>5, Zenon
  <2>8. dFrame.frame > 0
    <3>1. dFrame.frame # 0
      BY <1>m, <2>1, <2>7, Zenon
    <3> QED
      BY <1>m, <3>1
  <2>9. PICK q \in DOMAIN headers : Collecting(q)
    BY <1>m, <2>8
  <2>10. q = k
    <3>1. ~(q < k)
      <4>1. ~(k > q)
        BY <1>q, <2>1, <2>7, <2>9, Zenon
      <4> QED
        BY <1>b, <4>1
    <3>2. ~(q > k)
      BY <1>q, <2>6, <2>9
    <3> QED
      BY <1>b, <3>1, <3>2
  <2>11. ~(copied >= dFrame.nsym) /\ copied + 1 = dFrame.nsym
    <3>1. /\ dFrame.nsym = HeaderNSym(k)
          /\ mread - headers[k].at < HeaderNSym(k) => copied = mread - headers[k].at
          /\ ~(mread - headers[k].at < HeaderNSym(k)) => copied = HeaderNSym(k)
      BY <1>q, <2>9, <2>10, Zenon
    <3>2. ~(copied >= HeaderNSym(k)) /\ copied + 1 = HeaderNSym(k)
      <4>1. headers[k].at + HeaderNSym(k) = mread + 1 /\ mread \in Nat
        BY <1>n, <2>1, Zenon
      <4> QED
        BY <2>2, <3>1, <4>1, CopiedAll
    <3> QED
      BY <3>1, <3>2, Zenon
  <2>12. ASSUME NEW i \in DOMAIN rxSymbols PROVE rxSymbols[i].frame = headers[k].frame
    <3>1. i \in 1 .. copied /\ copied \in Nat /\ i \in Nat \ {0}
      BY <1>d, <1>q, <2>9, <2>12
    <3>2. rxSymbols[i] = items[headers[k].at + i]
      BY <1>q, <2>9, <2>10, <3>1
    <3>3. headers[k].at + i \in DOMAIN items /\ headers[k].at + i <= mread + 1
      <4>1. /\ mread - headers[k].at < HeaderNSym(k) => copied = mread - headers[k].at
            /\ ~(mread - headers[k].at < HeaderNSym(k)) => copied = HeaderNSym(k)
        BY <1>q, <2>9, <2>10, Zenon
      <4>2. mread <= Len(items)
        BY <1>b, <1>n
      <4>3. HeaderNSym(k) \in Nat
        BY <2>2
      <4>4. headers[k].at + i \in 1 .. Len(items) /\ headers[k].at + i <= mread
        BY <1>b, <1>n, <2>2, <3>1, <4>1, <4>2, <4>3, InFront, Zenon
      <4>5. headers[k].at + i <= mread + 1
        <5> DEFINE p == headers[k].at + i
        <5>1. p \in Nat /\ p <= mread /\ mread \in Nat
          BY <1>n, <2>2, <3>1, <4>4
        <5> HIDE DEF p
        <5>2. p <= mread + 1
          BY <5>1
        <5> QED
          BY <5>2 DEF p
      <4> QED
        BY <1>b, <4>4, <4>5, Zenon
    <3> DEFINE p == headers[k].at + i
    <3>4. headers[k].at < p
      BY <2>2, <3>1
    <3>5. \A h \in DOMAIN headers : h > k => headers[h].at >= p
      <4>1. \A h \in DOMAIN headers : h > k => headers[h].at >= mread + 1 /\ headers[h].at \in Nat
        BY <1>b, <2>1, Zenon
      <4>2. p <= mread + 1 /\ p \in Nat
        BY <2>2, <3>1, <3>3
      <4> HIDE DEF p
      <4> QED
        BY <1>n, <4>1, <4>2
    <3>p. p = headers[k].at + i
      OBVIOUS
    <3> HIDE DEF p
    <3>6. Newest(k, p)
      BY <3>4, <3>5, Zenon DEF Newest
    <3>7. p \in DOMAIN items
      BY <3>3, <3>p
    <3>8. items[p].frame = headers[k].frame
      BY <3>6, <3>7, Zenon DEF OrderInv
    <3> QED
      BY <3>2, <3>8, <3>p
  <2>13. dFrame.frame = headers[k].frame
    BY <1>q, <2>9, <2>10
  <2>14. x.frame = headers[k].frame
    BY <1>1, <2>6
  <2> QED
    BY <2>4, <2>11, <2>12, <2>13, <2>14
<1>7. /\ MacInv' /\ DecodedInv'
      /\ \A i \in DOMAIN rxSymbols' : Owns(headers', rxSymbols'[i], i, dFrame'.frame)
  <2>1. /\ dFrame'.frame \in Nat /\ dFrame'.nsym \in Nat
        /\ Collect(dFrame', copied, rxSymbols, dMeta')
    BY <1>m, Zenon
  <2>2. /\ \A d \in DOMAIN mdecodes :
               /\ mdecodes[d].frame <= dFrame'.frame
               /\ mdecodes[d].frame = dFrame'.frame => copied >= dFrame'.nsym
        /\ \A i \in DOMAIN rxSymbols : Owns(headers, rxSymbols[i], i, dFrame'.frame)
    BY <1>m, Zenon
  <2>3. ~(copied >= dFrame'.nsym) =>
               Owns(headers, items[mread + 1], Len(rxSymbols) + 1, dFrame'.frame)
    BY <1>5, Zenon DEF x
  <2>4. \A k \in DOMAIN headers : EndsHere(k) =>
               /\ ~(copied >= dFrame'.nsym) /\ copied + 1 = dFrame'.nsym
               /\ dFrame'.frame = headers[k].frame /\ dMeta' = headers[k].frame
               /\ items[mread + 1].frame = headers[k].frame
               /\ \A i \in DOMAIN rxSymbols : rxSymbols[i].frame = headers[k].frame
    BY <1>6, Zenon DEF x
  <2> QED
    BY <1>m, <2>1, <2>2, <2>3, <2>4, CollectKeeps, Zenon
<1>8. dFrame'.frame = 0 => \A k \in DOMAIN headers' : Seen(k)' => ~Accepts(headers'[k])
  BY <1>3, <1>4, <1>m, Zenon
<1>9. ASSUME NEW q \in DOMAIN headers, Collecting(q) PROVE Collecting(q)'
  <2> DEFINE h == headers[q].at
             w == HeaderNSym(q)
             l == Len(rxSymbols)
  <2>1. /\ Effective(q) /\ h < mread /\ h \in Nat /\ w \in Nat /\ Accepts(headers[q])
        /\ dFrame.frame = headers[q].frame /\ dFrame.nsym = w
        /\ copied = l /\ l \in Nat
        /\ copied = IF mread - h < w THEN mread - h ELSE w
        /\ \A i \in 1 .. copied : rxSymbols[i] = items[h + i]
    BY <1>9, <1>d, <1>q, Zenon
  <2>2. headers' = headers /\ items' = items /\ HeaderNSym(q)' = w
    BY <1>m, Zenon DEF HeaderNSym
  <2>3. Seen(q)'
    <3>1. h < mread + 1
      BY <1>m, <2>1
    <3> QED
      BY <1>3, <2>1, <3>1, Zenon
  <2>4. \A i \in DOMAIN headers : i > q /\ Seen(i)' => ~Accepts(headers[i])
    BY <1>3, <1>4, <1>9, <1>q, Zenon
  <2>5. \/ copied >= w /\ copied' = copied /\ rxSymbols' = rxSymbols
        \/ ~(copied >= w) /\ copied' = copied + 1 /\ rxSymbols' = Append(rxSymbols, x)
    <3>1. \/ copied >= dFrame.nsym /\ copied' = copied /\ rxSymbols' = rxSymbols
          \/ /\ ~(copied >= dFrame.nsym) /\ copied' = copied + 1
             /\ rxSymbols' = Append(rxSymbols, items[mread + 1])
      <4>1. Collect(dFrame, copied, rxSymbols, dMeta')
        OBVIOUS
      <4> QED
        BY <4>1, Collected1
    <3> QED
      BY <2>1, <3>1, Zenon DEF x
  <2>a. /\ Append(rxSymbols, x) \in Seq(Item) /\ Len(Append(rxSymbols, x)) = l + 1
        /\ \A i \in 1 .. l : Append(rxSymbols, x)[i] = rxSymbols[i]
        /\ Append(rxSymbols, x)[l + 1] = x
    <3>1. x \in Item
      <4>1. mread + 1 \in DOMAIN items
        BY <1>b, <1>m
      <4> QED
        BY <1>s, <1>x, <4>1, BufferNow
    <3> QED
      BY <1>m, <3>1, Added
  <2>g. /\ h < mread /\ h \in Nat /\ w \in Nat /\ copied = l /\ l \in Nat
        /\ copied = IF mread - h < w THEN mread - h ELSE w
    BY <2>1, Zenon
  <2>b. h = headers[q].at /\ w = HeaderNSym(q) /\ dFrame' = dFrame
    OBVIOUS
  <2> HIDE DEF h, w, l
  <2>8. ASSUME Seen(q)', Accepts(headers[q]),
               \A i \in DOMAIN headers : i > q /\ Seen(i)' => ~Accepts(headers[i]),
               dFrame'.frame = headers[q].frame, dFrame'.nsym = w,
               copied' = Len(rxSymbols'),
               copied' = IF (mread + 1) - h < w THEN (mread + 1) - h ELSE w,
               \A i \in 1 .. copied' : rxSymbols'[i] = items[h + i]
        PROVE  Collecting(q)'
    <3>1. mread' - headers'[q].at = (mread + 1) - h /\ HeaderNSym(q)' = w /\ headers'[q].at = h
      <4>1. headers'[q].at = h /\ mread' = mread + 1
        BY <1>n, <2>2, <2>b, Zenon
      <4>2. mread' - headers'[q].at = (mread + 1) - h
        BY <4>1, Differences, Zenon
      <4> QED
        BY <2>2, <4>1, <4>2, Zenon
    <3> QED
      BY <2>2, <2>8, <3>1, Zenon DEF Collecting
  <2>6. CASE copied >= w /\ copied' = copied /\ rxSymbols' = rxSymbols
    <3>1. copied' = Len(rxSymbols') /\ \A i \in 1 .. copied' : rxSymbols'[i] = items[h + i]
      BY <2>1, <2>6, Zenon DEF l
    <3>2. copied' = IF (mread + 1) - h < w THEN (mread + 1) - h ELSE w
      BY <1>n, <2>g, <2>6
    <3> QED
      BY <1>n, <2>1, <2>2, <2>3, <2>4, <2>8, <2>b, <3>1, <3>2, Zenon
  <2>7. CASE ~(copied >= w) /\ copied' = copied + 1 /\ rxSymbols' = Append(rxSymbols, x)
    <3>1. copied' = Len(rxSymbols')
      BY <2>1, <2>7, <2>a
    <3>2. copied' = IF (mread + 1) - h < w THEN (mread + 1) - h ELSE w
      BY <1>n, <2>g, <2>7
    <3>3. ASSUME NEW i \in 1 .. copied' PROVE rxSymbols'[i] = items[h + i]
      <4>1. CASE i \in 1 .. l
        BY <2>1, <2>7, <2>a, <4>1
      <4>2. CASE i = l + 1
        <5>1. h + i = mread + 1
          <6>1. ~(copied >= w)
            BY <2>7
          <6>2. copied \in Nat /\ i = copied + 1
            BY <2>g, <4>2
          <6>3. h + (copied + 1) = mread + 1
            <7>1. /\ mread - h < w => copied = mread - h
                  /\ ~(mread - h < w) => copied = w
              BY <2>g, Zenon
            <7> QED
              BY <1>n, <2>g, <6>1, <6>2, <7>1, CopiedOne
          <6> QED
            BY <6>2, <6>3
        <5> QED
          BY <1>x, <2>7, <2>a, <4>2, <5>1
      <4>3. i \in 1 .. l \/ i = l + 1
        BY <2>g, <2>7, <3>3
      <4> QED
        BY <4>1, <4>2, <4>3
    <3> QED
      BY <1>n, <2>1, <2>2, <2>3, <2>4, <2>8, <2>b, <3>1, <3>2, <3>3, Zenon
  <2> QED
    BY <2>5, <2>6, <2>7
<1>10. CollectInv'
  <2>1. dFrame'.frame > 0 => \E k \in DOMAIN headers' : Collecting(k)'
    BY <1>9, <1>m, Zenon
  <2>2. \A k \in DOMAIN headers' : Newest(k, mread)' => dMeta' = headers'[k].frame
    BY <1>m, Zenon DEF Newest
  <2> QED
    BY <1>7, <1>8, <2>1, <2>2, Zenon DEF CollectInv
<1> QED
  BY <1>7, <1>10, Zenon DEF MacSafe

LEMMA AcceptKeeps ==
    ASSUME EqInv, OrderInv, MacSafe, AcceptFrame, UNCHANGED symbolVars
    PROVE  MacSafe'
<1>s. SymbolTypeOK
  BY Zenon DEF EqInv, HeadersInv
<1>b. /\ Len(items) \in Nat /\ DOMAIN items = 1 .. Len(items)
      /\ DOMAIN headers = 1 .. Len(headers) /\ Len(headers) \in Nat
      /\ \A k \in DOMAIN headers : headers[k].at \in Nat /\ headers[k].frame \in Nat
  BY <1>s, BufferNow
<1>n. /\ mread \in Nat /\ mread < Len(items) /\ mread' = mread + 1 /\ NextItem
      /\ HeadersAt(mread) # {} /\ Accepts(NewestHeader) /\ dMeta' = NewestHeader.frame
      /\ dFrame' = [frame |-> NewestHeader.frame, encoding |-> NewestHeader.encoding,
                    bytes |-> NewestHeader.bytes,
                    nsym |-> NSym(NewestHeader.bytes, LegacyOfdm(NewestHeader.encoding).dbps)]
      /\ Collect(dFrame', 0, <<>>, dMeta')
      /\ items' = items /\ headers' = headers
  BY Zenon DEF MacSafe, MacInv, NextItem, AcceptFrame, symbolVars
<1>m. /\ dFrame.frame \in Nat
      /\ dFrame.frame > 0 => \E q \in DOMAIN headers : Collecting(q)
      /\ \A d \in DOMAIN mdecodes : /\ mdecodes[d].frame \in Nat
                                    /\ mdecodes[d].frame <= dFrame.frame
  BY Zenon DEF MacSafe, MacInv, CollectInv, DecodedInv
<1>1. PICK k \in DOMAIN headers : /\ NewestHeader = headers[k] /\ headers[k].at = mread
                                  /\ Newest(k, mread + 1) /\ Effective(k)
  BY <1>n, NewestTaken, Zenon
<1>2. /\ dFrame'.frame = headers[k].frame /\ dFrame'.nsym = HeaderNSym(k)
      /\ Accepts(headers[k]) /\ dMeta' = headers[k].frame
  <2>1. Accepts(headers[k]) /\ dMeta' = headers[k].frame
    BY <1>1, <1>n, Zenon
  <2>2. dFrame'.frame = NewestHeader.frame
    BY <1>n
  <2>3. dFrame'.nsym = NSym(NewestHeader.bytes, LegacyOfdm(NewestHeader.encoding).dbps)
    BY <1>n
  <2>4. dFrame'.nsym = HeaderNSym(k)
    BY <1>1, <2>3, Zenon DEF HeaderNSym
  <2> QED
    BY <1>1, <2>1, <2>2, <2>4, Zenon
<1> DEFINE f == headers[k].frame
           w == HeaderNSym(k)
           x == items[mread + 1]
<1>3. w \in Nat \ {0} /\ ~(0 >= w) /\ f \in Nat /\ f > 0
  <2>1. w \in Nat \ {0}
    BY <1>2, AcceptedSize
  <2>2. f \in 1 .. frame
    BY Zenon DEF OrderInv
  <2> HIDE DEF f, w
  <2> QED
    BY <2>1, <2>2
<1>4. x \in Item /\ x.frame = f /\ x.sym = 3
  <2>1. mread + 1 \in DOMAIN items
    BY <1>b, <1>n
  <2>2. x \in Item
    BY <1>s, <2>1, BufferNow
  <2>3. x.frame = f /\ x.sym = (mread + 1) - headers[k].at + 2
    BY <1>1, <2>1, Zenon DEF OrderInv
  <2>4. headers[k].at = mread /\ mread \in Nat
    BY <1>1, <1>n, Zenon
  <2> HIDE DEF x, f
  <2> QED
    BY <2>2, <2>3, <2>4
<1>5. Owns(headers, x, 1, f)
  <2>1. x.sym = 1 + 2
    BY <1>4
  <2> QED
    BY <1>4, <2>1, Zenon DEF Owns
<1>6. \A d \in DOMAIN mdecodes : mdecodes[d].frame < f /\ mdecodes[d].frame \in Nat
  <2>1. dFrame.frame < f
    <3>1. CASE dFrame.frame > 0
      <4>1. PICK q \in DOMAIN headers : Collecting(q)
        BY <1>m, <3>1, Zenon
      <4>2. dFrame.frame = headers[q].frame /\ headers[q].at < mread
        BY <4>1, Zenon DEF Collecting, Seen
      <4>3. ~(k < q) /\ k # q
        <5>1. k < q => headers[k].at <= headers[q].at
          BY Zenon DEF OrderInv
        <5>2. headers[q].at \in Nat /\ headers[k].at = mread
          BY <1>1, <1>b, Zenon
        <5> HIDE DEF f, w, x
        <5>3. ~(mread <= headers[q].at)
          BY <1>n, <4>2, <5>2
        <5> QED
          BY <4>2, <5>1, <5>2, <5>3
      <4>4. q < k
        <5>1. q \in Nat /\ k \in Nat
          BY <1>b
        <5> QED
          BY <4>3, <5>1
      <4>5. headers[q].frame < headers[k].frame
        BY <4>4, Zenon DEF OrderInv
      <4> QED
        BY <4>2, <4>5, Zenon
    <3>2. CASE dFrame.frame = 0
      BY <1>3, <3>2
    <3> QED
      BY <1>m, <3>1, <3>2
  <2> HIDE DEF f, w, x
  <2> QED
    BY <1>3, <1>m, <2>1
<1>7. ASSUME NEW j \in DOMAIN headers, EndsHere(j)
      PROVE  0 + 1 = w /\ f = headers[j].frame
  <2>1. /\ Accepts(headers[j]) /\ headers[j].at + HeaderNSym(j) = mread + 1
        /\ \A i \in DOMAIN headers : i > j => headers[i].at >= mread + 1
    BY <1>7, Zenon DEF EndsHere
  <2>2. HeaderNSym(j) \in Nat \ {0} /\ headers[j].at \in Nat
    BY <1>b, <2>1, AcceptedSize
  <2>3. headers[j].at < mread + 1 /\ mread + 1 \in Int
    BY <1>n, <2>1, <2>2
  <2>4. Newest(j, mread + 1)
    BY <2>1, <2>3, Zenon DEF Newest
  <2>5. j = k
    BY <1>1, <2>3, <2>4, NewestOnly, Zenon
  <2>6. headers[k].at + w = mread + 1 /\ headers[k].at = mread
    BY <1>1, <2>1, <2>5, Zenon
  <2>7. 0 + 1 = w
    <3> HIDE DEF w, f, x
    <3> QED
      BY <1>3, <1>n, <2>6
  <2> QED
    BY <2>5, <2>7, Zenon
<1>8. copied' = 1 /\ rxSymbols' = <<x>> /\ Append(<<>>, x) = <<x>>
  <2>1. \/ /\ 0 >= dFrame'.nsym
        \/ /\ copied' = 0 + 1 /\ rxSymbols' = Append(<<>>, items[mread + 1])
    <3>1. Collect(dFrame', 0, <<>>, dMeta')
      BY <1>n, Zenon
    <3> HIDE DEF f, w, x
    <3>2. \A n, symbols : Collect(dFrame', n, symbols, dMeta') =>
             \/ n >= dFrame'.nsym
             \/ copied' = n + 1 /\ rxSymbols' = Append(symbols, items[mread + 1])
      BY Collected1, Zenon
    <3> QED
      BY <3>1, <3>2, Zenon
  <2>2. copied' = 0 + 1 /\ rxSymbols' = Append(<<>>, x)
    BY <1>2, <1>3, <2>1, Zenon
  <2>3. Append(<<>>, x) = <<x>>
    <3> HIDE DEF x
    <3> QED
      OBVIOUS
  <2> QED
    BY <2>2, <2>3
<1>9. /\ MacInv' /\ DecodedInv'
      /\ \A i \in DOMAIN rxSymbols' : Owns(headers', rxSymbols'[i], i, dFrame'.frame)
  <2>1. <<>> \in Seq(Item) /\ Len(<<>>) = 0 /\ DOMAIN <<>> = {} /\ 0 \in Int
    OBVIOUS
  <2>2. /\ dFrame'.frame \in Nat /\ dFrame'.nsym \in Nat
        /\ Collect(dFrame', 0, <<>>, dMeta')
    BY <1>2, <1>3, <1>n
  <2>3. \A d \in DOMAIN mdecodes :
               /\ mdecodes[d].frame <= dFrame'.frame
               /\ mdecodes[d].frame = dFrame'.frame => 0 >= dFrame'.nsym
    <3>1. \A d \in DOMAIN mdecodes : mdecodes[d].frame <= f /\ mdecodes[d].frame # f
      <4> HIDE DEF f
      <4> QED
        BY <1>3, <1>6
    <3> QED
      BY <1>2, <3>1, Zenon
  <2>4. \A i \in DOMAIN <<>> : Owns(headers, <<>>[i], i, dFrame'.frame)
    BY <2>1, Zenon
  <2>5. ~(0 >= dFrame'.nsym) => Owns(headers, items[mread + 1], Len(<<>>) + 1, dFrame'.frame)
    <3>1. Len(<<>>) + 1 = 1
      OBVIOUS
    <3> QED
      BY <1>2, <1>5, <3>1, Zenon
  <2>6. \A j \in DOMAIN headers : EndsHere(j) =>
               /\ ~(0 >= dFrame'.nsym) /\ 0 + 1 = dFrame'.nsym
               /\ dFrame'.frame = headers[j].frame /\ dMeta' = headers[j].frame
               /\ items[mread + 1].frame = headers[j].frame
               /\ \A i \in DOMAIN <<>> : <<>>[i].frame = headers[j].frame
    BY <1>2, <1>3, <1>4, <1>7, <2>1, Zenon
  <2> QED
    BY <1>n, <2>1, <2>2, <2>3, <2>4, <2>5, <2>6, CollectKeeps, Zenon
<1>10. ASSUME NEW j \in DOMAIN headers, Newest(j, mread + 1) PROVE j = k
  <2>1. mread + 1 \in Int
    BY <1>n
  <2> QED
    BY <1>1, <1>10, <2>1, NewestOnly, Zenon
<1>11. Collecting(k)'
  <2>1. headers[k].at = mread /\ headers[k].at < mread + 1 /\ mread' - headers'[k].at = 1
    <3>1. headers[k].at = mread /\ headers'[k].at = mread /\ mread' = mread + 1 /\ mread \in Nat
      BY <1>1, <1>n, Zenon
    <3> HIDE DEF f, w, x
    <3> QED
      BY <3>1
  <2>2. Seen(k)' /\ Accepts(headers'[k])
    BY <1>1, <1>2, <1>n, <2>1, Zenon DEF Seen, Effective
  <2>3. ASSUME NEW j \in DOMAIN headers', j > k, Seen(j)' PROVE FALSE
    <3>1. headers[j].at < mread + 1 /\ headers[j].at >= mread + 1
      BY <1>1, <1>n, <2>3, Zenon DEF Seen, Newest
    <3>2. headers[j].at \in Nat
      BY <1>b, <1>n, <2>3, Zenon
    <3> HIDE DEF f, w, x
    <3> QED
      BY <1>n, <3>1, <3>2
  <2>4. HeaderNSym(k)' = w /\ headers' = headers
    BY <1>n, Zenon DEF HeaderNSym
  <2>5. copied' = IF mread' - headers'[k].at < HeaderNSym(k)' THEN mread' - headers'[k].at
                  ELSE HeaderNSym(k)'
    <3>1. 1 = IF 1 < w THEN 1 ELSE w
      <4> HIDE DEF w
      <4> QED
        BY <1>3
    <3> QED
      BY <1>8, <2>1, <2>4, <3>1, Zenon
  <2>6. copied' = Len(rxSymbols')
    <3> HIDE DEF x
    <3> QED
      BY <1>8
  <2>7. ASSUME NEW i \in 1 .. copied' PROVE rxSymbols'[i] = items'[headers'[k].at + i]
    <3>1. i = 1 /\ rxSymbols'[1] = x
      <4> HIDE DEF x
      <4> QED
        BY <1>8, <2>7
    <3> QED
      BY <1>n, <2>1, <3>1, Zenon
  <2>8. dFrame'.frame = headers'[k].frame /\ dFrame'.nsym = HeaderNSym(k)'
    BY <1>2, <2>4, Zenon
  <2> QED
    BY <2>2, <2>3, <2>5, <2>6, <2>7, <2>8, Zenon DEF Collecting
<1>12. CollectInv'
  <2>1. dFrame'.frame # 0
    BY <1>2, <1>3
  <2>2. \E q \in DOMAIN headers' : Collecting(q)'
    BY <1>11, <1>n, Zenon
  <2>3. \A q \in DOMAIN headers' : Newest(q, mread)' => dMeta' = headers'[q].frame
    BY <1>2, <1>10, <1>n, Zenon DEF Newest
  <2> QED
    BY <1>9, <2>1, <2>2, <2>3, Zenon DEF CollectInv
<1> QED
  BY <1>9, <1>12, Zenon DEF MacSafe

LEMMA RejectKeeps ==
    ASSUME EqInv, OrderInv, MacSafe, RejectFrame, UNCHANGED symbolVars
    PROVE  MacSafe'
<1>n. /\ mread \in Nat /\ NextItem /\ HeadersAt(mread) # {} /\ ~Accepts(NewestHeader)
      /\ dMeta' = NewestHeader.frame /\ dFrame' = dFrame
      /\ Collect(dFrame, copied, rxSymbols, dMeta')
  BY Zenon DEF MacSafe, MacInv, RejectFrame
<1>i. mread + 1 \in Int
  BY <1>n
<1>1. PICK k \in DOMAIN headers : /\ NewestHeader = headers[k] /\ headers[k].at = mread
                                  /\ Newest(k, mread + 1) /\ Effective(k)
  BY <1>n, NewestTaken, Zenon
<1>2. ASSUME NEW j \in DOMAIN headers, Newest(j, mread + 1) PROVE dMeta' = headers[j].frame
  <2>1. j = k
    BY <1>1, <1>2, <1>i, NewestOnly, Zenon
  <2> QED
    BY <1>1, <1>n, <2>1, Zenon
<1>3. ASSUME NEW j \in DOMAIN headers, Effective(j), headers[j].at = mread
      PROVE  ~Accepts(headers[j])
  <2>1. /\ j > k => headers[j].at > headers[k].at
        /\ k > j => headers[k].at > headers[j].at
    BY <1>1, <1>3, Zenon DEF Effective
  <2>2. j \in Nat /\ k \in Nat
    <3>1. SymbolTypeOK
      BY Zenon DEF EqInv, HeadersInv
    <3> QED
      BY <3>1, BufferNow
  <2>3. j = k
    BY <1>1, <1>3, <1>n, <2>1, <2>2
  <2> QED
    BY <1>1, <1>n, <2>3, Zenon
<1> QED
  BY <1>n, <1>2, <1>3, CopyKeeps, Zenon

LEMMA PlainKeeps ==
    ASSUME EqInv, OrderInv, MacSafe, PlainItem, UNCHANGED symbolVars
    PROVE  MacSafe'
<1>n. /\ mread \in Nat /\ NextItem /\ HeadersAt(mread) = {}
      /\ dMeta' = dMeta /\ dFrame' = dFrame
      /\ Collect(dFrame, copied, rxSymbols, dMeta')
      /\ \A k \in DOMAIN headers : Newest(k, mread) => dMeta = headers[k].frame
  BY Zenon DEF MacSafe, MacInv, CollectInv, PlainItem
<1>b. \A k \in DOMAIN headers : headers[k].at \in Nat
  <2>1. SymbolTypeOK
    BY Zenon DEF EqInv, HeadersInv
  <2> QED
    BY <2>1, BufferNow
<1>1. \A j \in DOMAIN headers : headers[j].at # mread
  BY <1>n, Zenon DEF HeadersAt
<1>2. ASSUME NEW j \in DOMAIN headers, Newest(j, mread + 1) PROVE dMeta' = headers[j].frame
  <2>1. headers[j].at < mread + 1
    BY <1>2, Zenon DEF Newest
  <2>2. headers[j].at < mread
    BY <1>1, <1>b, <1>n, <2>1
  <2>3. ASSUME NEW i \in DOMAIN headers, i > j PROVE headers[i].at >= mread
    <3>1. headers[i].at >= mread + 1
      BY <1>2, <2>3, Zenon DEF Newest
    <3> QED
      BY <1>b, <1>n, <3>1
  <2>4. Newest(j, mread)
    BY <2>2, <2>3, Zenon DEF Newest
  <2> QED
    BY <1>n, <2>4, Zenon
<1> QED
  BY <1>n, <1>1, <1>2, CopyKeeps, Zenon

LEMMA MacSafeInit == Init => MacSafe
<1> SUFFICES ASSUME Init PROVE MacSafe
  OBVIOUS
<1>1. /\ items = <<>> /\ headers = <<>> /\ mread = 0 /\ copied \in UNINITIALISED
      /\ rxSymbols = <<>> /\ mdecodes = <<>>
      /\ dFrame = [frame |-> 0, encoding |-> 0, bytes |-> 0,
                   nsym |-> NSym(0, LegacyOfdm(0).dbps)]
  BY Zenon DEF Init, MacInit, SymbolInit
<1>2. dFrame.frame = 0 /\ dFrame.nsym \in Nat
  <2>1. LegacyOfdm(0).dbps \in Nat \ {0}
    <3>1. 0 \in 0 .. 7
      OBVIOUS
    <3> QED
      BY <3>1, LegacyOfdmType
  <2>2. 0 \in Nat
    OBVIOUS
  <2>3. NSym(0, LegacyOfdm(0).dbps) \in Nat \ {0}
    BY <2>1, <2>2, NSymPositive
  <2>4. dFrame.frame = 0 /\ dFrame.nsym = NSym(0, LegacyOfdm(0).dbps)
    BY <1>1
  <2> QED
    BY <2>3, <2>4
<1>3. DOMAIN headers = {} /\ DOMAIN mdecodes = {} /\ DOMAIN rxSymbols = {} /\ Len(items) = 0
  BY <1>1
<1>4. MacInv
  <2>1. mdecodes \in Seq({})
    BY <1>1
  <2>2. rxSymbols \in Seq(Item) /\ copied \in Int /\ mread \in Nat /\ mread <= Len(items)
    BY <1>1, <1>3, MacAssumption
  <2>3. 0 \in Nat
    OBVIOUS
  <2> QED
    BY <1>2, <2>1, <2>2, <2>3, Zenon DEF MacInv
<1>5. CollectInv
  <2>1. ~(dFrame.frame > 0)
    BY <1>2
  <2> QED
    BY <1>3, <2>1, Zenon DEF CollectInv
<1>6. DecodedInv
  BY <1>3, Zenon DEF DecodedInv, DecodesOwnSymbols, CompleteFramesDecoded
<1> QED
  BY <1>4, <1>5, <1>6, Zenon DEF MacSafe

LEMMA OrderStutter ==
    ASSUME EqInv, OrderInv, UNCHANGED eqVars
    PROVE  OrderInv' /\ Grown
<1>1. frame' = frame /\ sym' = sym /\ items' = items /\ headers' = headers
  BY DEF eqVars, ownVars, modeVars, symbolVars
<1>2. OrderInv'
  BY <1>1, Zenon DEF OrderInv, Newest
<1>3. SymbolTypeOK
  BY Zenon DEF EqInv, HeadersInv
<1>4. /\ Len(items) \in Nat /\ Len(headers) \in Nat /\ DOMAIN headers = 1 .. Len(headers)
      /\ items \in Seq(Item) /\ headers \in Seq(Header)
  BY <1>3, BufferNow DEF SymbolTypeOK
<1>5. Len(items) <= Len(items') /\ Len(headers) <= Len(headers')
  BY <1>1, <1>4
<1>6. \A k \in DOMAIN headers' : ~(k > Len(headers))
  BY <1>1, <1>4
<1> QED
  BY <1>1, <1>2, <1>4, <1>5, <1>6, Zenon DEF Grown

(* The steps of the two blocks, in any order, keep what both rely on. *)
LEMMA RxInvKeeps == RxInv /\ [Next]_vars => RxInv'
<1> SUFFICES ASSUME RxInv, [Next]_vars PROVE RxInv'
  OBVIOUS
<1>i. EqInv /\ OrderInv /\ MacSafe
  BY Zenon DEF RxInv
<1>1. ASSUME Step, UNCHANGED macVars PROVE RxInv'
  <2>1. [EqWork \/ SetAlgorithm]_eqVars
    BY <1>1, Zenon DEF Step
  <2>2. EqInv'
    BY <1>i, <2>1, EqInvKeeps, Zenon
  <2>3. OrderInv' /\ Grown
    BY <1>1, <1>i, OrderKeeps, Zenon
  <2>4. MacSafe'
    BY <1>1, <1>i, <2>3, GrownSafe, Zenon
  <2> QED
    BY <2>2, <2>3, <2>4, Zenon DEF RxInv
<1>2. ASSUME UNCHANGED eqVars PROVE EqInv' /\ OrderInv' /\ Grown
  BY <1>2, <1>i, EqInvStutter, OrderStutter, Zenon
<1>3. ASSUME MacStep PROVE RxInv'
  <2>1. MacWork /\ UNCHANGED eqVars /\ UNCHANGED symbolVars
    BY <1>3 DEF MacStep, eqVars
  <2>2. MacSafe'
    BY <1>i, <2>1, PlainKeeps, AcceptKeeps, RejectKeeps, Zenon DEF MacWork
  <2> QED
    BY <1>2, <2>1, <2>2, Zenon DEF RxInv
<1>4. ASSUME UNCHANGED vars PROVE RxInv'
  <2>1. UNCHANGED eqVars /\ UNCHANGED macVars
    BY <1>4 DEF vars, eqVars
  <2>2. MacSafe'
    BY <1>2, <1>i, <2>1, GrownSafe, Zenon
  <2> QED
    BY <1>2, <2>1, <2>2, Zenon DEF RxInv
<1>5. Next \/ UNCHANGED vars
  OBVIOUS
<1>6. Next => (Step /\ UNCHANGED macVars) \/ MacStep
  BY Zenon DEF Next, EqStep, Step
<1> QED
  BY <1>1, <1>3, <1>4, <1>5, <1>6, Zenon

(* The invariant of the receive chain holds in every state, for every       *)
(* number of vectors and frames and every signal field.                     *)
THEOREM ReceiveInvariant == Spec => []RxInv
<1>1. Init => RxInv
  <2>1. Init => EqStart
    BY DEF Init, EqStart
  <2> QED
    BY <2>1, EqInvInit, OrderInit, MacSafeInit, Zenon DEF RxInv
<1>2. RxInv /\ [Next]_vars => RxInv'
  BY RxInvKeeps
<1> QED
  BY <1>1, <1>2, PTL DEF Spec

(* While decode_mac collects a frame, `copied' is the number of symbols in  *)
(* d_rx_symbols and does not pass the frame's, nor the frame MAX_SYM: the   *)
(* copy of the next symbol stays in the buffer (decode_mac.cc, the memcpy). *)
THEOREM CopiesInBounds == Spec => []CopiedInBounds
<1>1. RxInv => CopiedInBounds
  <2> SUFFICES ASSUME RxInv, dFrame.frame > 0
               PROVE  /\ copied \in 0 .. dFrame.nsym /\ copied = Len(rxSymbols)
                      /\ dFrame.nsym <= MAX_SYM
    BY Zenon DEF CopiedInBounds
  <2>1. PICK q \in DOMAIN headers : Collecting(q)
    BY Zenon DEF RxInv, MacSafe, CollectInv
  <2> DEFINE h == headers[q].at
             w == HeaderNSym(q)
  <2>2. /\ Accepts(headers[q]) /\ h < mread /\ dFrame.nsym = w /\ copied = Len(rxSymbols)
        /\ copied = IF mread - h < w THEN mread - h ELSE w
    BY <2>1, Zenon DEF Collecting, Seen
  <2>3. w \in Nat /\ w <= MAX_SYM
    BY <2>2, AcceptedSize
  <2>4. h \in Nat /\ mread \in Nat
    <3>1. SymbolTypeOK
      BY Zenon DEF RxInv, EqInv, HeadersInv
    <3>2. mread \in Nat
      BY Zenon DEF RxInv, MacSafe, MacInv
    <3> QED
      BY <3>1, <3>2, BufferNow
  <2> HIDE DEF h, w
  <2> QED
    BY <2>2, <2>3, <2>4
<1> QED
  BY <1>1, ReceiveInvariant, PTL

(* Every decode is of the symbols of the frame whose rate and length it     *)
(* uses, in order and without a gap, but for those of a refused frame that  *)
(* interrupted it.                                                          *)
THEOREM DecodesItsFrame == Spec => []DecodesOwnSymbols
<1>1. RxInv => DecodesOwnSymbols
  BY Zenon DEF RxInv, MacSafe, DecodedInv
<1> QED
  BY <1>1, ReceiveInvariant, PTL

(* Every frame that decode_mac accepted and that was not interrupted has    *)
(* been decoded, once, from its own symbols.                                *)
THEOREM DecodesEveryFrame == Spec => []CompleteFramesDecoded
<1>1. RxInv => CompleteFramesDecoded
  BY Zenon DEF RxInv, MacSafe, DecodedInv
<1> QED
  BY <1>1, ReceiveInvariant, PTL
-----------------------------------------------------------------------------
(* The types that the invariants above have no use for.                     *)
EqDecode == [frame : Nat, mode : {"HT", "VHT", "LDPC", "MIMO", "STBC"},
             len : Nat, nsym : Nat, read : SUBSET Nat, published : BOOLEAN]
MacDecode == [frame : Nat, meta : Nat, symbols : Seq(Item), bytes : Nat]

EqRest ==
    /\ fftLen \in FFT_LENS /\ nvectors \in Nat /\ filled \subseteq Nat
    /\ \A k \in DOMAIN decodes : decodes[k] \in EqDecode

MacRest ==
    /\ dFrame \in Collected /\ dMeta \in Nat /\ complete \in BOOLEAN
    /\ \A k \in DOMAIN mdecodes : mdecodes[k] \in MacDecode

(* Every PDU is of a frame that was decoded. *)
PduInv ==
    /\ pdus \in Seq(Nat)
    /\ \A k \in DOMAIN pdus : \E d \in DOMAIN mdecodes : pdus[k] = mdecodes[d].frame

LEMMA AllTyped ==
    ASSUME NEW T, NEW S, NEW s \in Seq(S), \A k \in DOMAIN s : s[k] \in T, NEW x \in T
    PROVE  \A k \in DOMAIN Append(s, x) : Append(s, x)[k] \in T
<1>1. /\ Len(s) \in Nat /\ DOMAIN s = 1 .. Len(s)
      /\ DOMAIN Append(s, x) = 1 .. Len(s) + 1
      /\ \A k \in 1 .. Len(s) : Append(s, x)[k] = s[k]
      /\ Append(s, x)[Len(s) + 1] = x
  BY Appended
<1>2. \A k \in 1 .. Len(s) + 1 : k \in 1 .. Len(s) \/ k = Len(s) + 1
  BY <1>1
<1> QED
  BY <1>1, <1>2, Zenon

LEMMA FinishTyped ==
    ASSUME JobInv, NEW kind \in {"HT", "VHT", "LDPC", "MIMO", "STBC"},
           NEW stored \in SUBSET Nat, Finish(kind, stored)
    PROVE  \E d \in EqDecode : decodes' = Append(decodes, d)
<1>1. frame \in Nat /\ job.len \in Nat /\ job.nsym \in Nat
  BY TypesNow DEF Job
<1>2. PICK ok \in BOOLEAN :
          decodes' = Append(decodes,
              [frame |-> frame, mode |-> kind, len |-> job.len, nsym |-> job.nsym,
               read |-> stored,
               published |-> job.len >= 4 /\ (ok \/ KEEP_CORRUPTED)])
  BY Zenon DEF Finish
<1> DEFINE p == job.len >= 4 /\ (ok \/ KEEP_CORRUPTED)
<1>3. p \in BOOLEAN
  BY Zenon
<1> HIDE DEF p
<1>4. [frame |-> frame, mode |-> kind, len |-> job.len, nsym |-> job.nsym,
       read |-> stored, published |-> p] \in EqDecode
  BY <1>1, <1>3 DEF EqDecode
<1> QED
  BY <1>2, <1>4, Zenon DEF p

LEMMA StoreTyped ==
    ASSUME JobInv, filled \subseteq Nat, NEW mode, NEW slots \in SUBSET Nat,
           NEW kind \in {"HT", "VHT", "LDPC", "MIMO", "STBC"}, Store(mode, kind, slots)
    PROVE  /\ filled' \subseteq Nat
           /\ decodes' = decodes \/ \E d \in EqDecode : decodes' = Append(decodes, d)
<1>1. filled' = filled \cup slots
  BY Zenon DEF Store
<1>2. filled' \in SUBSET Nat
  BY <1>1
<1>3. decodes' = decodes \/ Finish(kind, filled')
  BY Zenon DEF Store
<1> QED
  BY <1>2, <1>3, FinishTyped, Zenon

(* What a step of frame_equalizer adds to the decodes and to the slots.     *)
LEMMA SymbolTyped ==
    ASSUME JobInv, filled \subseteq Nat, SymbolStep
    PROVE  /\ filled' \subseteq Nat
           /\ decodes' = decodes \/ \E d \in EqDecode : decodes' = Append(decodes, d)
<1> DEFINE Typed == /\ filled' \subseteq Nat
                    /\ \/ decodes' = decodes
                       \/ \E d \in EqDecode : decodes' = Append(decodes, d)
<1>t. job.dsym \in Nat /\ sym \in Nat
  BY TypesNow DEF Job
<1>0. ASSUME filled' = {} \/ filled' = filled, decodes' = decodes PROVE Typed
  BY <1>0
<1>1. ASSUME Sniff PROVE decodes' = decodes
  BY <1>1 DEF Sniff
<1>2. ASSUME NEW h \in HtSigs,
             SniffHt(h) \/ SniffLdpc(h) \/ SniffMimo(h) \/ SniffStbc(h)
      PROVE  Typed
  <2>1. Sniff /\ filled' = {}
    BY <1>2, Zenon DEF SniffHt, SniffLdpc, SniffMimo, SniffStbc, Begin
  <2> QED
    BY <1>0, <1>1, <2>1, Zenon
<1>3. ASSUME SniffNothing \/ \E v \in VhtSigs : SniffVht(v) PROVE Typed
  <2>1. Sniff /\ filled' = filled
    BY <1>3 DEF SniffNothing, SniffVht
  <2> QED
    BY <1>0, <1>1, <2>1, Zenon
<1>4. ASSUME HtLtf \/ StbcFirst \/ OnlyPassOn \/ \E mode \in {"MIMO", "STBC"} : TwoLtf(mode)
      PROVE  Typed
  <2>1. filled' = filled /\ decodes' = decodes
    BY <1>4 DEF HtLtf, StbcFirst, OnlyPassOn, TwoLtf, modeVars
  <2> QED
    BY <1>0, <2>1, Zenon
<1>5. ASSUME NEW apep \in Apeps, VhtSigB(apep) PROVE Typed
  <2>1. decodes' = decodes /\ (filled' = {} \/ filled' = filled)
    BY <1>5 DEF VhtSigB
  <2> QED
    BY <1>0, <2>1, Zenon
<1>6. ASSUME HtData PROVE Typed
  <2>1. PICK kind \in {"HT", "VHT", "LDPC", "MIMO", "STBC"} : Store("HT", kind, {job.dsym})
    BY <1>6 DEF HtData
  <2>2. {job.dsym} \in SUBSET Nat
    BY <1>t
  <2> QED
    BY <2>1, <2>2, StoreTyped, Zenon
<1>7. ASSUME MimoData PROVE Typed
  <2>1. Store("MIMO", "MIMO", {sym - 8}) /\ sym >= 8
    BY <1>7, Zenon DEF MimoData
  <2>2. {sym - 8} \in SUBSET Nat /\ "MIMO" \in {"HT", "VHT", "LDPC", "MIMO", "STBC"}
    BY <1>t, <2>1
  <2> QED
    BY <2>1, <2>2, StoreTyped, Zenon
<1>8. ASSUME StbcSecond PROVE Typed
  <2>1. Store("STBC", "STBC", {job.dsym, job.dsym + 1})
    BY <1>8, Zenon DEF StbcSecond
  <2>2. /\ {job.dsym, job.dsym + 1} \in SUBSET Nat
        /\ "STBC" \in {"HT", "VHT", "LDPC", "MIMO", "STBC"}
    BY <1>t
  <2> QED
    BY <2>1, <2>2, StoreTyped, Zenon
<1> QED
  BY <1>2, <1>3, <1>4, <1>5, <1>6, <1>7, <1>8, Zenon DEF SymbolStep

LEMMA EqRestKeeps ==
    ASSUME EqInv, EqRest, Step
    PROVE  EqRest'
<1>i. JobInv /\ \E S : decodes \in Seq(S)
  BY Zenon DEF EqInv, JobInv, DecodesInv
<1>r. /\ fftLen \in FFT_LENS /\ nvectors \in Nat /\ filled \subseteq Nat
      /\ \A k \in DOMAIN decodes : decodes[k] \in EqDecode
  BY Zenon DEF EqRest
<1>1. fftLen' = fftLen
  BY DEF Step, EqWork, SetAlgorithm
<1>2. /\ nvectors' = nvectors \/ nvectors' = nvectors + 1
      /\ filled' \subseteq Nat
      /\ decodes' = decodes \/ \E d \in EqDecode : decodes' = Append(decodes, d)
  <2>1. ASSUME SymbolStep PROVE nvectors' = nvectors + 1
    BY <1>i, <2>1, SymbolEffect DEF Effect, PassOn, NextVector
  <2>2. ASSUME NEW l \in LSigs, SignalParsed(l)
        PROVE  nvectors' = nvectors + 1 /\ filled' = filled /\ decodes' = decodes
    BY <2>2 DEF SignalParsed, NextVector, modeVars
  <2>3. ASSUME NewFrame \/ Skip \/ SecondLtf \/ SignalFailed
        PROVE  nvectors' = nvectors + 1 /\ filled' = filled /\ decodes' = decodes
    BY <2>3 DEF NewFrame, Skip, SecondLtf, SignalFailed, NextVector, modeVars
  <2>4. ASSUME SetAlgorithm
        PROVE  nvectors' = nvectors /\ filled' = filled /\ decodes' = decodes
    BY <2>4 DEF SetAlgorithm, modeVars
  <2> QED
    BY <1>i, <1>r, <2>1, <2>2, <2>3, <2>4, SymbolTyped, StepCases, Zenon
<1>3. nvectors' \in Nat
  BY <1>2, <1>r
<1>4. \A k \in DOMAIN decodes' : decodes'[k] \in EqDecode
  BY <1>i, <1>2, <1>r, AllTyped, Zenon
<1> QED
  BY <1>1, <1>2, <1>3, <1>4, <1>r, Zenon DEF EqRest

(* What decode_mac makes of an item of frame f. *)
LEMMA CollectTyped ==
    ASSUME RxInv, MacRest, NextItem,
           NEW f \in Collected, NEW n, NEW symbols \in Seq(Item), NEW meta \in Nat,
           Collect(f, n, symbols, meta)
    PROVE  \A k \in DOMAIN mdecodes' : mdecodes'[k] \in MacDecode
<1>i. /\ SymbolTypeOK /\ mread \in Nat /\ mread < Len(items)
      /\ \E S : mdecodes \in Seq(S)
  BY Zenon DEF RxInv, EqInv, HeadersInv, MacSafe, MacInv, NextItem
<1>t. \A k \in DOMAIN mdecodes : mdecodes[k] \in MacDecode
  BY Zenon DEF MacRest
<1>1. items[mread + 1] \in Item
  <2>1. mread + 1 \in DOMAIN items
    BY <1>i, BufferNow
  <2> QED
    BY <1>i, <2>1, BufferNow, Zenon
<1>2. Append(symbols, items[mread + 1]) \in Seq(Item)
  BY <1>1, AppendProperties
<1>3. f.frame \in Nat /\ f.bytes \in Nat
  BY LimitsAssumption DEF Collected
<1>4. CASE mdecodes' = mdecodes
  BY <1>t, <1>4, Zenon
<1>5. CASE mdecodes' # mdecodes
  <2>1. rxSymbols' = Append(symbols, items[mread + 1]) /\ Decode(f, meta, rxSymbols')
    BY <1>5, Zenon DEF Collect
  <2> DEFINE d == [frame |-> f.frame, meta |-> meta, symbols |-> rxSymbols', bytes |-> f.bytes]
  <2>2. mdecodes' = Append(mdecodes, d)
    BY <2>1, Zenon DEF Decode, Decoded
  <2>3. d \in MacDecode
    <3>1. rxSymbols' \in Seq(Item)
      BY <1>2, <2>1, Zenon
    <3> QED
      BY <1>3, <3>1, Zenon DEF MacDecode
  <2> QED
    BY <1>i, <1>t, <2>2, <2>3, AllTyped, Zenon
<1> QED
  BY <1>4, <1>5, Zenon

LEMMA MacRestKeeps ==
    ASSUME RxInv, MacRest, MacWork
    PROVE  MacRest'
<1>i. /\ EqInv /\ OrderInv /\ SymbolTypeOK /\ mread \in Nat /\ rxSymbols \in Seq(Item)
  BY Zenon DEF RxInv, EqInv, HeadersInv, MacSafe, MacInv
<1>r. dFrame \in Collected /\ dMeta \in Nat /\ complete \in BOOLEAN
  BY Zenon DEF MacRest
<1> DEFINE h == NewestHeader
<1>h. HeadersAt(mread) # {} =>
          h.frame \in Nat /\ h.encoding \in Nat /\ h.bytes \in Nat
  <2> SUFFICES ASSUME HeadersAt(mread) # {}
               PROVE  h.frame \in Nat /\ h.encoding \in Nat /\ h.bytes \in Nat
    OBVIOUS
  <2>1. PICK k \in DOMAIN headers : h = headers[k]
    BY <1>i, NewestTaken, Zenon
  <2> QED
    BY <1>i, <2>1, BufferNow, Zenon
<1> HIDE DEF h
<1>1. ASSUME PlainItem PROVE MacRest'
  <2>1. /\ NextItem /\ Collect(dFrame, copied, rxSymbols, dMeta)
        /\ complete' = (complete \/ (copied < dFrame.nsym /\ copied' = dFrame.nsym))
        /\ dFrame' = dFrame /\ dMeta' = dMeta
    BY <1>1, Zenon DEF PlainItem
  <2>2. complete' \in BOOLEAN
    BY <2>1, Zenon
  <2>3. \A k \in DOMAIN mdecodes' : mdecodes'[k] \in MacDecode
    BY <1>i, <1>r, <2>1, CollectTyped, Zenon
  <2> QED
    BY <1>r, <2>1, <2>2, <2>3, Zenon DEF MacRest
<1>2. ASSUME RejectFrame PROVE MacRest'
  <2>1. /\ NextItem /\ HeadersAt(mread) # {}
        /\ dMeta' = h.frame /\ Collect(dFrame, copied, rxSymbols, dMeta')
        /\ complete' = (copied < dFrame.nsym /\ copied' = dFrame.nsym)
        /\ dFrame' = dFrame
    BY <1>2, Zenon DEF RejectFrame, h
  <2>2. complete' \in BOOLEAN
    BY <2>1, Zenon
  <2>3. dMeta' \in Nat
    BY <1>h, <2>1, Zenon
  <2>4. \A k \in DOMAIN mdecodes' : mdecodes'[k] \in MacDecode
    BY <1>i, <1>r, <2>1, <2>3, CollectTyped, Zenon
  <2> QED
    BY <1>r, <2>1, <2>2, <2>3, <2>4, Zenon DEF MacRest
<1>3. ASSUME AcceptFrame PROVE MacRest'
  <2>1. /\ NextItem /\ HeadersAt(mread) # {} /\ Accepts(h)
        /\ dMeta' = h.frame
        /\ dFrame' = [frame |-> h.frame, encoding |-> h.encoding, bytes |-> h.bytes,
                      nsym |-> NSym(h.bytes, LegacyOfdm(h.encoding).dbps)]
        /\ Collect(dFrame', 0, <<>>, dMeta')
        /\ complete' = (copied' = dFrame'.nsym)
    BY <1>3, Zenon DEF AcceptFrame, h
  <2>2. complete' \in BOOLEAN
    BY <2>1, Zenon
  <2>3. h.frame \in Nat /\ h.encoding \in Nat /\ h.bytes \in Nat
    BY <1>h, <2>1, Zenon
  <2>4. /\ h.encoding <= 7 /\ h.bytes \in 1 .. MAX_PSDU_SIZE
        /\ NSym(h.bytes, LegacyOfdm(h.encoding).dbps) \in 1 .. MAX_SYM
    BY <2>1, Zenon DEF Accepts
  <2>5. /\ h.encoding \in 0 .. 7 /\ h.bytes \in 0 .. MAX_PSDU_SIZE
        /\ NSym(h.bytes, LegacyOfdm(h.encoding).dbps) \in Nat
    BY <2>3, <2>4, LimitsAssumption
  <2>6. dFrame' \in Collected /\ dMeta' \in Nat
    BY <2>1, <2>3, <2>5, Zenon DEF Collected
  <2>7. <<>> \in Seq(Item)
    OBVIOUS
  <2>8. \A k \in DOMAIN mdecodes' : mdecodes'[k] \in MacDecode
    BY <2>1, <2>6, <2>7, CollectTyped, Zenon
  <2> QED
    BY <2>2, <2>6, <2>8, Zenon DEF MacRest
<1> QED
  BY <1>1, <1>2, <1>3, Zenon DEF MacWork

LEMMA RestInit == Init => EqRest /\ MacRest
<1> SUFFICES ASSUME Init PROVE EqRest /\ MacRest
  OBVIOUS
<1>1. EqRest
  <2>1. /\ fftLen \in FFT_LENS /\ nvectors = 0 /\ filled = {} /\ decodes = <<>>
    BY Zenon DEF Init, EqInit
  <2>2. DOMAIN decodes = {} /\ nvectors \in Nat /\ filled \subseteq Nat
    BY <2>1
  <2> QED
    BY <2>1, <2>2, Zenon DEF EqRest
<1>2. MacRest
  <2>1. /\ dFrame = [frame |-> 0, encoding |-> 0, bytes |-> 0,
                     nsym |-> NSym(0, LegacyOfdm(0).dbps)]
        /\ dMeta = 0 /\ complete = TRUE /\ mdecodes = <<>>
    BY Zenon DEF Init, MacInit
  <2>2. 0 \in Nat /\ 0 \in 0 .. 7 /\ 0 \in 0 .. MAX_PSDU_SIZE
    BY LimitsAssumption
  <2>3. LegacyOfdm(0).dbps \in Nat \ {0}
    BY <2>2, LegacyOfdmType
  <2>4. NSym(0, LegacyOfdm(0).dbps) \in Nat
    <3>1. NSym(0, LegacyOfdm(0).dbps) \in Nat \ {0}
      BY <2>2, <2>3, NSymPositive
    <3> QED
      BY <3>1
  <2>5. dFrame \in Collected
    BY <2>1, <2>2, <2>4, Zenon DEF Collected
  <2>6. DOMAIN mdecodes = {} /\ complete \in BOOLEAN
    BY <2>1
  <2> QED
    BY <2>1, <2>2, <2>5, <2>6, Zenon DEF MacRest
<1> QED
  BY <1>1, <1>2

(* What one item makes decode_mac publish: nothing, or the frame of a       *)
(* decode, whose FCS is right only if the item is of that frame.            *)
LEMMA CollectPublishes ==
    ASSUME NEW f, NEW n, NEW symbols \in Seq(Item), NEW meta,
           Collect(f, n, symbols, meta), items[mread + 1] \in Item
    PROVE  \/ mdecodes' = mdecodes /\ pdus' = pdus
           \/ \E d : \E ok \in BOOLEAN :
                 /\ mdecodes' = Append(mdecodes, d) /\ d.frame = f.frame
                 /\ pdus' = IF ok \/ KEEP_CORRUPTED THEN Append(pdus, f.frame) ELSE pdus
                 /\ ok => items[mread + 1].frame = f.frame
<1>1. CASE n >= f.nsym \/ n + 1 # f.nsym
  BY <1>1, Zenon DEF Collect
<1>2. CASE ~(n >= f.nsym) /\ n + 1 = f.nsym
  <2>1. rxSymbols' = Append(symbols, items[mread + 1]) /\ Decode(f, meta, rxSymbols')
    BY <1>2, Zenon DEF Collect
  <2> DEFINE d == [frame |-> f.frame, meta |-> meta, symbols |-> rxSymbols', bytes |-> f.bytes]
  <2>2. PICK ok \in BOOLEAN :
            /\ ok => \A k \in DOMAIN rxSymbols' :
                         rxSymbols'[k] = [frame |-> f.frame, sym |-> k + 2]
            /\ mdecodes' = Append(mdecodes, d)
            /\ pdus' = IF ok \/ KEEP_CORRUPTED THEN Append(pdus, f.frame) ELSE pdus
    BY <2>1, Zenon DEF Decode, Decoded
  <2>3. ASSUME ok PROVE items[mread + 1].frame = f.frame
    <3> DEFINE l == Len(symbols) + 1
               x == items[mread + 1]
    <3>1. l \in DOMAIN rxSymbols' /\ rxSymbols'[l] = x
      <4>1. /\ Len(symbols) \in Nat /\ DOMAIN Append(symbols, x) = 1 .. Len(symbols) + 1
            /\ Append(symbols, x)[Len(symbols) + 1] = x
        BY Added
      <4>2. l \in 1 .. Len(symbols) + 1
        BY <4>1
      <4> QED
        BY <2>1, <4>1, <4>2, Zenon
    <3> HIDE DEF l, x
    <3>2. x = [frame |-> f.frame, sym |-> l + 2]
      BY <2>2, <2>3, <3>1, Zenon
    <3>3. x.frame = f.frame
      BY <3>2
    <3> QED
      BY <3>3, Zenon DEF x
  <2>4. d.frame = f.frame
    OBVIOUS
  <2> HIDE DEF d
  <2> QED
    BY <2>2, <2>3, <2>4, Zenon
<1> QED
  BY <1>1, <1>2, Zenon

LEMMA WorkPublishes ==
    ASSUME RxInv, MacWork
    PROVE  \/ mdecodes' = mdecodes /\ pdus' = pdus
           \/ \E d : \E ok \in BOOLEAN :
                 /\ mdecodes' = Append(mdecodes, d) /\ d.frame = dFrame'.frame
                 /\ pdus' = IF ok \/ KEEP_CORRUPTED THEN Append(pdus, dFrame'.frame) ELSE pdus
                 /\ ok => \E j \in DOMAIN headers : headers[j].frame = dFrame'.frame
<1>i. /\ EqInv /\ OrderInv /\ SymbolTypeOK /\ mread \in Nat /\ rxSymbols \in Seq(Item)
  BY Zenon DEF RxInv, EqInv, HeadersInv, MacSafe, MacInv
<1>1. NextItem /\ \E n, meta : \E symbols \in Seq(Item) : Collect(dFrame', n, symbols, meta)
  <2>1. <<>> \in Seq(Item)
    OBVIOUS
  <2>2. CASE PlainItem
    <3>1. NextItem /\ Collect(dFrame, copied, rxSymbols, dMeta) /\ dFrame' = dFrame
      BY <2>2, Zenon DEF PlainItem
    <3> QED
      BY <1>i, <3>1, Zenon
  <2>3. CASE RejectFrame
    <3>1. NextItem /\ Collect(dFrame, copied, rxSymbols, dMeta') /\ dFrame' = dFrame
      BY <2>3, Zenon DEF RejectFrame
    <3> QED
      BY <1>i, <3>1
  <2>4. CASE AcceptFrame
    <3>1. NextItem /\ Collect(dFrame', 0, <<>>, dMeta')
      BY <2>4, Zenon DEF AcceptFrame
    <3> QED
      BY <2>1, <3>1, Zenon
  <2> QED
    BY <2>2, <2>3, <2>4 DEF MacWork
<1>2. mread < Len(items)
  BY <1>1, Zenon DEF NextItem
<1>3. PICK j \in DOMAIN headers : items[mread + 1].frame = headers[j].frame
  BY <1>i, <1>2, NextItemIs, Zenon
<1>4. items[mread + 1] \in Item
  <2>1. mread + 1 \in DOMAIN items
    BY <1>i, <1>2, BufferNow
  <2> QED
    BY <1>i, <2>1, BufferNow, Zenon
<1> QED
  BY <1>1, <1>3, <1>4, CollectPublishes, Zenon

LEMMA PduKeeps ==
    ASSUME RxInv, RxInv', PduInv, MacWork, UNCHANGED symbolVars
    PROVE  /\ PduInv'
           /\ KEEP_CORRUPTED = FALSE => Delivery!DeliverFrame \/ pdus' = pdus
<1> DEFINE f == dFrame'.frame
<1>i. /\ \E S : mdecodes \in Seq(S)
      /\ f \in Nat
      /\ \A c, d \in DOMAIN mdecodes' : c < d => mdecodes'[c].frame < mdecodes'[d].frame
  BY Zenon DEF RxInv, MacSafe, MacInv, DecodedInv, CompleteFramesDecoded
<1>p. /\ pdus \in Seq(Nat)
      /\ \A k \in DOMAIN pdus : \E d \in DOMAIN mdecodes : pdus[k] = mdecodes[d].frame
  BY Zenon DEF PduInv
<1>1. CASE mdecodes' = mdecodes /\ pdus' = pdus
  BY <1>1, <1>p, Zenon DEF PduInv
<1>2. ASSUME NEW d, NEW ok \in BOOLEAN,
             mdecodes' = Append(mdecodes, d), d.frame = f,
             pdus' = IF ok \/ KEEP_CORRUPTED THEN Append(pdus, f) ELSE pdus,
             ok => \E j \in DOMAIN headers : headers[j].frame = f
      PROVE  /\ PduInv'
             /\ KEEP_CORRUPTED = FALSE => Delivery!DeliverFrame \/ pdus' = pdus
  <2> DEFINE n == Len(mdecodes)
             l == Len(pdus)
  <2>1. /\ n \in Nat /\ DOMAIN mdecodes = 1 .. n /\ DOMAIN mdecodes' = 1 .. n + 1
        /\ \A k \in 1 .. n : mdecodes'[k] = mdecodes[k]
        /\ mdecodes'[n + 1] = d
    BY <1>i, <1>2, Appended
  <2>2. \A k \in DOMAIN pdus : \E c \in DOMAIN mdecodes' : pdus[k] = mdecodes'[c].frame
    <3>1. \A k \in 1 .. n : k \in 1 .. n + 1
      BY <2>1
    <3> QED
      BY <1>p, <2>1, <3>1, Zenon
  <2>3. n + 1 \in DOMAIN mdecodes' /\ mdecodes'[n + 1].frame = f
    BY <1>2, <2>1
  <2>4. /\ Append(pdus, f) \in Seq(Nat) /\ l \in Nat /\ DOMAIN pdus = 1 .. l
        /\ DOMAIN Append(pdus, f) = 1 .. l + 1
        /\ \A k \in 1 .. l : Append(pdus, f)[k] = pdus[k]
        /\ Append(pdus, f)[l + 1] = f
    BY <1>i, <1>p, Added
  <2>5. \A k \in 1 .. l + 1 : k \in 1 .. l \/ k = l + 1
    BY <2>4
  <2>6. PduInv'
    <3>1. CASE pdus' = pdus
      BY <1>p, <2>2, <3>1, Zenon DEF PduInv
    <3>2. CASE pdus' = Append(pdus, f)
      BY <2>2, <2>3, <2>4, <2>5, <3>2, Zenon DEF PduInv
    <3> QED
      BY <1>2, <3>1, <3>2, Zenon
  <2>7. \A k \in DOMAIN pdus : pdus[k] < f
    <3> SUFFICES ASSUME NEW k \in DOMAIN pdus PROVE pdus[k] < f
      OBVIOUS
    <3>1. PICK c \in DOMAIN mdecodes : pdus[k] = mdecodes[c].frame
      BY <1>p
    <3>2. c \in DOMAIN mdecodes' /\ c < n + 1 /\ mdecodes'[c] = mdecodes[c]
      BY <2>1
    <3>3. mdecodes'[c].frame < mdecodes'[n + 1].frame
      BY <1>i, <2>3, <3>2, Zenon
    <3> QED
      BY <2>3, <3>1, <3>2, <3>3
  <2>8. ASSUME KEEP_CORRUPTED = FALSE, pdus' # pdus PROVE Delivery!DeliverFrame
    <3>1. ok /\ pdus' = Append(pdus, f)
      BY <1>2, <2>8, Zenon
    <3>2. f \in {headers[j].frame : j \in DOMAIN headers}
      BY <1>2, <3>1, Zenon
    <3>3. {headers'[j].frame : j \in DOMAIN headers'} = {headers[j].frame : j \in DOMAIN headers}
      BY DEF symbolVars
    <3> HIDE DEF f
    <3> QED
      BY <2>7, <3>1, <3>2, <3>3, Zenon DEF Delivery!DeliverFrame
  <2> QED
    BY <2>6, <2>8, Zenon
<1> HIDE DEF f
<1>3. \/ mdecodes' = mdecodes /\ pdus' = pdus
      \/ \E d : \E ok \in BOOLEAN :
            /\ mdecodes' = Append(mdecodes, d) /\ d.frame = f
            /\ pdus' = IF ok \/ KEEP_CORRUPTED THEN Append(pdus, f) ELSE pdus
            /\ ok => \E j \in DOMAIN headers : headers[j].frame = f
  BY WorkPublishes, Zenon DEF f
<1> QED
  BY <1>1, <1>2, <1>3, Zenon

(* A step of frame_equalizer announces a frame that is newer than all, or   *)
(* none.                                                                    *)
LEMMA EqAnnounces ==
    ASSUME RxInv, RxInv', Step, UNCHANGED pdus
    PROVE  \/ Delivery!AnnounceFrame
           \/ UNCHANGED <<{headers[k].frame : k \in DOMAIN headers}, pdus>>
<1>i. /\ EqInv /\ SymbolTypeOK /\ frame \in Nat
      /\ \A k \in DOMAIN headers' : headers'[k].frame \in 1 .. frame'
      /\ \A j, k \in DOMAIN headers' : j < k => headers'[j].frame < headers'[k].frame
  <2>1. EqInv /\ EqInv' /\ OrderInv'
    BY Zenon DEF RxInv
  <2>2. frame \in Nat /\ SymbolTypeOK
    BY <2>1, Zenon DEF EqInv, EqTypes, HeadersInv
  <2> QED
    BY <2>1, <2>2, Zenon DEF OrderInv
<1>1. CASE headers' = headers
  BY <1>1
<1>2. ASSUME frame' = frame,
             NEW h, h.frame = frame, headers' = Append(headers, h)
      PROVE  Delivery!AnnounceFrame
  <2> DEFINE m == Len(headers)
  <2>1. headers \in Seq(Header)
    BY <1>i, Zenon DEF SymbolTypeOK
  <2>2. /\ m \in Nat /\ DOMAIN headers = 1 .. m /\ DOMAIN headers' = 1 .. m + 1
        /\ \A k \in 1 .. m : headers'[k] = headers[k]
        /\ headers'[m + 1] = h
    BY <1>2, <2>1, Appended
  <2> HIDE DEF m
  <2>3. /\ m + 1 \in DOMAIN headers'
        /\ \A k \in 1 .. m : k \in 1 .. m + 1 /\ k < m + 1
        /\ \A k \in 1 .. m + 1 : k \in 1 .. m \/ k = m + 1
    BY <2>2
  <2>4. frame \in 1 .. frame
    BY <1>2, <1>i, <2>2, <2>3, Zenon
  <2>5. \A g \in {headers[k].frame : k \in DOMAIN headers} : g < frame
    BY <1>2, <1>i, <2>2, <2>3, Zenon
  <2>6. /\ {headers'[k].frame : k \in DOMAIN headers'}
              = {headers[k].frame : k \in DOMAIN headers} \cup {frame}
        /\ frame \in {headers'[k].frame : k \in DOMAIN headers'}
    BY <1>2, <2>2, <2>3, Zenon
  <2>7. frame > 0
    BY <1>i, <2>4
  <2>8. pdus' = pdus
    OBVIOUS
  <2> QED
    BY <2>5, <2>6, <2>7, <2>8, Zenon DEF Delivery!AnnounceFrame
<1>3. \/ headers' = headers
      \/ frame' = frame /\ \E h : h.frame = frame /\ headers' = Append(headers, h)
  <2>1. \/ headers' = headers
        \/ /\ frame' = frame
           /\ \E l \in LSigs :
                 headers' = Append(headers, [at |-> Len(items), frame |-> frame,
                                             encoding |-> l.encoding, bytes |-> l.bytes])
    BY <1>i, BufferCases, Zenon
  <2>2. \A l : [at |-> Len(items), frame |-> frame,
                encoding |-> l.encoding, bytes |-> l.bytes].frame = frame
    OBVIOUS
  <2> QED
    BY <2>1, <2>2, Zenon
<1> QED
  BY <1>1, <1>2, <1>3, Zenon

LEMMA PduInit == Init => PduInv
<1> SUFFICES ASSUME Init PROVE PduInv
  OBVIOUS
<1>1. pdus = <<>>
  BY Zenon DEF Init, MacInit
<1>2. pdus \in Seq(Nat) /\ DOMAIN pdus = {}
  BY <1>1
<1> QED
  BY <1>2, Zenon DEF PduInv

LEMMA PduNext ==
    ASSUME RxInv, RxInv', PduInv, [Next]_vars
    PROVE  PduInv'
<1>1. ASSUME UNCHANGED macVars PROVE PduInv'
  <2>1. pdus' = pdus /\ mdecodes' = mdecodes
    BY <1>1 DEF macVars
  <2> QED
    BY <2>1, Zenon DEF PduInv
<1>2. CASE EqStep
  BY <1>1, <1>2, Zenon DEF EqStep
<1>3. CASE MacStep
  <2>1. MacWork /\ UNCHANGED symbolVars
    BY <1>3 DEF MacStep
  <2> QED
    BY <2>1, PduKeeps
<1>4. CASE UNCHANGED vars
  <2>1. UNCHANGED macVars
    BY <1>4 DEF vars
  <2> QED
    BY <1>1, <2>1
<1> QED
  BY <1>2, <1>3, <1>4, Zenon DEF Next

(* Every variable of the receive chain keeps its type, for every number of  *)
(* vectors and frames and every signal field.                               *)
THEOREM ReceiveTypeCorrect == Spec => []TypeOK
<1>1. Init => EqRest /\ MacRest /\ PduInv
  BY RestInit, PduInit
<1>2. ASSUME RxInv, RxInv', EqRest, MacRest, PduInv, [Next]_vars
      PROVE  EqRest' /\ MacRest' /\ PduInv'
  <2>0. PduInv'
    BY <1>2, PduNext
  <2>1. ASSUME UNCHANGED eqVars PROVE EqRest'
    <3>1. /\ fftLen' = fftLen /\ nvectors' = nvectors /\ filled' = filled
          /\ decodes' = decodes
      BY <2>1 DEF eqVars, ownVars, modeVars
    <3> QED
      BY <1>2, <3>1, Zenon DEF EqRest
  <2>2. ASSUME UNCHANGED macVars PROVE MacRest'
    <3>1. /\ dFrame' = dFrame /\ dMeta' = dMeta /\ complete' = complete
          /\ mdecodes' = mdecodes
      BY <2>2 DEF macVars
    <3> QED
      BY <1>2, <3>1, Zenon DEF MacRest
  <2>3. CASE EqStep
    <3>1. Step /\ UNCHANGED macVars /\ EqInv
      BY <1>2, <2>3, Zenon DEF EqStep, Step, RxInv
    <3> QED
      BY <1>2, <2>0, <2>2, <3>1, EqRestKeeps, Zenon
  <2>4. CASE MacStep
    <3>1. MacWork /\ UNCHANGED eqVars
      BY <2>4 DEF MacStep, eqVars
    <3> QED
      BY <1>2, <2>0, <2>1, <3>1, MacRestKeeps, Zenon
  <2>5. CASE UNCHANGED vars
    <3>1. UNCHANGED eqVars /\ UNCHANGED macVars
      BY <2>5 DEF vars, eqVars
    <3> QED
      BY <2>0, <2>1, <2>2, <3>1, Zenon
  <2> QED
    BY <1>2, <2>0, <2>3, <2>4, <2>5, Zenon DEF Next
<1>3. RxInv /\ EqRest /\ MacRest /\ PduInv => TypeOK
  <2> SUFFICES ASSUME RxInv, EqRest, MacRest, PduInv PROVE TypeOK
    OBVIOUS
  <2>1. JobInv /\ SymbolTypeOK /\ MacInv
    BY Zenon DEF RxInv, EqInv, JobInv, HeadersInv, MacSafe
  <2>2. EqTypeOK
    <3>1. active \subseteq Modes
      <4>1. active \in {{}, {"HT"}, {"MIMO"}, {"STBC"}, {"VHT_PENDING"}}
        BY <2>1, TypesNow, Zenon
      <4> QED
        BY <4>1 DEF Modes
    <3> QED
      BY <2>1, <3>1, TypesNow, Zenon DEF EqTypeOK, EqRest, EqDecode
  <2>3. MacTypeOK
    <3>1. mread \in Nat /\ mread <= Len(items) /\ Len(items) \in Nat
      BY <2>1, BufferNow, Zenon DEF MacInv
    <3>2. mread \in 0 .. Len(items)
      BY <3>1
    <3> QED
      BY <2>1, <3>2, Zenon DEF MacTypeOK, MacInv, MacRest, MacDecode, PduInv
  <2> QED
    BY <2>1, <2>2, <2>3, Zenon DEF TypeOK
<1> QED
  BY <1>1, <1>2, <1>3, ReceiveInvariant, PTL DEF Spec

(* The receive chain, without corrupted PDUs asked for, implements          *)
(* FrameDelivery: a PDU that decode_mac publishes is of a frame that was    *)
(* announced, none is published twice, and none after a later one.          *)
THEOREM PdusInOrder ==
    ASSUME KEEP_CORRUPTED = FALSE
    PROVE  Spec => DeliverySpec
<1>k. KEEP_CORRUPTED = FALSE
  OBVIOUS
<1> DEFINE A == {headers[k].frame : k \in DOMAIN headers}
<1>1. Init => Delivery!Init
  <2> SUFFICES ASSUME Init PROVE Delivery!Init
    OBVIOUS
  <2>1. pdus = <<>> /\ headers = <<>>
    BY Zenon DEF Init, MacInit, SymbolInit
  <2>2. A = {}
    BY <2>1
  <2> QED
    BY <2>1, <2>2, Zenon DEF Delivery!Init
<1>2. Init => PduInv
  BY PduInit
<1>3. ASSUME RxInv, RxInv', PduInv, [Next]_vars PROVE PduInv'
  BY <1>3, PduNext
<1>4. ASSUME RxInv, RxInv', PduInv, [Next]_vars
      PROVE  [Delivery!AnnounceFrame \/ Delivery!DeliverFrame]_<<A, pdus>>
  <2>1. ASSUME UNCHANGED macVars PROVE UNCHANGED pdus
    BY <2>1 DEF macVars
  <2>2. ASSUME UNCHANGED symbolVars PROVE UNCHANGED A
    BY <2>2 DEF symbolVars
  <2>3. CASE EqStep
    <3>1. Step /\ UNCHANGED pdus
      BY <2>1, <2>3, Zenon DEF EqStep, Step
    <3> QED
      BY <1>4, <3>1, EqAnnounces
  <2>4. CASE MacStep
    <3>1. MacWork /\ UNCHANGED symbolVars
      BY <2>4 DEF MacStep
    <3>2. Delivery!DeliverFrame \/ pdus' = pdus
      BY <1>4, <1>k, <3>1, PduKeeps, Zenon
    <3> QED
      BY <2>2, <3>1, <3>2
  <2>5. CASE UNCHANGED vars
    <3>1. UNCHANGED macVars /\ UNCHANGED symbolVars
      BY <2>5 DEF vars
    <3> QED
      BY <2>1, <2>2, <3>1
  <2> QED
    BY <1>4, <2>3, <2>4, <2>5, Zenon DEF Next
<1> QED
  BY <1>1, <1>2, <1>3, <1>4, ReceiveInvariant, PTL DEF Spec, DeliverySpec, Delivery!Spec

=============================================================================
