------------------------------ MODULE Viterbi -------------------------------
(***************************************************************************)
(* viterbi_decoder: the trellis, the ring of survivor paths and the two    *)
(* decoders, decode (hard bits) and decode_soft (values up to SOFT_Q), on  *)
(* the same frame: what the transmitter encoded and punctured, then what   *)
(* is behind it in the buffer: what an earlier frame left there or, behind *)
(* the local arrays of the HT and VHT SIG fields, any bytes.               *)
(*                                                                         *)
(* One step is one step of the trellis: two symbols, half of a butterfly2. *)
(* A state of the encoder is its K - 1 bits, newest first; the code's      *)
(* index is the number they make.  A path is the bits that left the        *)
(* register since the last output, oldest first.                           *)
(***************************************************************************)
EXTENDS Integers, Sequences, FiniteSets

CONSTANTS
    K,                  \* constraint length: 7
    TAPS,               \* the ones of the two polynomials: 0155 and 0117
    OUTPUT,             \* trellis steps between two outputs: 8, a byte
    SOFT_Q,             \* a soft value of full confidence in a one: 8
    METRIC_MOD,         \* metrics and symbols are unsigned chars: 256
    MAX_ENCODED_BITS,   \* the length of d_depunctured: 25788
    Rates,              \* [pattern, ntraceback, depth] of the coding rates
    Frames,             \* [data, payload]: scrambled bits, and how many of
                        \* them come before the tail
    Stale(_),           \* the pairs that may be behind the frame, by step
    Confidences         \* the soft values that may stand for a received one

Bit == {0, 1}
ERASURE == 2
Pairs == Bit \X Bit
Byte == 0 .. METRIC_MOD - 1
Symbols == ((Bit \cup {ERASURE}) \X (Bit \cup {ERASURE})) \ {<<ERASURE, ERASURE>>}

ASSUME ViterbiAssumption ==
    /\ K \in Nat /\ K >= 2
    /\ TAPS \in [1 .. 2 -> SUBSET (0 .. K - 1)]
    /\ \A p \in 1 .. 2 : {0, K - 1} \subseteq TAPS[p]
    /\ OUTPUT \in Nat /\ OUTPUT >= K - 1
    /\ SOFT_Q \in Nat /\ SOFT_Q % 2 = 0 /\ SOFT_Q > 0
    /\ METRIC_MOD \in Nat /\ MAX_ENCODED_BITS \in Nat
    /\ 2 * SOFT_Q * (K - 1 + OUTPUT) < METRIC_MOD
    /\ \A r \in Rates : /\ r.pattern \in Seq(Bit) /\ Len(r.pattern) > 0
                        /\ r.ntraceback \in Nat /\ r.ntraceback > 0
                        /\ r.depth \in Nat
                        /\ \A t \in 0 .. MAX_ENCODED_BITS : \E j \in 0 .. 1 :
                              r.pattern[((2 * t + j) % Len(r.pattern)) + 1] = 1
    /\ \A f \in Frames : f.data \in Seq(Bit)
    /\ \A t \in 1 .. MAX_ENCODED_BITS : Stale(t) \subseteq Byte \X Byte
    /\ Confidences \subseteq 0 .. SOFT_Q

States == [1 .. K - 1 -> Bit]
Paths  == [1 .. OUTPUT -> Bit]

VARIABLES
    rate,               \* d_depuncture_pattern, d_ntraceback
    frame,              \* the frame in the buffer
    encoder,            \* the transmitter's register after `steps' bits
    steps,              \* in_count / 2: pairs taken from the buffer
    hard,               \* the state of decode
    soft                \* the state of decode_soft

vars == <<rate, frame, encoder, steps, hard, soft>>

-----------------------------------------------------------------------------
(* convolutional_encoding: the register takes a bit in, and the two coded   *)
(* bits are parities over its taps.                                         *)
Zeros == [i \in 1 .. K - 1 |-> 0]
Shifted(s, b) == [i \in 1 .. K - 1 |-> IF i = 1 THEN b ELSE s[i - 1]]
Register(s, b) == [i \in 0 .. K - 1 |-> IF i = 0 THEN b ELSE s[i]]
Parity(S) == Cardinality(S) % 2
Coded(s, b) ==
    [p \in 1 .. 2 |-> Parity({i \in TAPS[p] : Register(s, b)[i] = 1})]

-----------------------------------------------------------------------------
(* depuncture: the two symbols of step t as they are in the buffer, an      *)
(* erasure where the pattern has none.  depuncture_soft: the same pair as   *)
(* soft values of confidence c, half of SOFT_Q for no information.          *)
Kept(pattern, i) == pattern[(i % Len(pattern)) + 1] = 1
Depunctured(pattern, t, b) ==
    [j \in 1 .. 2 |-> IF Kept(pattern, 2 * t + j - 1) THEN b[j] ELSE ERASURE]

(* Mutant: an erased symbol counts as a zero. *)
SoftZero(v, c) == CASE v = 1 -> c [] v \in {0, ERASURE} -> SOFT_Q - c [] OTHER -> v

Soft(v, c) ==
    CASE v = ERASURE -> SOFT_Q \div 2 [] v = 1 -> c [] v = 0 -> SOFT_Q - c [] OTHER -> v

SoftSymbols(x, c) == [j \in 1 .. 2 |-> Soft(x[j], c[j])]

(* What a branch that expects the bits b gains from the symbols x.  Half of *)
(* the branches expect the bits of the branch table and take metsv, the     *)
(* others (turned = 1) take metsvm: for bits and erasures it is the same.   *)
Xor(b, v) == IF b = 0 THEN v ELSE IF v % 2 = 0 THEN v + 1 ELSE v - 1
Erased(x, j) == x[j] = ERASURE /\ (j = 1 \/ x[1] # ERASURE)
HardAgreement(b, x, j, turned) ==
    IF Erased(x, j) THEN 0
    ELSE IF turned = 1 THEN Xor(1 - b[j], x[j]) ELSE 1 - Xor(b[j], x[j])
SoftAgreement(b, q) == IF b = 1 THEN q ELSE SOFT_Q - q
HardGain(x) ==
    [turned \in Bit |-> [b \in Pairs |->
        (HardAgreement(b, x, 1, turned) + HardAgreement(b, x, 2, turned)) % METRIC_MOD]]
SoftGain(q) ==
    [turned \in Bit |-> [b \in Pairs |->
        (SoftAgreement(b[1], q[1]) + SoftAgreement(b[2], q[2])) % METRIC_MOD]]

-----------------------------------------------------------------------------
(* The butterfly: state n is reached from the two states whose newer bits   *)
(* are n's older ones; h is the bit that leaves the register.  The branch   *)
(* bits are those of the branch table, which has h = 0 and a new bit 0,     *)
(* turned over by each of the two.                                          *)
Before == [n \in States |-> [h \in Bit |->
              [i \in 1 .. K - 1 |-> IF i = K - 1 THEN h ELSE n[i + 1]]]]

BranchTable(n, p) == Parity({i \in TAPS[p] \cap (1 .. K - 2) : n[i + 1] = 1})
Branch == [n \in States |-> [h \in Bit |->
              <<(BranchTable(n, 1) + n[1] + h) % 2, (BranchTable(n, 2) + n[1] + h) % 2>>]]

Arrival(metric, gain, n, h) ==
    (metric[Before[n][h]] + gain[(n[1] + h) % 2][Branch[n][h]]) % METRIC_MOD

(* The better branch survives; of two equal ones, that from the upper half. *)
Leaving(metric, gain, n) ==
    IF Arrival(metric, gain, n, 0) > Arrival(metric, gain, n, 1) THEN 0 ELSE 1

Extended(path, h) == [i \in 1 .. OUTPUT |-> IF i = OUTPUT THEN h ELSE path[i + 1]]

-----------------------------------------------------------------------------
(* get_output: the paths go into the ring, and the path of the best state,  *)
(* of equal ones that of the lowest index, is followed back through it; the *)
(* oldest entry is a byte of the output.  Then the paths are cleared, and   *)
(* the smallest metric is taken off all.                                    *)
Lower(s, t) ==
    \E i \in 1 .. K - 1 : s[i] < t[i] /\ \A j \in i + 1 .. K - 1 : s[j] = t[j]
Best(metric) ==
    CHOOSE s \in States : \A t \in States :
        metric[t] < metric[s] \/ (metric[t] = metric[s] /\ ~Lower(t, s))
Least(metric) ==
    CHOOSE m \in {metric[s] : s \in States} : \A s \in States : m <= metric[s]

(* Mutant: path >> 1. *)
StateOfNewer(path) == [i \in 1 .. K - 1 |-> path[K - i + 1]]

(* The state at the last output is the oldest bits of the path.  For        *)
(* OUTPUT = 8 and K = 7 this is path >> 2.                                  *)
StateOf(path) == [i \in 1 .. K - 1 |-> path[K - i]]

TracedBack(ring, pos, s) ==
    LET at(i) == (pos - i + rate.ntraceback) % rate.ntraceback
        back[i \in 0 .. rate.ntraceback - 1] ==
            IF i = 0 THEN s ELSE StateOf(ring[at(i - 1)][back[i - 1]])
    IN  ring[at(rate.ntraceback - 1)][back[rate.ntraceback - 1]]

Start == [metric |-> [s \in States |-> 0],
          paths  |-> [s \in States |-> [i \in 1 .. OUTPUT |-> 0]],
          ring   |-> [k \in 0 .. rate.ntraceback - 1 |->
                         [s \in States |-> [i \in 1 .. OUTPUT |-> 0]]],
          pos    |-> 0,
          count  |-> 0,
          out    |-> <<>>]

Select(d, gain) ==
    LET leaving == [n \in States |-> Leaving(d.metric, gain, n)] IN
    [d EXCEPT !.metric = [n \in States |-> Arrival(d.metric, gain, n, leaving[n])],
              !.paths  = [n \in States |->
                              Extended(d.paths[Before[n][leaving[n]]], leaving[n])]]

(* Mutant: the smallest metric stays. *)
NormalisedNot(metric) == metric

Normalised(metric) ==
    LET least == Least(metric) IN [s \in States |-> metric[s] - least]

Output(d) ==
    LET pos  == (d.pos + 1) % rate.ntraceback
        ring == [d.ring EXCEPT ![pos] = d.paths]
        emit == /\ d.count >= rate.ntraceback
                /\ Len(d.out) + OUTPUT <= (3 * MAX_ENCODED_BITS) \div 4
    IN  [metric |-> Normalised(d.metric),
         paths  |-> [s \in States |-> [i \in 1 .. OUTPUT |-> 0]],
         ring   |-> ring,
         pos    |-> pos,
         count  |-> d.count + 1,
         out    |-> IF emit THEN d.out \o TracedBack(ring, pos, Best(d.metric))
                            ELSE d.out]

(* in_count % 16 = 8: six steps, then every eight. *)
OutputDue == (steps + 1) % OUTPUT = (K - 1) % OUTPUT

Decoded(d, gain) ==
    IF OutputDue THEN Output(Select(d, gain)) ELSE Select(d, gain)

-----------------------------------------------------------------------------
Init ==
    /\ rate \in Rates
    /\ frame \in Frames
    /\ encoder = Zeros
    /\ steps = 0
    /\ hard = Start /\ soft = Start

Wanted(d) == Len(d.out) < Len(frame.data) /\ 2 * steps < MAX_ENCODED_BITS

(* The pair x of the buffer goes through both decoders, as bits through   *)
(* one and with confidences c through the other.                            *)
Decode(x, c) ==
    /\ Wanted(hard) /\ Wanted(soft)
    /\ steps' = steps + 1
    /\ hard' = Decoded(hard, HardGain(x))
    /\ soft' = Decoded(soft, SoftGain(SoftSymbols(x, c)))
    /\ UNCHANGED <<rate, frame>>

(* A pair of the frame, without noise. *)
DecodeFrame(c) ==
    /\ steps < Len(frame.data)
    /\ encoder' = Shifted(encoder, frame.data[steps + 1])
    /\ Decode(Depunctured(rate.pattern, steps, Coded(encoder, frame.data[steps + 1])), c)

(* A pair behind it: the last bits come out only after ntraceback outputs   *)
(* more.  Behind the local arrays of the HT and VHT SIG fields the pair is  *)
(* not even one of bits.                                                    *)
DecodeStale(c) ==
    /\ steps >= Len(frame.data)
    /\ \E x \in Stale(steps + 1) : Decode(x, c)
    /\ UNCHANGED encoder

Next == \E c \in [1 .. 2 -> Confidences] : DecodeFrame(c) \/ DecodeStale(c)

Spec == Init /\ [][Next]_vars

-----------------------------------------------------------------------------
(* "Metrics stay in uint8 because SOFT_Q is small and the per-output        *)
(* min-normalisation bounds the spread, exactly as in the hard path"        *)
(* (viterbi_decoder/base.cc:72): no sum of a metric and the best branch of  *)
(* two bits or soft values wraps.  This holds up to the end of every frame, *)
(* and behind it where other frames left what is there.                     *)
MetricsFit ==
    \A s \in States : /\ hard.metric[s] + 2 < METRIC_MOD
                      /\ soft.metric[s] + 2 * SOFT_Q < METRIC_MOD

(* "A full-confidence soft input decodes identically to the hard decode()"  *)
(* (viterbi_decoder/base.h:42): the same paths survive every step, ties and *)
(* erasures included, and the same bits come out.                           *)
SoftAgrees == hard.paths = soft.paths /\ hard.ring = soft.ring /\ hard.out = soft.out

(* What is behind the frame, bytes of any value, does no damage further     *)
(* than `depth' bits from its end: the bits before are those that were sent.*)
(* Which depth is enough is a property of the code (DepthSuffices, below).  *)
DamageConfined ==
    \A i \in DOMAIN hard.out :
        i <= Len(frame.data) - rate.depth => hard.out[i] = frame.data[i]

-----------------------------------------------------------------------------
(* The code alone.  A history of the encoder is the bits it has taken in by *)
(* n steps and, before them, the register it started from.                  *)
Histories(n) == [2 - K .. n -> Bit]
StateAt(p, t) == [i \in 1 .. K - 1 |-> p[t + 1 - i]]
CodeAt(p, t) == Coded(StateAt(p, t - 1), p[t])

(* The ones among the symbols that the pattern keeps: by as many do two     *)
(* histories differ whose sum is p.                                         *)
Weight(pattern, p, n) ==
    Cardinality({x \in (1 .. n) \X (1 .. 2) :
        Kept(pattern, 2 * x[1] + x[2] - 3) /\ CodeAt(p, x[1])[x[2]] = 1})

(* How far behind the decoder the end of the output is.                     *)
Lag(r) == K - 1 + (r.ntraceback - 1) * OUTPUT

(* The depth of r is enough for n steps: the lightest histories to a state  *)
(* have all their ones, but for those of the starting register, in the last *)
(* `depth' bits; and none without weight has a one that is put out.         *)
DepthSuffices(r, n) ==
    /\ \A s \in States :
          LET weighed == {<<p, Weight(r.pattern, p, n)>> :
                              p \in {h \in Histories(n) : StateAt(h, n) = s}}
          IN  \A x \in weighed :
                  (\A y \in weighed : x[2] <= y[2])
                      => \A i \in 1 .. n - r.depth : x[1][i] = 0
    /\ \A m \in Lag(r) + 1 .. n : \A p \in Histories(m) :
          Weight(r.pattern, p, m) = 0 => \A i \in 1 .. m - Lag(r) : p[i] = 0

-----------------------------------------------------------------------------
(* "the TX<->RX self-loop decodes HT/HT40/VHT/STBC/LDPC-HT DATA"            *)
(* (README.md:94-95): the service field and the PSDU of a frame without     *)
(* noise come out as they were sent.                                        *)
PayloadDecoded ==
    \A i \in DOMAIN hard.out : i <= frame.payload => hard.out[i] = frame.data[i]
=============================================================================
