---------------------------- MODULE ViterbiProofs ----------------------------
(***************************************************************************)
(* Path metrics fit in a METRIC_MOD-valued char up to the end of a frame,  *)
(* and behind it where what is there was left by other frames; there, too, *)
(* the soft decoder with full confidence keeps the same survivors as the   *)
(* hard one.  What the hard one keeps to every state is, at the end of the *)
(* frame, a history of the encoder closest to what was taken from the      *)
(* buffer; and so what is behind the frame, bytes of any value, does no    *)
(* damage but to its last bits.  For every constraint length, pair of      *)
(* polynomials, output interval and resolution.                            *)
(***************************************************************************)
EXTENDS Viterbi, ModuloLemmas, FiniteSetTheorems, SequenceTheorems

-----------------------------------------------------------------------------
(* The most that one branch gains. *)
G == 2 * SOFT_Q

(* Metrics are bytes; as long as what is taken from the buffer are bits and *)
(* erasures, no branch gains more than G, turned or not.                    *)
Metrics == [States -> Nat]
ByteMetrics == [States -> Byte]
ByteGains == [Bit -> [Pairs -> Byte]]
Gains == {gain \in [Bit -> [Pairs -> 0 .. G]] : gain[0] = gain[1]}

BytePair(x) == x[1] \in Byte /\ x[2] \in Byte
BitPair(x) == /\ x[1] \in {0, 1, ERASURE} /\ x[2] \in {0, 1, ERASURE}
              /\ ~(x[1] = ERASURE /\ x[2] = ERASURE)

(* What is behind the frame was left by other frames, or is zero, as it is  *)
(* where DATA is decoded.                                                   *)
LeftByFrames == \A t \in 1 .. MAX_ENCODED_BITS : Stale(t) \subseteq Symbols

(* The first n pairs are of a frame of l bits or left by other frames.      *)
Plain(l, n) == n <= l \/ LeftByFrames

(* Two states that differ in their newest d bits only came from the same    *)
(* state d steps ago.                                                       *)
Spread(metric) ==
    \A d \in 0 .. K - 1 : \A s, t \in States :
        (\A i \in d + 1 .. K - 1 : s[i] = t[i]) => metric[s] <= metric[t] + G * d

Bounded(metric, c) == \A s \in States : metric[s] <= G * (K - 1 + c)

(* The steps since the last output. *)
Phase(t) == (t + OUTPUT - (K - 1)) % OUTPUT

IsDecoder(d) == DOMAIN d = {"metric", "paths", "ring", "pos", "count", "out"}

DecoderOK(d, c) == /\ IsDecoder(d) /\ d.metric \in Metrics
                   /\ Spread(d.metric) /\ Bounded(d.metric, c)

Bytes(d) == IsDecoder(d) /\ d.metric \in ByteMetrics

MetricsInv ==
    /\ rate \in Rates /\ frame \in Frames /\ steps \in Nat
    /\ Bytes(hard) /\ Bytes(soft)
    /\ Plain(Len(frame.data), steps) =>
          DecoderOK(hard, Phase(steps)) /\ DecoderOK(soft, Phase(steps))

-----------------------------------------------------------------------------
(* The trellis. *)
LEMMA Constants == /\ K \in Nat /\ K >= 2 /\ OUTPUT \in Nat /\ OUTPUT >= K - 1
                   /\ OUTPUT > 0
                   /\ SOFT_Q \in Nat /\ SOFT_Q > 0 /\ G \in Nat
                   /\ METRIC_MOD \in Nat /\ G * (K - 1 + OUTPUT) < METRIC_MOD
BY ViterbiAssumption DEF G

LEMMA Room2 == G >= 4 /\ G < METRIC_MOD /\ METRIC_MOD \in Nat \ {0}
<1>1. SOFT_Q >= 2
  BY ViterbiAssumption
<1>2. PICK g \in Nat, k \in Nat : g = G /\ k + 1 = K - 1 + OUTPUT
  <2>1. K - 1 + OUTPUT - 1 \in Nat /\ (K - 1 + OUTPUT - 1) + 1 = K - 1 + OUTPUT
    BY Constants
  <2> QED
    BY <2>1, Constants
<1>3. g * (k + 1) = g * k + g /\ g * k \in Nat
  OBVIOUS
<1>4. g <= g * (k + 1)
  BY <1>3
<1>5. g < METRIC_MOD
  BY <1>2, <1>4, Constants
<1> QED
  BY <1>1, <1>2, <1>5, Constants DEF G

LEMMA ModByte ==
    ASSUME NEW a \in Int
    PROVE  /\ a % METRIC_MOD \in Byte
           /\ a \in Byte => a % METRIC_MOD = a
<1>1. PICK F \in Nat \ {0} : F = METRIC_MOD
  BY Room2
<1>2. a % F \in 0 .. F - 1
  BY DivMod
<1>3. ASSUME a \in 0 .. F - 1 PROVE a % F = a
  <2>1. a = F * 0 + a /\ 0 \in Int
    OBVIOUS
  <2> QED
    BY <1>3, <2>1, ModUnique
<1> QED
  BY <1>1, <1>2, <1>3 DEF Byte

LEMMA ParityBit == ASSUME NEW S, IsFiniteSet(S) PROVE Parity(S) \in Bit
<1>1. Cardinality(S) \in Nat
  BY FS_CardinalityType
<1> QED
  BY <1>1 DEF Parity, Bit

LEMMA TapsFinite ==
    ASSUME NEW p \in 1 .. 2, NEW S, S \subseteq TAPS[p]
    PROVE  IsFiniteSet(S)
<1>1. K - 1 \in Int /\ 0 \in Int
  BY Constants
<1>2. IsFiniteSet(0 .. K - 1)
  BY <1>1, FS_Interval
<1>3. S \subseteq 0 .. K - 1
  BY ViterbiAssumption
<1> QED
  BY <1>2, <1>3, FS_Subset

LEMMA BeforeType ==
    ASSUME NEW n \in States, NEW h \in Bit
    PROVE  /\ Before[n][h] \in States
           /\ \A i \in 1 .. K - 2 : Before[n][h][i] = n[i + 1]
           /\ Before[n][h][K - 1] = h
<1>1. Before[n][h] = [i \in 1 .. K - 1 |-> IF i = K - 1 THEN h ELSE n[i + 1]]
  BY DEF Before
<1>2. \A i \in 1 .. K - 1 : i # K - 1 => n[i + 1] \in Bit
  BY Constants DEF States
<1>3. \A i \in 1 .. K - 2 : i \in 1 .. K - 1 /\ i # K - 1
  BY Constants
<1>4. K - 1 \in 1 .. K - 1
  BY Constants
<1> QED
  BY <1>1, <1>2, <1>3, <1>4 DEF States

LEMMA BranchType ==
    ASSUME NEW n \in States, NEW h \in Bit
    PROVE  Branch[n][h] \in Pairs
<1>1. \A p \in 1 .. 2 : BranchTable(n, p) \in Bit
  BY TapsFinite, ParityBit DEF BranchTable
<1>2. n[1] \in Bit
  BY Constants DEF States
<1>3. \A a, b, c \in Bit : (a + b + c) % 2 \in Bit
  BY DEF Bit
<1>4. Branch[n][h] = <<(BranchTable(n, 1) + n[1] + h) % 2, (BranchTable(n, 2) + n[1] + h) % 2>>
  BY DEF Branch
<1> HIDE DEF Bit
<1>5. /\ (BranchTable(n, 1) + n[1] + h) % 2 \in Bit
      /\ (BranchTable(n, 2) + n[1] + h) % 2 \in Bit
  BY <1>1, <1>2, <1>3
<1> QED
  BY <1>4, <1>5 DEF Pairs

-----------------------------------------------------------------------------
(* One step of the trellis. *)

(* No sum wraps. *)
LEMMA Unwrapped ==
    ASSUME NEW metric \in Metrics, NEW gain \in Gains, NEW c \in 0 .. OUTPUT - 1,
           Bounded(metric, c), NEW n \in States, NEW h \in Bit
    PROVE  /\ Arrival(metric, gain, n, h) = metric[Before[n][h]] + gain[0][Branch[n][h]]
           /\ metric[Before[n][h]] \in Nat /\ gain[0][Branch[n][h]] \in 0 .. G
           /\ Arrival(metric, gain, n, h) \in Nat
           /\ Arrival(metric, gain, n, h) <= G * (K - 1 + (c + 1))
<1> DEFINE m == metric[Before[n][h]]
           g == gain[0][Branch[n][h]]
<1>1. m \in Nat /\ g \in 0 .. G
  <2>1. gain[0] \in [Pairs -> 0 .. G]
    BY DEF Gains, Bit
  <2> QED
    BY <2>1, BeforeType, BranchType DEF Metrics
<1>2. m <= G * (K - 1 + c)
  BY BeforeType DEF Bounded
<1> HIDE DEF m, g
<1>3. /\ G * (K - 1 + c) + G = G * (K - 1 + (c + 1))
      /\ G * (K - 1 + (c + 1)) <= G * (K - 1 + OUTPUT)
  <2>1. PICK a \in Nat, k \in Nat, b \in Nat : a = G /\ k = K - 1 + (c + 1) /\ b = K - 1 + OUTPUT
    BY Constants
  <2>2. k <= b
    BY <2>1, Constants
  <2>3. a * k <= a * b
    BY <2>2
  <2>4. a * (k - 1) + a = a * k
    OBVIOUS
  <2>5. k - 1 = K - 1 + c
    BY <2>1, Constants
  <2> QED
    BY <2>1, <2>3, <2>4, <2>5
<1>4. m + g \in Nat /\ m + g <= G * (K - 1 + (c + 1)) /\ m + g < METRIC_MOD
  <2>1. PICK x \in Int, y \in Int, z \in Int :
            x = G * (K - 1 + c) /\ y = G * (K - 1 + (c + 1)) /\ z = G * (K - 1 + OUTPUT)
    BY Constants
  <2> QED
    BY <1>1, <1>2, <1>3, <2>1, Constants
<1>5. (m + g) % METRIC_MOD = m + g
  BY <1>4, Room2, ModByte DEF Byte
<1>6. Arrival(metric, gain, n, h) = m + g
  <2>1. gain[(n[1] + h) % 2] = gain[0]
    <3>1. n[1] \in Bit
      BY Constants DEF States
    <3>2. (n[1] + h) % 2 = 0 \/ (n[1] + h) % 2 = 1
      BY <3>1 DEF Bit
    <3> QED
      BY <3>2 DEF Gains
  <2> QED
    BY <1>5, <2>1 DEF Arrival, m, g
<1> QED
  BY <1>1, <1>4, <1>6 DEF m, g

Survived(metric, gain) ==
    [n \in States |-> Arrival(metric, gain, n, Leaving(metric, gain, n))]

LEMMA LeavingBit ==
    ASSUME NEW metric, NEW gain, NEW n
    PROVE  Leaving(metric, gain, n) \in Bit
BY DEF Leaving, Bit

(* Sums that wrap are bytes all the same. *)
LEMMA StepBytes ==
    ASSUME NEW metric \in ByteMetrics, NEW gain \in ByteGains
    PROVE  Survived(metric, gain) \in ByteMetrics
<1>1. ASSUME NEW n \in States, NEW h \in Bit
      PROVE  Arrival(metric, gain, n, h) \in Byte
  <2>1. metric[Before[n][h]] \in Byte
    BY BeforeType DEF ByteMetrics
  <2>2. (n[1] + h) % 2 \in Bit
    <3>1. n[1] \in Bit
      BY Constants DEF States
    <3> QED
      BY <3>1 DEF Bit
  <2>3. gain[(n[1] + h) % 2][Branch[n][h]] \in Byte
    BY <2>2, BranchType DEF ByteGains
  <2>4. PICK a \in Nat, b \in Nat :
            a = metric[Before[n][h]] /\ b = gain[(n[1] + h) % 2][Branch[n][h]]
    BY <2>1, <2>3 DEF Byte
  <2>5. a + b \in Int
    OBVIOUS
  <2>6. (a + b) % METRIC_MOD \in Byte
    BY <2>5, ModByte
  <2> QED
    BY <2>4, <2>6 DEF Arrival
<1>2. \A n \in States : Survived(metric, gain)[n] \in Byte
  BY <1>1, LeavingBit DEF Survived
<1> QED
  BY <1>2 DEF Survived, ByteMetrics

LEMMA ByteMetricsAre ==
    ASSUME NEW metric \in ByteMetrics
    PROVE  /\ metric \in Metrics
           /\ \A s \in States : metric[s] <= METRIC_MOD
BY Room2 DEF ByteMetrics, Metrics, Byte

LEMMA BestSurvives ==
    ASSUME NEW metric \in Metrics, NEW gain \in Gains, NEW c \in 0 .. OUTPUT - 1,
           Bounded(metric, c), NEW n \in States
    PROVE  /\ Leaving(metric, gain, n) \in Bit
           /\ Survived(metric, gain)[n] \in Nat
           /\ \A h \in Bit : Arrival(metric, gain, n, h) <= Survived(metric, gain)[n]
<1>1. Leaving(metric, gain, n) \in Bit
  BY DEF Leaving, Bit
<1>2. 0 \in Bit /\ 1 \in Bit
  BY DEF Bit
<1>3. Arrival(metric, gain, n, 0) \in Nat /\ Arrival(metric, gain, n, 1) \in Nat
  BY <1>2, Unwrapped
<1>4. Survived(metric, gain)[n] = Arrival(metric, gain, n, Leaving(metric, gain, n))
  BY DEF Survived
<1> QED
  BY <1>1, <1>3, <1>4 DEF Leaving, Bit

LEMMA StepKeeps ==
    ASSUME NEW metric \in Metrics, NEW gain \in Gains, NEW c \in 0 .. OUTPUT - 1,
           Bounded(metric, c), Spread(metric)
    PROVE  /\ Survived(metric, gain) \in Metrics
           /\ Spread(Survived(metric, gain))
           /\ Bounded(Survived(metric, gain), c + 1)
<1> DEFINE new == Survived(metric, gain)
<1>1. new \in Metrics
  BY BestSurvives DEF Survived, Metrics
<1>2. Bounded(new, c + 1)
  BY BestSurvives, Unwrapped DEF Bounded, Survived
<1>3. ASSUME NEW d \in 0 .. K - 1, NEW s \in States, NEW t \in States,
             \A i \in d + 1 .. K - 1 : s[i] = t[i]
      PROVE  new[s] <= new[t] + G * d
  <2>1. CASE d = 0
    <3>1. s = t
      <4>1. d + 1 = 1
        BY <2>1
      <4>2. \A i \in 1 .. K - 1 : s[i] = t[i]
        BY <1>3, <4>1
      <4>3. s = [i \in 1 .. K - 1 |-> s[i]]
        BY DEF States
      <4>4. t = [i \in 1 .. K - 1 |-> t[i]]
        BY DEF States
      <4> QED
        BY <4>2, <4>3, <4>4, Zenon
    <3> QED
      BY <1>1, <2>1, <3>1, Constants DEF Metrics
  <2>2. CASE d # 0
    <3> DEFINE h == Leaving(metric, gain, s)
               p == Before[s][h]
               q == Before[t][h]
    <3>1. h \in Bit /\ p \in States /\ q \in States
      BY BestSurvives, BeforeType
    <3>2. \A i \in d .. K - 1 : p[i] = q[i]
      <4> SUFFICES ASSUME NEW i \in d .. K - 1 PROVE p[i] = q[i]
        OBVIOUS
      <4>1. i = K - 1 \/ (i \in 1 .. K - 2 /\ i + 1 \in d + 1 .. K - 1)
        BY <2>2, Constants
      <4> QED
        BY <1>3, <3>1, <4>1, BeforeType
    <3>3. d - 1 \in 0 .. K - 1 /\ (d - 1) + 1 = d
      BY <2>2, Constants
    <3>4. metric[p] <= metric[q] + G * (d - 1)
      BY <3>1, <3>2, <3>3 DEF Spread
    <3>5. /\ new[s] = metric[p] + gain[0][Branch[s][h]]
          /\ metric[p] \in Nat /\ gain[0][Branch[s][h]] \in 0 .. G
      BY <3>1, Unwrapped DEF Survived
    <3>6. /\ Arrival(metric, gain, t, h) = metric[q] + gain[0][Branch[t][h]]
          /\ metric[q] \in Nat /\ gain[0][Branch[t][h]] \in 0 .. G
          /\ Arrival(metric, gain, t, h) <= new[t] /\ new[t] \in Nat
      BY <3>1, Unwrapped, BestSurvives
    <3>7. G * (d - 1) + G = G * d /\ G * d \in Int /\ G * (d - 1) \in Int
      BY Constants
    <3> QED
      BY <3>4, <3>5, <3>6, <3>7, Constants
  <2> QED
    BY <2>1, <2>2
<1> QED
  BY <1>1, <1>2, <1>3 DEF Spread

LEMMA LeastMetric ==
    ASSUME NEW metric \in Metrics
    PROVE  \E t \in States : /\ Least(metric) = metric[t]
                             /\ \A s \in States : metric[t] <= metric[s]
<1> DEFINE S == {metric[s] : s \in States}
<1>1. S \subseteq Nat /\ S # {}
  <2>1. Zeros \in States
    BY DEF Zeros, States, Bit
  <2> QED
    BY <2>1 DEF Metrics
<1>2. PICK m \in S : \A n \in S : m <= n
  BY <1>1, LeastNat
<1>3. \A s \in States : m <= metric[s]
  BY <1>2
<1>4. Least(metric) \in S /\ \A s \in States : Least(metric) <= metric[s]
  BY <1>3 DEF Least
<1> QED
  BY <1>4

LEMMA NormalisedKeeps ==
    ASSUME NEW metric \in Metrics, Spread(metric)
    PROVE  /\ Normalised(metric) \in Metrics
           /\ Spread(Normalised(metric)) /\ Bounded(Normalised(metric), 0)
<1>1. PICK t \in States : /\ Least(metric) = metric[t]
                          /\ \A s \in States : metric[t] <= metric[s]
  BY LeastMetric
<1> DEFINE new == Normalised(metric)
<1>2. \A s \in States : metric[s] \in Nat /\ new[s] = metric[s] - metric[t]
  BY <1>1 DEF Normalised, Metrics
<1>3. new \in Metrics
  BY <1>1, <1>2 DEF Normalised, Metrics
<1>4. Spread(new)
  <2> SUFFICES ASSUME NEW d \in 0 .. K - 1, NEW s \in States, NEW u \in States,
                      \A i \in d + 1 .. K - 1 : s[i] = u[i]
               PROVE  new[s] <= new[u] + G * d
    BY DEF Spread
  <2>1. metric[s] <= metric[u] + G * d
    BY DEF Spread
  <2>2. PICK x \in Int : x = G * d
    BY Constants
  <2> QED
    BY <1>2, <2>1, <2>2
<1>5. Bounded(new, 0)
  <2> SUFFICES ASSUME NEW s \in States PROVE new[s] <= G * (K - 1 + 0)
    BY DEF Bounded
  <2>1. K - 1 \in 0 .. K - 1 /\ \A i \in (K - 1) + 1 .. K - 1 : s[i] = t[i]
    BY Constants
  <2>2. metric[s] <= metric[t] + G * (K - 1)
    BY <2>1 DEF Spread
  <2>3. K - 1 + 0 = K - 1
    BY Constants
  <2>4. PICK x \in Int : x = G * (K - 1)
    BY Constants
  <2> QED
    BY <1>2, <2>2, <2>3, <2>4
<1> QED
  BY <1>3, <1>4, <1>5

LEMMA NormalisedBytes ==
    ASSUME NEW metric \in ByteMetrics
    PROVE  Normalised(metric) \in ByteMetrics
<1>1. PICK t \in States : /\ Least(metric) = metric[t]
                          /\ \A s \in States : metric[t] <= metric[s]
  BY ByteMetricsAre, LeastMetric
<1>2. ASSUME NEW s \in States PROVE metric[s] - metric[t] \in Byte
  <2>1. metric[s] \in Byte /\ metric[t] \in Byte /\ metric[t] <= metric[s]
    BY <1>1 DEF ByteMetrics
  <2> QED
    BY <2>1, Room2 DEF Byte
<1> QED
  BY <1>1, <1>2 DEF Normalised, ByteMetrics

-----------------------------------------------------------------------------
(* The gains. *)

(* What the bytes x gain is a byte; what bits and erasures gain is how many *)
(* of them are expected.                                                    *)
LEMMA HardGainBytes == ASSUME NEW x, BytePair(x) PROVE HardGain(x) \in ByteGains
<1>1. ASSUME NEW b \in Pairs, NEW turned \in Bit, NEW j \in 1 .. 2
      PROVE  HardAgreement(b, x, j, turned) \in Int
  <2>1. b[j] \in Bit /\ 1 - b[j] \in Bit
    <3>1. j = 1 \/ j = 2
      OBVIOUS
    <3> QED
      BY <3>1 DEF Pairs, Bit
  <2>2. x[j] \in Nat
    <3>1. j = 1 \/ j = 2
      OBVIOUS
    <3> QED
      BY <3>1 DEF BytePair, Byte
  <2>3. \A a, v \in Nat : Xor(a, v) \in Int
    BY DEF Xor
  <2>4. Xor(b[j], x[j]) \in Int /\ Xor(1 - b[j], x[j]) \in Int
    BY <2>1, <2>2, <2>3 DEF Bit
  <2> QED
    BY <2>4 DEF HardAgreement
<1>2. ASSUME NEW b \in Pairs, NEW turned \in Bit
      PROVE  (HardAgreement(b, x, 1, turned) + HardAgreement(b, x, 2, turned)) % METRIC_MOD \in Byte
  <2>1. HardAgreement(b, x, 1, turned) + HardAgreement(b, x, 2, turned) \in Int
    BY <1>1
  <2> QED
    BY <2>1, ModByte
<1> QED
  BY <1>2 DEF HardGain, ByteGains

LEMMA SoftGainBytes ==
    ASSUME NEW x, BytePair(x), NEW c \in [1 .. 2 -> Confidences]
    PROVE  SoftGain(SoftSymbols(x, c)) \in ByteGains
<1>1. ASSUME NEW j \in 1 .. 2 PROVE SoftSymbols(x, c)[j] \in Int
  <2>1. c[j] \in Int /\ x[j] \in Int /\ SOFT_Q \div 2 \in Int /\ SOFT_Q \in Int
    <3>1. j = 1 \/ j = 2
      OBVIOUS
    <3>2. x[j] \in Int
      BY <3>1 DEF BytePair, Byte
    <3>3. c[j] \in Confidences /\ Confidences \subseteq 0 .. SOFT_Q
      BY ViterbiAssumption
    <3>4. c[j] \in 0 .. SOFT_Q
      BY <3>3
    <3>5. \A v \in 0 .. SOFT_Q : v \in Int
      OBVIOUS
    <3>6. SOFT_Q \div 2 \in Int
      BY Constants
    <3> QED
      BY <3>2, <3>4, <3>5, <3>6, Constants
  <2>2. Soft(x[j], c[j]) \in Int
    BY <2>1 DEF Soft
  <2> QED
    BY <2>2 DEF SoftSymbols
<1>2. \A b, q : q \in Int => SoftAgreement(b, q) \in Int
  BY Constants DEF SoftAgreement
<1>3. ASSUME NEW b \in Pairs
      PROVE  (SoftAgreement(b[1], SoftSymbols(x, c)[1])
                 + SoftAgreement(b[2], SoftSymbols(x, c)[2])) % METRIC_MOD \in Byte
  <2>1. SoftAgreement(b[1], SoftSymbols(x, c)[1])
            + SoftAgreement(b[2], SoftSymbols(x, c)[2]) \in Int
    BY <1>1, <1>2
  <2> QED
    BY <2>1, ModByte
<1> QED
  BY <1>3 DEF SoftGain, ByteGains

Match(b, v) == IF b = v THEN 1 ELSE 0

LEMMA HardGainIs ==
    ASSUME NEW x, BitPair(x), NEW turned \in Bit, NEW b \in Pairs
    PROVE  /\ HardGain(x)[turned][b] = Match(b[1], x[1]) + Match(b[2], x[2])
           /\ HardGain(x)[turned][b] \in 0 .. G
<1>1. b[1] \in {0, 1} /\ b[2] \in {0, 1}
  BY DEF Pairs, Bit
<1>2. HardAgreement(b, x, 1, turned) = Match(b[1], x[1])
  BY <1>1 DEF BitPair, HardAgreement, Erased, Xor, Match, ERASURE, Bit
<1>3. HardAgreement(b, x, 2, turned) = Match(b[2], x[2])
  BY <1>1 DEF BitPair, HardAgreement, Erased, Xor, Match, ERASURE, Bit
<1>4. PICK m \in 0 .. 2 : m = Match(b[1], x[1]) + Match(b[2], x[2])
  BY DEF Match
<1>5. m \in Byte /\ m \in Int /\ m \in 0 .. G
  BY Room2, Constants DEF Byte
<1>6. m % METRIC_MOD = m
  BY <1>5, ModByte
<1> QED
  BY <1>2, <1>3, <1>4, <1>5, <1>6 DEF HardGain

LEMMA HardGainType == ASSUME NEW x, BitPair(x) PROVE HardGain(x) \in Gains
<1>1. HardGain(x) \in [Bit -> [Pairs -> 0 .. G]]
  BY HardGainIs DEF HardGain
<1>2. \A b \in Pairs : HardGain(x)[0][b] = HardGain(x)[1][b]
  BY HardGainIs DEF Bit
<1>3. /\ HardGain(x)[0] = [b \in Pairs |-> HardGain(x)[0][b]]
      /\ HardGain(x)[1] = [b \in Pairs |-> HardGain(x)[1][b]]
  BY DEF HardGain, Bit
<1>4. HardGain(x)[0] = HardGain(x)[1]
  BY <1>2, <1>3
<1> QED
  BY <1>1, <1>4 DEF Gains

LEMMA SoftGainIs ==
    ASSUME NEW x, BitPair(x), NEW c \in [1 .. 2 -> Confidences],
           NEW turned \in Bit, NEW b \in Pairs
    PROVE  /\ SoftGain(SoftSymbols(x, c))[turned][b]
                  = SoftAgreement(b[1], SoftSymbols(x, c)[1])
                        + SoftAgreement(b[2], SoftSymbols(x, c)[2])
           /\ SoftGain(SoftSymbols(x, c))[turned][b] \in 0 .. G
<1>1. \A j \in 1 .. 2 : c[j] \in 0 .. SOFT_Q
  BY ViterbiAssumption
<1>2. SOFT_Q \div 2 \in 0 .. SOFT_Q
  BY Constants
<1>3. \A v, q : v \in {0, 1, ERASURE} /\ q \in 0 .. SOFT_Q => Soft(v, q) \in 0 .. SOFT_Q
  BY <1>2, Constants DEF Soft, ERASURE
<1>4. SoftSymbols(x, c)[1] \in 0 .. SOFT_Q /\ SoftSymbols(x, c)[2] \in 0 .. SOFT_Q
  BY <1>1, <1>3 DEF SoftSymbols, BitPair
<1>5. \A a, q : q \in 0 .. SOFT_Q => SoftAgreement(a, q) \in 0 .. SOFT_Q
  BY Constants DEF SoftAgreement
<1>6. PICK u \in 0 .. SOFT_Q : u = SoftAgreement(b[1], SoftSymbols(x, c)[1])
  BY <1>4, <1>5
<1>7. PICK v \in 0 .. SOFT_Q : v = SoftAgreement(b[2], SoftSymbols(x, c)[2])
  BY <1>4, <1>5
<1>8. u + v \in 0 .. G /\ u + v \in Byte /\ u + v \in Int
  BY Room2, Constants DEF Byte, G
<1>9. (u + v) % METRIC_MOD = u + v
  BY <1>8, ModByte
<1> QED
  BY <1>6, <1>7, <1>8, <1>9 DEF SoftGain

LEMMA SoftGainType ==
    ASSUME NEW x, BitPair(x), NEW c \in [1 .. 2 -> Confidences]
    PROVE  SoftGain(SoftSymbols(x, c)) \in Gains
<1> DEFINE gain == SoftGain(SoftSymbols(x, c))
<1>1. gain \in [Bit -> [Pairs -> 0 .. G]]
  BY SoftGainIs DEF SoftGain
<1>2. \A b \in Pairs : gain[0][b] = gain[1][b]
  BY SoftGainIs DEF Bit
<1>3. gain[0] = [b \in Pairs |-> gain[0][b]] /\ gain[1] = [b \in Pairs |-> gain[1][b]]
  BY DEF SoftGain, Bit
<1> HIDE DEF gain
<1>4. gain[0] = gain[1]
  BY <1>2, <1>3
<1>5. gain \in Gains
  BY <1>1, <1>4 DEF Gains
<1> QED
  BY <1>5 DEF gain

-----------------------------------------------------------------------------
(* A step of a decoder. *)
LEMMA PhaseNext ==
    ASSUME NEW t \in Nat
    PROVE  /\ Phase(t) \in 0 .. OUTPUT - 1
           /\ \/ Phase(t + 1) = Phase(t) + 1
              \/ Phase(t + 1) = 0 /\ (t + 1) % OUTPUT = (K - 1) % OUTPUT
<1> DEFINE a == t + OUTPUT - (K - 1)
<1>1. a \in Int /\ OUTPUT \in Nat \ {0} /\ K - 1 \in Int
  BY Constants
<1>2. Phase(t) = a % OUTPUT /\ Phase(t + 1) = (a + 1) % OUTPUT
  <2>1. t + 1 + OUTPUT - (K - 1) = a + 1
    BY Constants
  <2> QED
    BY <2>1 DEF Phase
<1> HIDE DEF a
<1>3. (a + 1) % OUTPUT = IF (a % OUTPUT) + 1 = OUTPUT THEN 0 ELSE (a % OUTPUT) + 1
  BY <1>1, ModNext
<1>4. a % OUTPUT \in 0 .. OUTPUT - 1
  BY <1>1, DivMod
<1>5. ASSUME (a + 1) % OUTPUT = 0
      PROVE  (t + 1) % OUTPUT = (K - 1) % OUTPUT
  <2>1. PICK F \in Nat \ {0}, k \in Int : F = OUTPUT /\ k = K - 1
    BY <1>1
  <2>0. PICK b \in Int : b = a + 1
    BY <1>1
  <2>2. PICK q \in Int, r \in 0 .. F - 1 : b = F * q + r /\ b % F = r
    BY Recompose
  <2>3. r = 0
    BY <1>5, <2>0, <2>1, <2>2
  <2>4. PICK p \in Int, m \in 0 .. F - 1 : k = F * p + m /\ k % F = m
    BY Recompose
  <2>5. b = t + 1 + F - k
    BY <2>0, <2>1, Constants DEF a
  <2>6. t + 1 = F * (q - 1 + p) + m
    <3>1. t + 1 = F * q - F + F * p + m
      BY <2>2, <2>3, <2>4, <2>5
    <3>2. F * (q - 1 + p) = F * q - F + F * p
      OBVIOUS
    <3> QED
      BY <3>1, <3>2
  <2>7. t + 1 \in Int /\ q - 1 + p \in Int
    OBVIOUS
  <2>8. (t + 1) % F = m
    BY <2>6, <2>7, ModUnique
  <2> QED
    BY <2>1, <2>4, <2>8
<1> QED
  BY <1>2, <1>3, <1>4, <1>5

LEMMA SelectIs ==
    ASSUME NEW d, IsDecoder(d), NEW gain
    PROVE  LET leaving == [n \in States |-> Leaving(d.metric, gain, n)]
               e == Select(d, gain)
           IN  /\ IsDecoder(e)
               /\ e.metric = Survived(d.metric, gain)
               /\ e.paths = [n \in States |->
                                 Extended(d.paths[Before[n][leaving[n]]], leaving[n])]
               /\ e.ring = d.ring /\ e.pos = d.pos /\ e.count = d.count /\ e.out = d.out
<1> DEFINE leaving == [n \in States |-> Leaving(d.metric, gain, n)]
           metric == [n \in States |-> Arrival(d.metric, gain, n, leaving[n])]
           paths == [n \in States |-> Extended(d.paths[Before[n][leaving[n]]], leaving[n])]
           e == [d EXCEPT !.metric = metric, !.paths = paths]
<1>1. metric = Survived(d.metric, gain)
  BY DEF Survived
<1>2. Select(d, gain) = e
  BY DEF Select
<1> HIDE DEF metric, paths
<1>3. /\ IsDecoder(e) /\ e.metric = metric /\ e.paths = paths
      /\ e.ring = d.ring /\ e.pos = d.pos /\ e.count = d.count /\ e.out = d.out
  BY DEF IsDecoder
<1> HIDE DEF e
<1> QED
  BY <1>1, <1>2, <1>3 DEF paths, leaving

LEMMA SelectParts ==
    ASSUME NEW d, IsDecoder(d), NEW gain
    PROVE  /\ IsDecoder(Select(d, gain))
           /\ Select(d, gain).metric = Survived(d.metric, gain)
           /\ Select(d, gain).ring = d.ring /\ Select(d, gain).pos = d.pos
           /\ Select(d, gain).count = d.count /\ Select(d, gain).out = d.out
BY SelectIs, ZenonT(60)

LEMMA DecodedKeeps ==
    ASSUME NEW d, steps \in Nat, DecoderOK(d, Phase(steps)), NEW gain \in Gains
    PROVE  DecoderOK(Decoded(d, gain), Phase(steps + 1))
<1>1. /\ Phase(steps) \in 0 .. OUTPUT - 1
      /\ \/ Phase(steps + 1) = Phase(steps) + 1
         \/ Phase(steps + 1) = 0 /\ OutputDue
  BY PhaseNext DEF OutputDue
<1> DEFINE e == Select(d, gain)
<1>2. IsDecoder(e) /\ e.metric = Survived(d.metric, gain)
  BY SelectParts DEF DecoderOK
<1>3. e.metric \in Metrics /\ Spread(e.metric) /\ Bounded(e.metric, Phase(steps) + 1)
  BY <1>1, <1>2, StepKeeps DEF DecoderOK
<1> HIDE DEF e
<1>4. CASE OutputDue
  <2>1. Decoded(d, gain) = Output(e)
    BY <1>4 DEF Decoded, e
  <2>2. IsDecoder(Output(e)) /\ Output(e).metric = Normalised(e.metric)
    BY DEF Output, IsDecoder
  <2>3. /\ Normalised(e.metric) \in Metrics /\ Spread(Normalised(e.metric))
        /\ Bounded(Normalised(e.metric), 0)
    BY <1>3, NormalisedKeeps
  <2>4. Bounded(Normalised(e.metric), Phase(steps + 1))
    <3>1. PICK c \in Nat : c = Phase(steps + 1)
      BY <1>1
    <3>2. G * (K - 1 + 0) <= G * (K - 1 + c)
      <4>1. PICK g \in Nat, k \in Nat : g = G /\ k = K - 1
        BY Constants
      <4>2. g * (k + c) = g * k + g * c /\ g * c \in Nat /\ g * (k + 0) = g * k
        OBVIOUS
      <4>3. g * (k + 0) <= g * (k + c)
        BY <4>2
      <4> QED
        BY <4>1, <4>3
    <3>3. \A s \in States : Normalised(e.metric)[s] \in Nat
      BY <2>3 DEF Metrics
    <3>4. PICK x \in Int, y \in Int : x = G * (K - 1 + 0) /\ y = G * (K - 1 + c)
      BY Constants
    <3> QED
      BY <2>3, <3>1, <3>2, <3>3, <3>4 DEF Bounded
  <2> QED
    BY <2>1, <2>2, <2>3, <2>4 DEF DecoderOK
<1>5. CASE ~OutputDue
  <2>1. Decoded(d, gain) = e
    BY <1>5 DEF Decoded, e
  <2> QED
    BY <1>1, <1>2, <1>3, <1>5, <2>1 DEF DecoderOK
<1> QED
  BY <1>4, <1>5

LEMMA DecodedBytes ==
    ASSUME NEW d, Bytes(d), NEW gain \in ByteGains
    PROVE  Bytes(Decoded(d, gain))
<1> DEFINE e == Select(d, gain)
<1>1. IsDecoder(e) /\ e.metric = Survived(d.metric, gain)
  BY SelectParts DEF Bytes
<1>2. e.metric \in ByteMetrics
  BY <1>1, StepBytes DEF Bytes
<1> HIDE DEF e
<1>3. CASE OutputDue
  <2>1. Decoded(d, gain) = Output(e)
    BY <1>3 DEF Decoded, e
  <2>2. IsDecoder(Output(e)) /\ Output(e).metric = Normalised(e.metric)
    BY DEF Output, IsDecoder
  <2> QED
    BY <1>2, <2>1, <2>2, NormalisedBytes DEF Bytes
<1>4. CASE ~OutputDue
  <2>1. Decoded(d, gain) = e
    BY <1>4 DEF Decoded, e
  <2> QED
    BY <1>1, <1>2, <2>1 DEF Bytes
<1> QED
  BY <1>3, <1>4

LEMMA StartOK == DecoderOK(Start, Phase(0)) /\ Bytes(Start)
<1>1. IsDecoder(Start) /\ Start.metric = [s \in States |-> 0]
  BY DEF Start, IsDecoder
<1>2. Start.metric \in Metrics
  BY <1>1 DEF Metrics
<1>3. \A d \in 0 .. K - 1 : G * d >= 0
  BY Constants
<1>4. Spread(Start.metric)
  <2> SUFFICES ASSUME NEW d \in 0 .. K - 1, NEW s \in States, NEW t \in States
               PROVE  Start.metric[s] <= Start.metric[t] + G * d
    BY DEF Spread
  <2>1. PICK x \in Int : x = G * d
    BY Constants
  <2> QED
    BY <1>1, <1>3, <2>1
<1>5. Bounded(Start.metric, Phase(0))
  <2>1. PICK c \in Nat : c = Phase(0)
    BY PhaseNext
  <2>2. G * (K - 1 + c) >= 0
    BY Constants
  <2> QED
    BY <1>1, <2>1, <2>2 DEF Bounded
<1>6. Start.metric \in ByteMetrics
  BY <1>1, Room2 DEF ByteMetrics, Byte
<1> QED
  BY <1>1, <1>2, <1>4, <1>5, <1>6 DEF DecoderOK, Bytes

LEMMA CodedBit ==
    ASSUME NEW s, NEW b, NEW p \in 1 .. 2
    PROVE  Coded(s, b)[p] \in Bit
BY TapsFinite, ParityBit DEF Coded

(* A pair of the frame is one of bits and erasures, and not of two          *)
(* erasures; one behind it is a pair of bytes, and of bits and erasures if  *)
(* it was left by another frame.                                            *)
LEMMA FramePair ==
    ASSUME NEW r \in Rates, NEW t \in 0 .. MAX_ENCODED_BITS, NEW s, NEW b
    PROVE  /\ BitPair(Depunctured(r.pattern, t, Coded(s, b)))
           /\ BytePair(Depunctured(r.pattern, t, Coded(s, b)))
<1> DEFINE x == Depunctured(r.pattern, t, Coded(s, b))
<1>1. Coded(s, b)[1] \in {0, 1} /\ Coded(s, b)[2] \in {0, 1}
  BY CodedBit DEF Bit
<1>2. /\ x[1] = IF Kept(r.pattern, 2 * t) THEN Coded(s, b)[1] ELSE ERASURE
      /\ x[2] = IF Kept(r.pattern, 2 * t + 1) THEN Coded(s, b)[2] ELSE ERASURE
  <2>1. 2 * t + 1 - 1 = 2 * t /\ 2 * t + 2 - 1 = 2 * t + 1 /\ 1 \in 1 .. 2 /\ 2 \in 1 .. 2
    OBVIOUS
  <2>2. \A j \in 1 .. 2 :
            x[j] = IF Kept(r.pattern, 2 * t + j - 1) THEN Coded(s, b)[j] ELSE ERASURE
    BY DEF Depunctured
  <2> HIDE DEF x
  <2> QED
    BY <2>1, <2>2
<1>3. Kept(r.pattern, 2 * t) \/ Kept(r.pattern, 2 * t + 1)
  <2>1. PICK j \in 0 .. 1 : r.pattern[((2 * t + j) % Len(r.pattern)) + 1] = 1
    BY ViterbiAssumption
  <2>2. Kept(r.pattern, 2 * t + j)
    BY <2>1 DEF Kept
  <2>3. (j = 0 /\ 2 * t + j = 2 * t) \/ (j = 1 /\ 2 * t + j = 2 * t + 1)
    OBVIOUS
  <2> QED
    BY <2>2, <2>3
<1> HIDE DEF x
<1>4. BitPair(x)
  BY <1>1, <1>2, <1>3 DEF BitPair, ERASURE
<1>5. BytePair(x)
  <2>1. \A v \in {0, 1, ERASURE} : v \in Byte
    BY Room2, Constants DEF Byte, ERASURE
  <2> QED
    BY <1>4, <2>1 DEF BitPair, BytePair
<1> QED
  BY <1>4, <1>5 DEF x

LEMMA PairBehind ==
    ASSUME NEW t \in 1 .. MAX_ENCODED_BITS, NEW x \in Stale(t)
    PROVE  BytePair(x) /\ (LeftByFrames => BitPair(x))
<1>1. x \in Byte \X Byte
  BY ViterbiAssumption
<1>2. LeftByFrames => x \in Symbols
  BY DEF LeftByFrames
<1>3. ASSUME x \in Symbols PROVE BitPair(x)
  <2>1. /\ x \in (Bit \cup {ERASURE}) \X (Bit \cup {ERASURE}) /\ x # <<ERASURE, ERASURE>>
    BY <1>3 DEF Symbols
  <2> QED
    BY <2>1 DEF BitPair, Bit
<1> QED
  BY <1>1, <1>2, <1>3 DEF BytePair

(* Each step takes a pair through both decoders. *)
LEMMA NextDecodes ==
    ASSUME rate \in Rates, frame \in Frames, steps \in Nat,
           NEW c, DecodeFrame(c) \/ DecodeStale(c)
    PROVE  \E x : /\ Decode(x, c)
                  /\ BytePair(x)
                  /\ Plain(Len(frame.data), steps + 1) => BitPair(x)
<1>1. CASE DecodeFrame(c)
  <2> DEFINE x == Depunctured(rate.pattern, steps, Coded(encoder, frame.data[steps + 1]))
  <2>1. Decode(x, c)
    BY <1>1 DEF DecodeFrame
  <2> HIDE DEF x
  <2>2. steps \in 0 .. MAX_ENCODED_BITS
    BY <2>1, ViterbiAssumption DEF Decode, Wanted
  <2>3. BitPair(x) /\ BytePair(x)
    BY <2>2, FramePair DEF x
  <2> QED
    BY <2>1, <2>3
<1>2. CASE DecodeStale(c)
  <2>1. PICK x \in Stale(steps + 1) : Decode(x, c)
    BY <1>2 DEF DecodeStale
  <2>2. steps + 1 \in 1 .. MAX_ENCODED_BITS
    BY <2>1, ViterbiAssumption DEF Decode, Wanted
  <2>3. ~(steps + 1 <= Len(frame.data))
    <3>1. steps >= Len(frame.data) /\ Len(frame.data) \in Nat
      BY <1>2, ViterbiAssumption DEF DecodeStale
    <3> QED
      BY <3>1
  <2>4. BytePair(x) /\ (LeftByFrames => BitPair(x))
    BY <2>2, PairBehind
  <2> QED
    BY <2>1, <2>3, <2>4 DEF Plain
<1> QED
  BY <1>1, <1>2

(* The metrics of states that share their oldest bits are close, and the    *)
(* largest is bounded by the steps since the last output: for any noise and *)
(* any puncturing, up to the end of the frame, and behind it if what is     *)
(* there was left by other frames.                                          *)
THEOREM MetricsInductive == Spec => []MetricsInv
<1>1. Init => MetricsInv
  BY StartOK DEF Init, MetricsInv
<1>2. MetricsInv /\ [Next]_vars => MetricsInv'
  <2> SUFFICES ASSUME MetricsInv, [Next]_vars PROVE MetricsInv'
    OBVIOUS
  <2>1. CASE Next
    <3>0. /\ rate \in Rates /\ frame \in Frames /\ steps \in Nat
          /\ Bytes(hard) /\ Bytes(soft)
      BY DEF MetricsInv
    <3>1. PICK c \in [1 .. 2 -> Confidences] : DecodeFrame(c) \/ DecodeStale(c)
      BY <2>1 DEF Next
    <3>2. PICK x : /\ Decode(x, c)
                   /\ BytePair(x)
                   /\ Plain(Len(frame.data), steps + 1) => BitPair(x)
      BY <3>0, <3>1, NextDecodes
    <3>3. /\ rate' = rate /\ frame' = frame
          /\ steps' = steps + 1
          /\ hard' = Decoded(hard, HardGain(x))
          /\ soft' = Decoded(soft, SoftGain(SoftSymbols(x, c)))
      BY <3>2 DEF Decode
    <3>4. HardGain(x) \in ByteGains /\ SoftGain(SoftSymbols(x, c)) \in ByteGains
      BY <3>2, HardGainBytes, SoftGainBytes
    <3>5. Bytes(hard') /\ Bytes(soft')
      <4>1. Bytes(Decoded(hard, HardGain(x)))
        BY <3>0, <3>4, DecodedBytes
      <4>2. Bytes(Decoded(soft, SoftGain(SoftSymbols(x, c))))
        BY <3>0, <3>4, DecodedBytes
      <4> QED
        BY <3>3, <4>1, <4>2
    <3>6. ASSUME Plain(Len(frame.data), steps + 1)
          PROVE  DecoderOK(hard', Phase(steps')) /\ DecoderOK(soft', Phase(steps'))
      <4>1. Plain(Len(frame.data), steps)
        <5>1. Len(frame.data) \in Nat
          BY <3>0, ViterbiAssumption
        <5> QED
          BY <3>0, <3>6, <5>1 DEF Plain
      <4>2. DecoderOK(hard, Phase(steps)) /\ DecoderOK(soft, Phase(steps))
        BY <4>1 DEF MetricsInv
      <4>3. HardGain(x) \in Gains /\ SoftGain(SoftSymbols(x, c)) \in Gains
        BY <3>2, <3>6, HardGainType, SoftGainType
      <4>4. /\ DecoderOK(Decoded(hard, HardGain(x)), Phase(steps + 1))
            /\ DecoderOK(Decoded(soft, SoftGain(SoftSymbols(x, c))), Phase(steps + 1))
        BY <3>0, <4>2, <4>3, DecodedKeeps
      <4> QED
        BY <3>3, <4>4
    <3>7. steps' \in Nat
      BY <3>0, <3>3
    <3> QED
      BY <3>0, <3>3, <3>5, <3>6, <3>7 DEF MetricsInv
  <2>2. CASE UNCHANGED vars
    <3>1. rate' = rate /\ frame' = frame /\ steps' = steps /\ hard' = hard /\ soft' = soft
      BY <2>2 DEF vars
    <3> QED
      BY <3>1 DEF MetricsInv
  <2> QED
    BY <2>1, <2>2
<1> QED
  BY <1>1, <1>2, PTL DEF Spec

LEMMA BoundedFits ==
    ASSUME NEW t \in Nat, NEW d, DecoderOK(d, Phase(t)), NEW s \in States
    PROVE  d.metric[s] \in Nat /\ d.metric[s] + G < METRIC_MOD
<1>1. PICK c \in 0 .. OUTPUT - 1 : c = Phase(t)
  BY PhaseNext
<1>2. PICK x \in Int, y \in Int : x = G * (K - 1 + c) /\ y = G * (K - 1 + OUTPUT)
  BY Constants
<1>3. x + G <= y
  <2>1. PICK g \in Nat, a \in Nat, b \in Nat : g = G /\ a = K - 1 + c /\ b = K - 1 + OUTPUT
    BY Constants
  <2>2. PICK e \in Nat : b = a + 1 + e
    <3>1. b - a - 1 \in Nat /\ b = a + 1 + (b - a - 1)
      BY <1>1, <2>1, Constants
    <3> QED
      BY <3>1
  <2>3. g * b = g * a + g + g * e /\ g * e \in Nat
    BY <2>2
  <2> QED
    BY <1>2, <2>1, <2>3
<1>4. d.metric[s] \in Nat
  BY DEF DecoderOK, Metrics
<1>5. d.metric[s] <= x
  BY <1>1, <1>2 DEF DecoderOK, Bounded
<1> QED
  BY <1>2, <1>3, <1>4, <1>5, Constants

(* No sum of a metric and a branch wraps in either decoder up to the end of *)
(* a frame, whatever is behind it: "the per-output min-normalisation bounds *)
(* the spread" for every code and soft resolution with                      *)
(* 2 * SOFT_Q * (K - 1 + OUTPUT) < METRIC_MOD ...                           *)
THEOREM MetricsFitInFrame == Spec => [](steps <= Len(frame.data) => MetricsFit)
<1>1. MetricsInv => (steps <= Len(frame.data) => MetricsFit)
  <2> SUFFICES ASSUME MetricsInv, steps <= Len(frame.data), NEW s \in States
               PROVE  /\ hard.metric[s] + 2 < METRIC_MOD
                      /\ soft.metric[s] + 2 * SOFT_Q < METRIC_MOD
    BY DEF MetricsFit
  <2>1. steps \in Nat /\ DecoderOK(hard, Phase(steps)) /\ DecoderOK(soft, Phase(steps))
    BY DEF MetricsInv, Plain
  <2>2. /\ hard.metric[s] \in Nat /\ hard.metric[s] + G < METRIC_MOD
        /\ soft.metric[s] \in Nat /\ soft.metric[s] + G < METRIC_MOD
    BY <2>1, BoundedFits
  <2> QED
    BY <2>2, Room2, Constants DEF G
<1> QED
  BY <1>1, MetricsInductive, PTL

(* ... and none behind it either, if what is there was left by other        *)
(* frames: that is so where DATA is decoded.                                *)
THEOREM MetricsAlwaysFit ==
    ASSUME LeftByFrames
    PROVE  Spec => []MetricsFit
<1>1. MetricsInv => MetricsFit
  <2> SUFFICES ASSUME MetricsInv, NEW s \in States
               PROVE  /\ hard.metric[s] + 2 < METRIC_MOD
                      /\ soft.metric[s] + 2 * SOFT_Q < METRIC_MOD
    BY DEF MetricsFit
  <2>1. steps \in Nat /\ DecoderOK(hard, Phase(steps)) /\ DecoderOK(soft, Phase(steps))
    BY DEF MetricsInv, Plain
  <2>2. /\ hard.metric[s] \in Nat /\ hard.metric[s] + G < METRIC_MOD
        /\ soft.metric[s] \in Nat /\ soft.metric[s] + G < METRIC_MOD
    BY <2>1, BoundedFits
  <2> QED
    BY <2>2, Room2, Constants DEF G
<1> QED
  BY <1>1, MetricsInductive, PTL

-----------------------------------------------------------------------------
(* The soft decoder with full confidence: its metrics are those of the hard *)
(* decoder, times SOFT_Q, plus the same number for every state.             *)
Scaled(f, g, S) == \E e \in Int : \A x \in S : g[x] = SOFT_Q * f[x] + e

Alike(h, s) == /\ h.paths = s.paths /\ h.ring = s.ring /\ h.pos = s.pos
               /\ h.count = s.count /\ h.out = s.out
               /\ Scaled(h.metric, s.metric, States)

LEMMA ScaledSymbol ==
    ASSUME NEW v \in {0, 1, ERASURE}
    PROVE  \E e \in Int : \A b \in Bit :
               SoftAgreement(b, Soft(v, SOFT_Q)) = SOFT_Q * Match(b, v) + e
<1>1. PICK q \in Nat : q = SOFT_Q
  BY Constants
<1>2. PICK m \in Int : m = SOFT_Q \div 2 /\ SOFT_Q = m + m
  BY ViterbiAssumption
<1>3. CASE v = 0
  <2>1. Soft(v, SOFT_Q) = 0
    BY <1>1, <1>3 DEF Soft, ERASURE
  <2>2. \A b \in Bit : SoftAgreement(b, Soft(v, SOFT_Q)) = SOFT_Q * Match(b, v) + 0
    BY <1>1, <1>3, <2>1 DEF SoftAgreement, Match, Bit
  <2> QED
    BY <2>2
<1>4. CASE v = 1
  <2>1. Soft(v, SOFT_Q) = SOFT_Q
    BY <1>1, <1>4 DEF Soft, ERASURE
  <2>2. \A b \in Bit : SoftAgreement(b, Soft(v, SOFT_Q)) = SOFT_Q * Match(b, v) + 0
    BY <1>1, <1>4, <2>1 DEF SoftAgreement, Match, Bit
  <2> QED
    BY <2>2
<1>5. CASE v = ERASURE
  <2>1. Soft(v, SOFT_Q) = m
    BY <1>2, <1>5 DEF Soft, ERASURE
  <2>2. \A b \in Bit : Match(b, v) = 0
    BY <1>5 DEF Match, Bit, ERASURE
  <2>3. \A b \in Bit : SoftAgreement(b, m) = m
    BY <1>1, <1>2 DEF SoftAgreement
  <2>4. SOFT_Q * 0 = 0
    BY <1>1
  <2>5. \A b \in Bit : SoftAgreement(b, Soft(v, SOFT_Q)) = SOFT_Q * Match(b, v) + m
    BY <1>2, <2>1, <2>2, <2>3, <2>4
  <2> QED
    BY <1>2, <2>5
<1> QED
  BY <1>3, <1>4, <1>5

LEMMA ScaledGain ==
    ASSUME NEW x, BitPair(x), NEW c \in [1 .. 2 -> Confidences], c[1] = SOFT_Q, c[2] = SOFT_Q
    PROVE  Scaled(HardGain(x)[0], SoftGain(SoftSymbols(x, c))[0], Pairs)
<1>0. x[1] \in {0, 1, ERASURE} /\ x[2] \in {0, 1, ERASURE}
  BY DEF BitPair
<1>1. PICK e \in Int : \A b \in Bit :
          SoftAgreement(b, Soft(x[1], SOFT_Q)) = SOFT_Q * Match(b, x[1]) + e
  BY <1>0, ScaledSymbol
<1>2. PICK f \in Int : \A b \in Bit :
          SoftAgreement(b, Soft(x[2], SOFT_Q)) = SOFT_Q * Match(b, x[2]) + f
  BY <1>0, ScaledSymbol
<1>3. ASSUME NEW b \in Pairs
      PROVE  SoftGain(SoftSymbols(x, c))[0][b] = SOFT_Q * HardGain(x)[0][b] + (e + f)
  <2>1. b[1] \in Bit /\ b[2] \in Bit /\ 0 \in Bit
    BY DEF Pairs, Bit
  <2>2. SoftSymbols(x, c)[1] = Soft(x[1], SOFT_Q) /\ SoftSymbols(x, c)[2] = Soft(x[2], SOFT_Q)
    BY DEF SoftSymbols
  <2>3. SoftGain(SoftSymbols(x, c))[0][b]
            = SoftAgreement(b[1], Soft(x[1], SOFT_Q)) + SoftAgreement(b[2], Soft(x[2], SOFT_Q))
    BY <2>1, <2>2, SoftGainIs
  <2>4. HardGain(x)[0][b] = Match(b[1], x[1]) + Match(b[2], x[2])
    BY <2>1, HardGainIs
  <2>5. PICK u \in Int, v \in Int : u = Match(b[1], x[1]) /\ v = Match(b[2], x[2])
    BY DEF Match
  <2>6. SOFT_Q * (u + v) = SOFT_Q * u + SOFT_Q * v /\ SOFT_Q * u \in Int /\ SOFT_Q * v \in Int
    BY Constants
  <2> QED
    BY <1>1, <1>2, <2>1, <2>3, <2>4, <2>5, <2>6
<1>4. e + f \in Int
  OBVIOUS
<1> QED
  BY <1>3, <1>4 DEF Scaled

(* The comparisons come out the same. *)
LEMMA ScaledSign ==
    ASSUME NEW q \in Nat \ {0}, NEW x \in Int
    PROVE  /\ x > 0 => q * x > 0
           /\ x < 0 => q * x < 0
           /\ x = 0 => q * x = 0
OBVIOUS

LEMMA ScaledOrder ==
    ASSUME NEW a \in Nat, NEW b \in Nat, NEW e \in Int,
           NEW c \in Int, NEW d \in Int, c = SOFT_Q * a + e, d = SOFT_Q * b + e
    PROVE  c > d <=> a > b
<1>1. PICK q \in Nat \ {0} : q = SOFT_Q
  BY Constants
<1>2. c - d = q * (a - b)
  <2>1. q * (a - b) = q * a - q * b
    OBVIOUS
  <2> QED
    BY <1>1, <2>1
<1> QED
  BY <1>1, <1>2, ScaledSign

LEMMA ScaledStep ==
    ASSUME NEW f \in Metrics, NEW g \in Metrics, Scaled(f, g, States),
           NEW gain \in Gains, NEW soften \in Gains, Scaled(gain[0], soften[0], Pairs),
           NEW c \in 0 .. OUTPUT - 1, Bounded(f, c), Bounded(g, c)
    PROVE  /\ \A n \in States : Leaving(f, gain, n) = Leaving(g, soften, n)
           /\ Scaled(Survived(f, gain), Survived(g, soften), States)
<1>1. PICK e \in Int : \A s \in States : g[s] = SOFT_Q * f[s] + e
  BY DEF Scaled
<1>2. PICK i \in Int : \A b \in Pairs : soften[0][b] = SOFT_Q * gain[0][b] + i
  BY DEF Scaled
<1>3. ASSUME NEW n \in States, NEW h \in Bit
      PROVE  /\ Arrival(f, gain, n, h) \in Nat /\ Arrival(g, soften, n, h) \in Nat
             /\ Arrival(g, soften, n, h) = SOFT_Q * Arrival(f, gain, n, h) + (e + i)
  <2> DEFINE s == Before[n][h]
             b == Branch[n][h]
  <2>1. /\ Arrival(f, gain, n, h) = f[s] + gain[0][b] /\ f[s] \in Nat /\ gain[0][b] \in 0 .. G
        /\ Arrival(f, gain, n, h) \in Nat
    BY Unwrapped
  <2>2. /\ Arrival(g, soften, n, h) = g[s] + soften[0][b] /\ Arrival(g, soften, n, h) \in Nat
    BY Unwrapped
  <2>3. s \in States /\ b \in Pairs
    BY BeforeType, BranchType
  <2>4. g[s] = SOFT_Q * f[s] + e /\ soften[0][b] = SOFT_Q * gain[0][b] + i
    BY <1>1, <1>2, <2>3
  <2> HIDE DEF s, b
  <2>5. PICK x \in Nat, y \in Nat : x = f[s] /\ y = gain[0][b]
    BY <2>1, Constants
  <2>6. SOFT_Q * (x + y) = SOFT_Q * x + SOFT_Q * y /\ SOFT_Q * x \in Int /\ SOFT_Q * y \in Int
    BY Constants
  <2> QED
    BY <2>1, <2>2, <2>4, <2>5, <2>6
<1>4. e + i \in Int /\ 0 \in Bit /\ 1 \in Bit
  BY DEF Bit
<1>5. ASSUME NEW n \in States PROVE Leaving(f, gain, n) = Leaving(g, soften, n)
  <2>1. Arrival(g, soften, n, 0) > Arrival(g, soften, n, 1)
            <=> Arrival(f, gain, n, 0) > Arrival(f, gain, n, 1)
    <3>1. \A k \in Nat : k \in Int
      OBVIOUS
    <3> QED
      BY <1>3, <1>4, <3>1, ScaledOrder
  <2> QED
    BY <2>1 DEF Leaving
<1>6. \A n \in States : Survived(g, soften)[n] = SOFT_Q * Survived(f, gain)[n] + (e + i)
  <2> SUFFICES ASSUME NEW n \in States
               PROVE  Survived(g, soften)[n] = SOFT_Q * Survived(f, gain)[n] + (e + i)
    OBVIOUS
  <2>1. Leaving(f, gain, n) \in Bit
    BY BestSurvives
  <2> QED
    BY <1>3, <1>5, <2>1 DEF Survived
<1> QED
  BY <1>4, <1>5, <1>6 DEF Scaled

LEMMA ScaledOutput ==
    ASSUME NEW f \in Metrics, NEW g \in Metrics, Scaled(f, g, States)
    PROVE  /\ Best(f) = Best(g)
           /\ Scaled(Normalised(f), Normalised(g), States)
<1>1. PICK e \in Int : \A s \in States : g[s] = SOFT_Q * f[s] + e
  BY DEF Scaled
<1>2. \A s \in States : f[s] \in Nat /\ g[s] \in Nat /\ g[s] \in Int
  BY DEF Metrics
<1>3. ASSUME NEW s \in States, NEW t \in States
      PROVE  /\ g[t] < g[s] <=> f[t] < f[s]
             /\ g[t] = g[s] <=> f[t] = f[s]
             /\ g[t] <= g[s] <=> f[t] <= f[s]
             /\ g[s] - g[t] = SOFT_Q * (f[s] - f[t])
  <2>1. /\ f[s] \in Nat /\ g[s] \in Int /\ g[s] = SOFT_Q * f[s] + e
        /\ f[t] \in Nat /\ g[t] \in Int /\ g[t] = SOFT_Q * f[t] + e
    BY <1>1, <1>2
  <2>2. PICK q \in Nat \ {0}, a \in Nat, b \in Nat, c \in Int, d \in Int :
            q = SOFT_Q /\ a = f[s] /\ b = f[t] /\ c = g[s] /\ d = g[t]
    BY <2>1, Constants
  <2>3. c = q * a + e /\ d = q * b + e
    BY <2>1, <2>2
  <2>4. c - d = q * (a - b)
    <3>1. q * (a - b) = q * a - q * b
      OBVIOUS
    <3> QED
      BY <2>3, <3>1
  <2>5. /\ a - b > 0 => q * (a - b) > 0
        /\ a - b < 0 => q * (a - b) < 0
        /\ a - b = 0 => q * (a - b) = 0
    BY ScaledSign
  <2>6. /\ d < c <=> b < a
        /\ d = c <=> b = a
        /\ d <= c <=> b <= a
    BY <2>4, <2>5
  <2> QED
    BY <2>2, <2>4, <2>6
<1>4. Best(f) = Best(g)
  <2> DEFINE P(s) == \A t \in States : f[t] < f[s] \/ (f[t] = f[s] /\ ~Lower(t, s))
             Q(s) == \A t \in States : g[t] < g[s] \/ (g[t] = g[s] /\ ~Lower(t, s))
  <2>1. \A s \in States : P(s) <=> Q(s)
    BY <1>3
  <2>2. Best(f) = (CHOOSE s \in States : P(s)) /\ Best(g) = (CHOOSE s \in States : Q(s))
    BY DEF Best
  <2> HIDE DEF P, Q
  <2>3. (CHOOSE s \in States : P(s)) = (CHOOSE s \in States : Q(s))
    BY <2>1
  <2> QED
    BY <2>2, <2>3
<1>5. PICK t \in States : Least(f) = f[t] /\ \A s \in States : f[t] <= f[s]
  BY LeastMetric
<1>6. PICK u \in States : Least(g) = g[u] /\ \A s \in States : g[u] <= g[s]
  BY LeastMetric
<1>7. g[u] = g[t]
  <2>1. g[t] <= g[u] /\ g[u] <= g[t]
    BY <1>3, <1>5, <1>6
  <2> QED
    BY <1>2, <2>1
<1>8. \A s \in States : Normalised(g)[s] = SOFT_Q * Normalised(f)[s] + 0
  <2> SUFFICES ASSUME NEW s \in States
               PROVE  Normalised(g)[s] = SOFT_Q * Normalised(f)[s] + 0
    OBVIOUS
  <2>1. Normalised(f)[s] = f[s] - f[t] /\ Normalised(g)[s] = g[s] - g[t]
    BY <1>5, <1>6, <1>7 DEF Normalised
  <2>2. SOFT_Q * (f[s] - f[t]) + 0 = SOFT_Q * (f[s] - f[t])
    BY <1>2, Constants
  <2> QED
    BY <1>3, <2>1, <2>2
<1>9. 0 \in Int
  OBVIOUS
<1> QED
  BY <1>4, <1>8, <1>9 DEF Scaled

LEMMA DecodedAlike ==
    ASSUME NEW h, NEW s, steps \in Nat,
           DecoderOK(h, Phase(steps)), DecoderOK(s, Phase(steps)), Alike(h, s),
           NEW gain \in Gains, NEW soften \in Gains, Scaled(gain[0], soften[0], Pairs)
    PROVE  Alike(Decoded(h, gain), Decoded(s, soften))
<1> DEFINE a == Select(h, gain)
           b == Select(s, soften)
           left(d, g) == [n \in States |-> Leaving(d.metric, g, n)]
<1>1. /\ \A n \in States : Leaving(h.metric, gain, n) = Leaving(s.metric, soften, n)
      /\ Scaled(Survived(h.metric, gain), Survived(s.metric, soften), States)
  <2>1. Phase(steps) \in 0 .. OUTPUT - 1
    BY PhaseNext
  <2> QED
    BY <2>1, ScaledStep DEF DecoderOK, Alike
<1>2. left(h, gain) = left(s, soften)
  BY <1>1
<1>3. /\ a.metric = Survived(h.metric, gain) /\ b.metric = Survived(s.metric, soften)
      /\ a.paths = [n \in States |-> Extended(h.paths[Before[n][left(h, gain)[n]]],
                                              left(h, gain)[n])]
      /\ b.paths = [n \in States |-> Extended(s.paths[Before[n][left(s, soften)[n]]],
                                              left(s, soften)[n])]
      /\ a.ring = h.ring /\ a.pos = h.pos /\ a.count = h.count /\ a.out = h.out
      /\ b.ring = s.ring /\ b.pos = s.pos /\ b.count = s.count /\ b.out = s.out
  BY SelectIs DEF DecoderOK
<1>4. h.paths = s.paths /\ h.ring = s.ring /\ h.pos = s.pos /\ h.count = s.count
      /\ h.out = s.out
  BY DEF Alike
<1>5. a.paths = b.paths
  <2> DEFINE Along(p, l) == [n \in States |-> Extended(p[Before[n][l[n]]], l[n])]
  <2>1. a.paths = Along(h.paths, left(h, gain)) /\ b.paths = Along(s.paths, left(s, soften))
    BY <1>3
  <2> HIDE DEF Along
  <2> QED
    BY <1>2, <1>4, <2>1, Zenon
<1>6. Alike(a, b)
  BY <1>1, <1>3, <1>4, <1>5 DEF Alike
<1>7. a.metric \in Metrics /\ b.metric \in Metrics
  <2>1. Phase(steps) \in 0 .. OUTPUT - 1
    BY PhaseNext
  <2>2. /\ Survived(h.metric, gain) \in Metrics
        /\ Survived(s.metric, soften) \in Metrics
    BY <2>1, StepKeeps DEF DecoderOK
  <2> QED
    BY <1>3, <2>2
<1> HIDE DEF a, b
<1>8. CASE ~OutputDue
  BY <1>6, <1>8 DEF Decoded, a, b
<1>9. CASE OutputDue
  <2>1. Decoded(h, gain) = Output(a) /\ Decoded(s, soften) = Output(b)
    BY <1>9 DEF Decoded, a, b
  <2>2. Best(a.metric) = Best(b.metric)
        /\ Scaled(Normalised(a.metric), Normalised(b.metric), States)
    BY <1>6, <1>7, ScaledOutput DEF Alike
  <2>3. a.paths = b.paths /\ a.ring = b.ring /\ a.pos = b.pos /\ a.count = b.count
        /\ a.out = b.out
    BY <1>6 DEF Alike
  <2>4. /\ Output(a).metric = Normalised(a.metric) /\ Output(b).metric = Normalised(b.metric)
        /\ Output(a).paths = Output(b).paths /\ Output(a).ring = Output(b).ring
        /\ Output(a).pos = Output(b).pos /\ Output(a).count = Output(b).count
        /\ Output(a).out = Output(b).out
    BY <2>2, <2>3 DEF Output
  <2> QED
    BY <2>1, <2>2, <2>4 DEF Alike
<1> QED
  BY <1>8, <1>9

(* With full confidence in every symbol the two decoders keep the same path *)
(* to every state at every step and put out the same bits: for any code,    *)
(* any puncturing, any frame and anything other frames have left behind it. *)
THEOREM FullConfidenceAgrees ==
    ASSUME LeftByFrames, Confidences = {SOFT_Q}
    PROVE  Spec => []SoftAgrees
<1>1. Init => Alike(hard, soft)
  <2> SUFFICES ASSUME Init PROVE Alike(hard, soft)
    OBVIOUS
  <2>1. hard = Start /\ soft = Start
    BY DEF Init
  <2>2. \A s \in States : Start.metric[s] = SOFT_Q * Start.metric[s] + 0
    <3>1. \A s \in States : Start.metric[s] = 0
      BY DEF Start
    <3>2. SOFT_Q * 0 + 0 = 0
      BY Constants
    <3> QED
      BY <3>1, <3>2
  <2>3. 0 \in Int
    OBVIOUS
  <2> QED
    BY <2>1, <2>2, <2>3 DEF Alike, Scaled
<1>2. MetricsInv /\ Alike(hard, soft) /\ [Next]_vars => Alike(hard, soft)'
  <2> SUFFICES ASSUME MetricsInv, Alike(hard, soft), [Next]_vars
               PROVE  Alike(hard', soft')
    OBVIOUS
  <2>1. CASE Next
    <3>1. PICK c \in [1 .. 2 -> Confidences] : DecodeFrame(c) \/ DecodeStale(c)
      BY <2>1 DEF Next
    <3>2. /\ rate \in Rates /\ frame \in Frames /\ steps \in Nat
          /\ DecoderOK(hard, Phase(steps)) /\ DecoderOK(soft, Phase(steps))
      BY DEF MetricsInv, Plain
    <3>3. PICK x : Decode(x, c) /\ BitPair(x)
      BY <3>1, <3>2, NextDecodes DEF Plain
    <3>4. c[1] = SOFT_Q /\ c[2] = SOFT_Q
      BY <3>1
    <3>5. HardGain(x) \in Gains /\ SoftGain(SoftSymbols(x, c)) \in Gains
      BY <3>1, <3>3, HardGainType, SoftGainType
    <3>6. Scaled(HardGain(x)[0], SoftGain(SoftSymbols(x, c))[0], Pairs)
      BY <3>1, <3>3, <3>4, ScaledGain
    <3>7. Alike(Decoded(hard, HardGain(x)), Decoded(soft, SoftGain(SoftSymbols(x, c))))
      BY <3>2, <3>5, <3>6, DecodedAlike
    <3>8. /\ hard' = Decoded(hard, HardGain(x))
          /\ soft' = Decoded(soft, SoftGain(SoftSymbols(x, c)))
      BY <3>3 DEF Decode
    <3> QED
      BY <3>7, <3>8
  <2>2. CASE UNCHANGED vars
    BY <2>2 DEF vars
  <2> QED
    BY <2>1, <2>2
<1>3. Alike(hard, soft) => SoftAgrees
  BY DEF Alike, SoftAgrees
<1> QED
  BY <1>1, <1>2, <1>3, MetricsInductive, PTL DEF Spec

-----------------------------------------------------------------------------
(* The code of a branch, as the butterfly makes it, is what the encoder      *)
(* sends: both polynomials have ones at both ends.                           *)
Joined(U, S, b, h) == \A i : i \in U <=> \/ i \in S
                                         \/ i = 0 /\ b = 1
                                         \/ i = K - 1 /\ h = 1

LEMMA ParityOf ==
    ASSUME NEW S, IsFiniteSet(S), NEW b \in Bit, NEW h \in Bit,
           0 \notin S, K - 1 \notin S, NEW U, Joined(U, S, b, h)
    PROVE  Parity(U) = (Parity(S) + b + h) % 2
<1>0. PICK x, y : /\ x = 0 /\ y = K - 1 /\ x # y /\ x \notin S /\ y \notin S
                  /\ \A i : i \in U <=> i \in S \/ (i = x /\ b = 1) \/ (i = y /\ h = 1)
  BY Constants DEF Joined
<1> DEFINE T == S \cup {z \in {x} : b = 1}
<1>1. Cardinality(S) \in Nat
  BY FS_CardinalityType
<1>2. IsFiniteSet(T) /\ Cardinality(T) = Cardinality(S) + b
  <2>1. CASE b = 1
    <3>1. T = S \cup {x}
      BY <2>1
    <3> QED
      BY <1>0, <2>1, <3>1, FS_AddElement
  <2>2. CASE b = 0
    <3>1. T = S
      <4>1. b # 1
        BY <2>2
      <4> QED
        BY <4>1
    <3> HIDE DEF T
    <3>2. IsFiniteSet(T) /\ Cardinality(T) = Cardinality(S)
      BY <3>1
    <3> QED
      BY <1>1, <2>2, <3>2
  <2> QED
    BY <2>1, <2>2 DEF Bit
<1>3. y \notin T
  BY <1>0
<1>4. Cardinality(U) = Cardinality(T) + h
  <2>1. CASE h = 1
    <3>1. U = T \cup {y}
      BY <1>0, <2>1
    <3> QED
      BY <1>2, <1>3, <2>1, <3>1, FS_AddElement
  <2>2. CASE h = 0
    <3>1. U = T
      BY <1>0, <2>2 DEF Bit
    <3> QED
      BY <1>1, <1>2, <2>2, <3>1 DEF Bit
  <2> QED
    BY <2>1, <2>2 DEF Bit
<1> HIDE DEF T
<1>5. ASSUME NEW c \in Nat, NEW u \in 0 .. 2
      PROVE  (c + u) % 2 = ((c % 2) + u) % 2
  <2>1. PICK q \in Int, r \in 0 .. 2 - 1 : c = 2 * q + r /\ c % 2 = r
    <3>1. c \in Int /\ 2 \in Nat \ {0}
      OBVIOUS
    <3> QED
      BY <3>1, Recompose
  <2>2. PICK p \in Int, m \in 0 .. 2 - 1 : r + u = 2 * p + m /\ (r + u) % 2 = m
    <3>1. r + u \in Int /\ 2 \in Nat \ {0}
      OBVIOUS
    <3> QED
      BY <3>1, Recompose
  <2>3. c + u = 2 * (q + p) + m /\ q + p \in Int /\ c + u \in Int
    BY <2>1, <2>2
  <2>4. (c + u) % 2 = m
    BY <2>3, ModUnique
  <2> QED
    BY <2>1, <2>2, <2>4
<1>6. PICK c \in Nat, u \in 0 .. 2 : c = Cardinality(S) /\ u = b + h
  BY <1>1 DEF Bit
<1>7. PICK k \in 0 .. 1 : k = c % 2
  OBVIOUS
<1>8. Cardinality(U) = c + u /\ k + b + h = k + u
  BY <1>2, <1>4, <1>6 DEF Bit
<1> QED
  BY <1>5, <1>6, <1>7, <1>8 DEF Parity

LEMMA ShiftedType ==
    ASSUME NEW s \in States, NEW b \in Bit
    PROVE  /\ Shifted(s, b) \in States
           /\ Shifted(s, b)[1] = b
           /\ \A i \in 1 .. K - 2 : Shifted(s, b)[i + 1] = s[i]
<1>1. Shifted(s, b) = [i \in 1 .. K - 1 |-> IF i = 1 THEN b ELSE s[i - 1]]
  BY DEF Shifted
<1>2. \A i \in 1 .. K - 1 : i # 1 => s[i - 1] \in Bit
  BY Constants DEF States
<1>3. 1 \in 1 .. K - 1 /\ \A i \in 1 .. K - 2 : i + 1 \in 1 .. K - 1 /\ i + 1 # 1 /\ i + 1 - 1 = i
  BY Constants
<1> QED
  BY <1>1, <1>2, <1>3 DEF States

LEMMA BranchIsCoded ==
    ASSUME NEW s \in States, NEW b \in Bit
    PROVE  /\ Coded(s, b) \in Pairs
           /\ Branch[Shifted(s, b)][s[K - 1]] = Coded(s, b)
           /\ Before[Shifted(s, b)][s[K - 1]] = s
<1> DEFINE n == Shifted(s, b)
           h == s[K - 1]
<1>1. n \in States /\ n[1] = b /\ \A i \in 1 .. K - 2 : n[i + 1] = s[i]
  BY ShiftedType
<1>2. h \in Bit
  BY Constants DEF States
<1>3. ASSUME NEW p \in 1 .. 2
      PROVE  Coded(s, b)[p] = (BranchTable(n, p) + b + h) % 2
  <2> DEFINE S == {i \in TAPS[p] \cap (1 .. K - 2) : n[i + 1] = 1}
             R == {i \in TAPS[p] : Register(s, b)[i] = 1}
  <2>1. TAPS[p] \subseteq 0 .. K - 1 /\ 0 \in TAPS[p] /\ K - 1 \in TAPS[p]
    BY ViterbiAssumption
  <2>2. IsFiniteSet(S)
    BY TapsFinite
  <2>3. 0 \notin S /\ K - 1 \notin S
    BY Constants
  <2>4. \A i \in 0 .. K - 1 : Register(s, b)[i] = IF i = 0 THEN b ELSE s[i]
    BY DEF Register
  <2>5. Joined(R, S, b, h)
    <3>0. SUFFICES ASSUME NEW i
                   PROVE  i \in R <=> i \in S \/ (i = 0 /\ b = 1) \/ (i = K - 1 /\ h = 1)
      BY DEF Joined
    <3>1. i \in S <=> i \in TAPS[p] /\ i \in 1 .. K - 2 /\ n[i + 1] = 1
      OBVIOUS
    <3>2. i \in R <=> i \in TAPS[p] /\ Register(s, b)[i] = 1
      OBVIOUS
    <3> HIDE DEF S, R, n, h
    <3>3. CASE i \in 1 .. K - 2
      <4>1. i # 0 /\ i # K - 1 /\ i \in 0 .. K - 1
        BY <3>3, Constants
      <4>2. n[i + 1] = s[i] /\ Register(s, b)[i] = s[i]
        BY <1>1, <2>4, <3>3, <4>1
      <4> QED
        BY <3>1, <3>2, <3>3, <4>1, <4>2
    <3>4. CASE i = 0
      <4>1. i \notin 1 .. K - 2 /\ i # K - 1 /\ Register(s, b)[i] = b
        BY <2>4, <3>4, Constants
      <4> QED
        BY <2>1, <3>1, <3>2, <3>4, <4>1
    <3>5. CASE i = K - 1
      <4>1. i \notin 1 .. K - 2 /\ i # 0 /\ i \in 0 .. K - 1
        BY <3>5, Constants
      <4>2. Register(s, b)[i] = h
        BY <2>4, <3>5, <4>1 DEF h
      <4> QED
        BY <2>1, <3>1, <3>2, <3>5, <4>1, <4>2
    <3>6. CASE i \notin 0 .. K - 1
      <4>1. i \notin TAPS[p] /\ i # 0 /\ i # K - 1
        BY <2>1, <3>6, Constants
      <4> QED
        BY <3>1, <3>2, <4>1
    <3>7. i \in 0 .. K - 1 => i = 0 \/ i = K - 1 \/ i \in 1 .. K - 2
      BY Constants
    <3> QED
      BY <3>3, <3>4, <3>5, <3>6, <3>7
  <2>6. Coded(s, b)[p] = Parity(R) /\ BranchTable(n, p) = Parity(S)
    BY DEF Coded, BranchTable
  <2> HIDE DEF S, R
  <2> QED
    BY <1>2, <2>2, <2>3, <2>5, <2>6, ParityOf
<1>4. Branch[n][h] = <<(BranchTable(n, 1) + b + h) % 2, (BranchTable(n, 2) + b + h) % 2>>
  BY <1>1, <1>2 DEF Branch
<1>5. Coded(s, b) = <<Coded(s, b)[1], Coded(s, b)[2]>>
  BY DEF Coded
<1>6. Branch[n][h] = Coded(s, b)
  BY <1>3, <1>4, <1>5
<1>7. Before[n][h] = s
  <2>1. Before[n][h] = [i \in 1 .. K - 1 |-> IF i = K - 1 THEN h ELSE n[i + 1]]
    BY <1>1, <1>2 DEF Before
  <2>2. \A i \in 1 .. K - 1 : (IF i = K - 1 THEN h ELSE n[i + 1]) = s[i]
    <3> SUFFICES ASSUME NEW i \in 1 .. K - 1
                 PROVE  (IF i = K - 1 THEN h ELSE n[i + 1]) = s[i]
      OBVIOUS
    <3>1. i # K - 1 => i \in 1 .. K - 2
      BY Constants
    <3> QED
      BY <1>1, <3>1
  <2>3. s = [i \in 1 .. K - 1 |-> s[i]]
    BY DEF States
  <2> QED
    BY <2>1, <2>2, <2>3
<1>8. Coded(s, b) \in Pairs
  BY <1>1, <1>2, <1>6, BranchType
<1> QED
  BY <1>6, <1>7, <1>8

-----------------------------------------------------------------------------
(* Histories of the encoder. *)
LEMMA StateOfHistory ==
    ASSUME NEW n \in Int, NEW p \in Histories(n), NEW t \in 0 .. n
    PROVE  /\ StateAt(p, t) \in States
           /\ \A i \in 1 .. K - 1 : StateAt(p, t)[i] = p[t + 1 - i]
           /\ t # 0 => /\ p[t] \in Bit
                       /\ Shifted(StateAt(p, t - 1), p[t]) = StateAt(p, t)
<1>1. \A i \in 1 .. K - 1 : t + 1 - i \in 2 - K .. n
  BY Constants
<1>2. StateAt(p, t) = [i \in 1 .. K - 1 |-> p[t + 1 - i]]
  BY DEF StateAt
<1>3. \A i \in 1 .. K - 1 : StateAt(p, t)[i] = p[t + 1 - i]
  BY <1>2
<1>4. StateAt(p, t) \in States
  BY <1>1, <1>2 DEF Histories, States
<1>5. ASSUME t # 0
      PROVE  p[t] \in Bit /\ Shifted(StateAt(p, t - 1), p[t]) = StateAt(p, t)
  <2>1. t \in 2 - K .. n
    BY <1>5, Constants
  <2>2. StateAt(p, t - 1) = [i \in 1 .. K - 1 |-> p[t - 1 + 1 - i]]
    BY DEF StateAt
  <2>3. \A i \in 1 .. K - 1 : (IF i = 1 THEN p[t] ELSE StateAt(p, t - 1)[i - 1]) = p[t + 1 - i]
    <3> SUFFICES ASSUME NEW i \in 1 .. K - 1
                 PROVE  (IF i = 1 THEN p[t] ELSE StateAt(p, t - 1)[i - 1]) = p[t + 1 - i]
      OBVIOUS
    <3>1. CASE i = 1
      <4>1. t + 1 - i = t
        BY <3>1
      <4> QED
        BY <3>1, <4>1
    <3>2. CASE i # 1
      <4>1. i - 1 \in 1 .. K - 1 /\ t - 1 + 1 - (i - 1) = t + 1 - i
        BY <3>2, Constants
      <4>2. StateAt(p, t - 1)[i - 1] = p[t - 1 + 1 - (i - 1)]
        BY <2>2, <4>1
      <4> QED
        BY <3>2, <4>1, <4>2
    <3> QED
      BY <3>1, <3>2
  <2>4. Shifted(StateAt(p, t - 1), p[t])
            = [i \in 1 .. K - 1 |-> IF i = 1 THEN p[t] ELSE StateAt(p, t - 1)[i - 1]]
    BY DEF Shifted
  <2> QED
    BY <1>2, <2>1, <2>3, <2>4 DEF Histories
<1> QED
  BY <1>3, <1>4, <1>5

LEMMA SameHistory ==
    ASSUME NEW p, NEW q, NEW t \in Int, \A i \in t - (K - 1) .. t : p[i] = q[i]
    PROVE  StateAt(p, t) = StateAt(q, t) /\ CodeAt(p, t) = CodeAt(q, t)
<1>1. /\ \A i \in 1 .. K - 1 : p[t + 1 - i] = q[t + 1 - i]
      /\ \A i \in 1 .. K - 1 : p[t - 1 + 1 - i] = q[t - 1 + 1 - i]
      /\ p[t] = q[t]
  <2>1. /\ \A i \in 1 .. K - 1 : t + 1 - i \in t - (K - 1) .. t /\ t - 1 + 1 - i \in t - (K - 1) .. t
        /\ t \in t - (K - 1) .. t
    BY Constants
  <2> QED
    BY <2>1
<1>2. StateAt(p, t) = StateAt(q, t) /\ StateAt(p, t - 1) = StateAt(q, t - 1)
  BY <1>1 DEF StateAt
<1> QED
  BY <1>1, <1>2 DEF CodeAt

LEMMA CodePairs ==
    ASSUME NEW n \in Int, NEW p \in Histories(n), NEW t \in 1 .. n
    PROVE  /\ CodeAt(p, t) \in Pairs
           /\ CodeAt(p, t)[1] \in Bit /\ CodeAt(p, t)[2] \in Bit
           /\ LET m == StateAt(p, t)
                  h == StateAt(p, t - 1)[K - 1]
              IN  /\ h \in Bit
                  /\ Before[m][h] = StateAt(p, t - 1)
                  /\ Branch[m][h] = CodeAt(p, t)
<1>1. t \in 0 .. n /\ t - 1 \in 0 .. n /\ t # 0
  OBVIOUS
<1>2. /\ StateAt(p, t - 1) \in States /\ p[t] \in Bit
      /\ StateAt(p, t) = Shifted(StateAt(p, t - 1), p[t])
  BY <1>1, StateOfHistory
<1>3. StateAt(p, t - 1)[K - 1] \in Bit
  BY <1>2, Constants DEF States
<1>4. CodeAt(p, t) \in Pairs
  BY <1>2, BranchIsCoded DEF CodeAt
<1> QED
  BY <1>2, <1>3, <1>4, BranchIsCoded DEF CodeAt, Pairs

Longer(p, n, b) == [i \in 2 - K .. n + 1 |-> IF i = n + 1 THEN b ELSE p[i]]

LEMMA LongerIs ==
    ASSUME NEW n \in Nat, NEW p \in Histories(n), NEW b \in Bit
    PROVE  /\ Longer(p, n, b) \in Histories(n + 1)
           /\ \A i \in 2 - K .. n : Longer(p, n, b)[i] = p[i]
           /\ Longer(p, n, b)[n + 1] = b
           /\ \A t \in 0 .. n : StateAt(Longer(p, n, b), t) = StateAt(p, t)
           /\ StateAt(Longer(p, n, b), n + 1) = Shifted(StateAt(p, n), b)
<1> DEFINE q == Longer(p, n, b)
<1>1. q = [i \in 2 - K .. n + 1 |-> IF i = n + 1 THEN b ELSE p[i]]
  BY DEF Longer
<1>2. \A i \in 2 - K .. n : i \in 2 - K .. n + 1 /\ i # n + 1
  BY Constants
<1>3. n + 1 \in 2 - K .. n + 1
  BY Constants
<1>4. \A i \in 2 - K .. n + 1 : i # n + 1 => i \in 2 - K .. n
  BY Constants
<1>5. q \in Histories(n + 1)
  BY <1>1, <1>4 DEF Histories
<1>6. (\A i \in 2 - K .. n : q[i] = p[i]) /\ q[n + 1] = b
  BY <1>1, <1>2, <1>3
<1> HIDE DEF q
<1>7. ASSUME NEW t \in 0 .. n PROVE StateAt(q, t) = StateAt(p, t)
  <2>1. \A i \in 1 .. K - 1 : t + 1 - i \in 2 - K .. n
    BY Constants
  <2>2. \A i \in 1 .. K - 1 : q[t + 1 - i] = p[t + 1 - i]
    BY <1>6, <2>1
  <2> QED
    BY <2>2 DEF StateAt
<1>8. StateAt(q, n + 1) = Shifted(StateAt(p, n), b)
  <2>1. n + 1 \in 0 .. n + 1 /\ n + 1 # 0 /\ n + 1 \in Int /\ n + 1 - 1 = n /\ n \in 0 .. n
    OBVIOUS
  <2>2. Shifted(StateAt(q, n + 1 - 1), q[n + 1]) = StateAt(q, n + 1)
    BY <1>5, <2>1, StateOfHistory
  <2>3. StateAt(q, n) = StateAt(p, n)
    BY <1>7, <2>1
  <2> QED
    BY <1>6, <2>1, <2>2, <2>3
<1> QED
  BY <1>5, <1>6, <1>7, <1>8 DEF q

-----------------------------------------------------------------------------
(* How many of the symbols taken from step a to step b a history has sent.  *)
Agreeing(rx, p, a, b) ==
    {x \in (a .. b) \X (1 .. 2) : CodeAt(p, x[1])[x[2]] = rx[x[1]][x[2]]}
Agreement(rx, p, a, b) == Cardinality(Agreeing(rx, p, a, b))

LEMMA StepsFinite ==
    ASSUME NEW a \in Int, NEW b \in Int, NEW S, S \subseteq (a .. b) \X (1 .. 2)
    PROVE  IsFiniteSet(S) /\ Cardinality(S) \in Nat
<1>0. 1 \in Int /\ 2 \in Int
  OBVIOUS
<1>1. IsFiniteSet(a .. b) /\ IsFiniteSet(1 .. 2)
  BY <1>0, FS_Interval
<1>2. IsFiniteSet((a .. b) \X (1 .. 2))
  BY <1>1, FS_Product
<1>3. IsFiniteSet(S)
  BY <1>2, FS_Subset
<1> QED
  BY <1>3, FS_CardinalityType

LEMMA DisjointUnion ==
    ASSUME NEW S, NEW T, IsFiniteSet(S), IsFiniteSet(T), S \cap T = {}
    PROVE  /\ IsFiniteSet(S \cup T)
           /\ Cardinality(S \cup T) = Cardinality(S) + Cardinality(T)
<1>1. Cardinality(S) \in Nat /\ Cardinality(T) \in Nat /\ Cardinality({}) = 0
  BY FS_CardinalityType, FS_EmptySet
<1>2. /\ IsFiniteSet(S \cup T)
      /\ Cardinality(S \cup T) = Cardinality(S) + Cardinality(T) - Cardinality(S \cap T)
  BY FS_Union
<1>3. Cardinality(S \cap T) = 0
  BY <1>1
<1> QED
  BY <1>1, <1>2, <1>3

LEMMA AgreementSame ==
    ASSUME NEW r, NEW u, NEW p, NEW q, NEW a \in Int, NEW b \in Int,
           \A t \in a .. b : CodeAt(p, t) = CodeAt(q, t) /\ r[t] = u[t]
    PROVE  Agreement(r, p, a, b) = Agreement(u, q, a, b)
<1>1. Agreeing(r, p, a, b) = Agreeing(u, q, a, b)
  BY DEF Agreeing
<1> QED
  BY <1>1 DEF Agreement

LEMMA AgreementSplit ==
    ASSUME NEW rx, NEW p, NEW a \in Int, NEW b \in Int, NEW m \in a - 1 .. b
    PROVE  /\ Agreement(rx, p, a, b) = Agreement(rx, p, a, m) + Agreement(rx, p, m + 1, b)
           /\ Agreement(rx, p, a, m) \in Nat /\ Agreement(rx, p, m + 1, b) \in Nat
<1> DEFINE S == Agreeing(rx, p, a, m)
           T == Agreeing(rx, p, m + 1, b)
<1>1. S \subseteq (a .. m) \X (1 .. 2) /\ T \subseteq (m + 1 .. b) \X (1 .. 2)
  BY DEF Agreeing
<1>2. m \in Int /\ m + 1 \in Int
  OBVIOUS
<1>3. /\ IsFiniteSet(S) /\ Cardinality(S) \in Nat
      /\ IsFiniteSet(T) /\ Cardinality(T) \in Nat
  BY <1>1, <1>2, StepsFinite
<1>4. S \cap T = {}
  <2>1. ASSUME NEW x, x \in S, x \in T PROVE FALSE
    <3>1. x[1] \in a .. m /\ x[1] \in m + 1 .. b
      BY <1>1, <2>1
    <3> QED
      BY <3>1
  <2> QED
    BY <2>1
<1>5. Agreeing(rx, p, a, b) = S \cup T
  <2>1. \A t : t \in a .. b <=> t \in a .. m \/ t \in m + 1 .. b
    OBVIOUS
  <2> QED
    BY <2>1 DEF Agreeing
<1> HIDE DEF S, T
<1>6. Cardinality(S \cup T) = Cardinality(S) + Cardinality(T)
  BY <1>3, <1>4, DisjointUnion
<1> QED
  BY <1>3, <1>5, <1>6 DEF Agreement, S, T

LEMMA AgreementOne ==
    ASSUME NEW rx, NEW p, NEW t \in Int, CodeAt(p, t) \in Pairs, BitPair(rx[t])
    PROVE  Agreement(rx, p, t, t) = HardGain(rx[t])[0][CodeAt(p, t)]
<1> DEFINE A == {x \in {<<t, 1>>} : CodeAt(p, t)[1] = rx[t][1]}
           B == {x \in {<<t, 2>>} : CodeAt(p, t)[2] = rx[t][2]}
<1>1. Agreeing(rx, p, t, t) = A \cup B
  <2>1. \A s : s \in t .. t <=> s = t
    OBVIOUS
  <2>2. \A j : j \in 1 .. 2 <=> j = 1 \/ j = 2
    OBVIOUS
  <2> QED
    BY <2>1, <2>2 DEF Agreeing
<1>2. ASSUME NEW z, NEW P \in BOOLEAN
      PROVE  /\ IsFiniteSet({x \in {z} : P})
             /\ Cardinality({x \in {z} : P}) = IF P THEN 1 ELSE 0
  <2>1. CASE P
    <3>1. {x \in {z} : P} = {z}
      BY <2>1
    <3> QED
      BY <2>1, <3>1, FS_Singleton
  <2>2. CASE ~P
    <3>1. {x \in {z} : P} = {}
      BY <2>2
    <3> QED
      BY <2>2, <3>1, FS_EmptySet
  <2> QED
    BY <2>1, <2>2
<1>3. IsFiniteSet(A) /\ Cardinality(A) = Match(CodeAt(p, t)[1], rx[t][1])
  <2>1. PICK P \in BOOLEAN : P = (CodeAt(p, t)[1] = rx[t][1])
    OBVIOUS
  <2>2. A = {x \in {<<t, 1>>} : P}
    BY <2>1
  <2> HIDE DEF A
  <2>3. IsFiniteSet(A) /\ Cardinality(A) = IF P THEN 1 ELSE 0
    BY <1>2, <2>2
  <2> QED
    BY <2>1, <2>3 DEF Match
<1>4. IsFiniteSet(B) /\ Cardinality(B) = Match(CodeAt(p, t)[2], rx[t][2])
  <2>1. PICK P \in BOOLEAN : P = (CodeAt(p, t)[2] = rx[t][2])
    OBVIOUS
  <2>2. B = {x \in {<<t, 2>>} : P}
    BY <2>1
  <2> HIDE DEF B
  <2>3. IsFiniteSet(B) /\ Cardinality(B) = IF P THEN 1 ELSE 0
    BY <1>2, <2>2
  <2> QED
    BY <2>1, <2>3 DEF Match
<1>5. A \cap B = {}
  OBVIOUS
<1> HIDE DEF A, B
<1>6. Cardinality(A \cup B) = Cardinality(A) + Cardinality(B)
  BY <1>3, <1>4, <1>5, DisjointUnion
<1>7. HardGain(rx[t])[0][CodeAt(p, t)]
          = Match(CodeAt(p, t)[1], rx[t][1]) + Match(CodeAt(p, t)[2], rx[t][2])
  <2>1. 0 \in Bit
    BY DEF Bit
  <2> QED
    BY <2>1, HardGainIs
<1> QED
  BY <1>1, <1>3, <1>4, <1>6, <1>7 DEF Agreement

(* One step more. *)
LEMMA AgreementNext ==
    ASSUME NEW rx, NEW u, NEW n \in Nat, NEW q \in Histories(n), NEW p \in Histories(n + 1),
           \A t \in 1 .. n : u[t] = rx[t], \A i \in 2 - K .. n : p[i] = q[i],
           BitPair(u[n + 1])
    PROVE  /\ Agreement(u, p, 1, n + 1)
                  = Agreement(rx, q, 1, n) + HardGain(u[n + 1])[0][CodeAt(p, n + 1)]
           /\ Agreement(rx, q, 1, n) \in Nat
<1>1. n + 1 \in 1 .. n + 1 /\ n + 1 \in Int /\ n \in 1 - 1 .. n + 1 /\ 1 \in Int
  OBVIOUS
<1>2. CodeAt(p, n + 1) \in Pairs
  BY <1>1, CodePairs
<1>3. /\ Agreement(u, p, 1, n + 1) = Agreement(u, p, 1, n) + Agreement(u, p, n + 1, n + 1)
      /\ Agreement(u, p, 1, n) \in Nat
  BY <1>1, AgreementSplit
<1>4. Agreement(u, p, n + 1, n + 1) = HardGain(u[n + 1])[0][CodeAt(p, n + 1)]
  BY <1>1, <1>2, AgreementOne
<1>5. Agreement(u, p, 1, n) = Agreement(rx, q, 1, n)
  <2>1. ASSUME NEW t \in 1 .. n PROVE CodeAt(p, t) = CodeAt(q, t)
    <3>1. \A i \in t - (K - 1) .. t : i \in 2 - K .. n
      BY Constants
    <3>2. \A i \in t - (K - 1) .. t : p[i] = q[i]
      BY <3>1
    <3>3. t \in Int
      OBVIOUS
    <3> QED
      BY <3>2, <3>3, SameHistory
  <2>2. n \in Int
    OBVIOUS
  <2> QED
    BY <1>1, <2>1, <2>2, AgreementSame
<1> QED
  BY <1>3, <1>4, <1>5

-----------------------------------------------------------------------------
(* The survivors: to every state a history with its metric, but for what    *)
(* was taken off all metrics, and none to that state agrees with more of    *)
(* what was taken from the buffer.                                          *)
Survivors(metric, rx, n, off, surv) ==
    /\ surv \in [States -> Histories(n)]
    /\ \A s \in States : /\ StateAt(surv[s], n) = s
                         /\ metric[s] + off = Agreement(rx, surv[s], 1, n)
    /\ \A p \in Histories(n) :
          Agreement(rx, p, 1, n) <= Agreement(rx, surv[StateAt(p, n)], 1, n)

LEMMA BeforeAfter ==
    ASSUME NEW s \in States, NEW h \in Bit
    PROVE  s[1] \in Bit /\ Shifted(Before[s][h], s[1]) = s
<1> DEFINE n == Before[s][h]
<1>1. \A i \in 1 .. K - 2 : n[i] = s[i + 1]
  BY BeforeType
<1>2. Shifted(n, s[1]) = [i \in 1 .. K - 1 |-> IF i = 1 THEN s[1] ELSE n[i - 1]]
  BY DEF Shifted
<1> HIDE DEF n
<1>3. \A i \in 1 .. K - 1 : (IF i = 1 THEN s[1] ELSE n[i - 1]) = s[i]
  <2> SUFFICES ASSUME NEW i \in 1 .. K - 1, i # 1 PROVE n[i - 1] = s[i]
    OBVIOUS
  <2>1. i - 1 \in 1 .. K - 2 /\ i - 1 + 1 = i
    BY Constants
  <2> QED
    BY <1>1, <2>1
<1>4. s = [i \in 1 .. K - 1 |-> s[i]]
  BY DEF States
<1>5. s[1] \in Bit
  BY Constants DEF States
<1> QED
  BY <1>2, <1>3, <1>4, <1>5 DEF n

(* What the step leads on: of the two histories to a state the better one.  *)
Onward(metric, gain, n, surv) ==
    [s \in States |-> Longer(surv[Before[s][Leaving(metric, gain, s)]], n, s[1])]

(* A family of histories, one to each state.                                *)
Ending(n, surv) ==
    surv \in [States -> Histories(n)] /\ \A t \in States : StateAt(surv[t], n) = t

(* What a step makes of it: the history to s is that of a state before s,   *)
(* with one bit more.                                                       *)
Leads(metric, gain, n, surv, s) ==
    LET h == Leaving(metric, gain, s)
        q == surv[Before[s][h]]
        p == Onward(metric, gain, n, surv)[s]
    IN  /\ h \in Bit /\ Before[s][h] \in States
        /\ q \in Histories(n) /\ StateAt(q, n) = Before[s][h]
        /\ p \in Histories(n + 1) /\ StateAt(p, n + 1) = s
        /\ \A i \in 2 - K .. n : p[i] = q[i]
        /\ \A t \in 0 .. n : StateAt(p, t) = StateAt(q, t)
        /\ CodeAt(p, n + 1) = Branch[s][h]

LEMMA OnwardIs ==
    ASSUME NEW metric, NEW gain, NEW n \in Nat, NEW surv, Ending(n, surv), NEW s \in States
    PROVE  Leads(metric, gain, n, surv, s)
<1>0. surv \in [States -> Histories(n)] /\ \A t \in States : StateAt(surv[t], n) = t
  BY DEF Ending
<1> DEFINE h == Leaving(metric, gain, s)
           b == Before[s][h]
           q == surv[b]
           p == Onward(metric, gain, n, surv)[s]
<1>1. h \in Bit
  BY LeavingBit
<1>2. b \in States /\ b[K - 1] = h /\ s[1] \in Bit /\ Shifted(b, s[1]) = s
  BY <1>1, BeforeType, BeforeAfter
<1>3. q \in Histories(n) /\ StateAt(q, n) = b
  BY <1>0, <1>2
<1>4. p = Longer(q, n, s[1])
  BY DEF Onward
<1> HIDE DEF h, b, q, p
<1>5. /\ p \in Histories(n + 1)
      /\ \A i \in 2 - K .. n : p[i] = q[i]
      /\ \A t \in 0 .. n : StateAt(p, t) = StateAt(q, t)
      /\ StateAt(p, n + 1) = Shifted(b, s[1])
  BY <1>2, <1>3, <1>4, LongerIs
<1>6. n + 1 \in 1 .. n + 1 /\ n + 1 \in Int /\ n + 1 - 1 = n /\ n \in 0 .. n
  OBVIOUS
<1>7. CodeAt(p, n + 1) = Branch[s][h]
  <2>1. Branch[StateAt(p, n + 1)][StateAt(p, n + 1 - 1)[K - 1]] = CodeAt(p, n + 1)
    BY <1>5, <1>6, CodePairs
  <2>2. StateAt(p, n + 1 - 1) = b
    BY <1>3, <1>5, <1>6
  <2> QED
    BY <1>2, <1>5, <2>1, <2>2
<1> QED
  BY <1>1, <1>2, <1>3, <1>5, <1>7 DEF Leads, h, b, q, p

LEMMA SurvivorsNext ==
    ASSUME NEW metric \in Metrics, NEW c \in 0 .. OUTPUT - 1, Bounded(metric, c),
           NEW n \in Nat, NEW off \in Int, NEW rx, NEW surv, Survivors(metric, rx, n, off, surv),
           NEW x, BitPair(x), NEW u, u[n + 1] = x, \A t \in 1 .. n : u[t] = rx[t]
    PROVE  LET gain == HardGain(x)
           IN  Survivors(Survived(metric, gain), u, n + 1, off, Onward(metric, gain, n, surv))
<1> DEFINE gain == HardGain(x)
           new == Survived(metric, gain)
           on == Onward(metric, gain, n, surv)
<1>1. gain \in Gains
  BY HardGainType
<1>2. /\ surv \in [States -> Histories(n)]
      /\ \A s \in States : StateAt(surv[s], n) = s
      /\ \A s \in States : metric[s] + off = Agreement(rx, surv[s], 1, n)
      /\ \A p \in Histories(n) :
            Agreement(rx, p, 1, n) <= Agreement(rx, surv[StateAt(p, n)], 1, n)
  BY DEF Survivors
<1> HIDE DEF gain
<1>3. ASSUME NEW s \in States
      PROVE  /\ on[s] \in Histories(n + 1) /\ StateAt(on[s], n + 1) = s
             /\ new[s] \in Nat
             /\ new[s] + off = Agreement(u, on[s], 1, n + 1)
  <2> DEFINE h == Leaving(metric, gain, s)
             b == Before[s][h]
             q == surv[b]
  <2>1. /\ h \in Bit /\ b \in States /\ q \in Histories(n) /\ StateAt(q, n) = b
        /\ on[s] \in Histories(n + 1) /\ StateAt(on[s], n + 1) = s
        /\ \A i \in 2 - K .. n : on[s][i] = q[i]
        /\ CodeAt(on[s], n + 1) = Branch[s][h]
    <3>1. Leads(metric, gain, n, surv, s)
      BY <1>2, OnwardIs DEF Ending
    <3> QED
      BY <3>1 DEF Leads
  <2>2. new[s] = Arrival(metric, gain, s, h)
    BY DEF Survived
  <2>3. /\ Arrival(metric, gain, s, h) = metric[b] + gain[0][Branch[s][h]]
        /\ metric[b] \in Nat /\ gain[0][Branch[s][h]] \in 0 .. G
        /\ Arrival(metric, gain, s, h) \in Nat
    BY <1>1, <2>1, Unwrapped
  <2> HIDE DEF h, b, q, on
  <2>4. /\ Agreement(u, on[s], 1, n + 1) = Agreement(rx, q, 1, n) + HardGain(u[n + 1])[0][CodeAt(on[s], n + 1)]
        /\ Agreement(rx, q, 1, n) \in Nat
    <3>1. on[s] \in Histories(n + 1) /\ q \in Histories(n) /\ \A i \in 2 - K .. n : on[s][i] = q[i]
      BY <2>1
    <3>2. (\A t \in 1 .. n : u[t] = rx[t]) /\ BitPair(u[n + 1])
      OBVIOUS
    <3> QED
      BY <3>1, <3>2, AgreementNext, ZenonT(60)
  <2>5. HardGain(u[n + 1]) = gain
    BY DEF gain
  <2>6. metric[b] + off = Agreement(rx, q, 1, n)
    BY <1>2, <2>1 DEF q
  <2>7. PICK g \in Int : g = gain[0][Branch[s][h]]
    BY <2>3, Constants
  <2>8. Agreement(u, on[s], 1, n + 1) = Agreement(rx, q, 1, n) + g
    BY <2>1, <2>4, <2>5, <2>7
  <2> QED
    BY <2>1, <2>2, <2>3, <2>6, <2>7, <2>8
<1>4. ASSUME NEW p \in Histories(n + 1)
      PROVE  Agreement(u, p, 1, n + 1) <= Agreement(u, on[StateAt(p, n + 1)], 1, n + 1)
  <2> DEFINE q == [i \in 2 - K .. n |-> p[i]]
             s == StateAt(p, n + 1)
             b == StateAt(p, n)
             h == b[K - 1]
  <2>1. n + 1 \in 1 .. n + 1 /\ n + 1 \in 0 .. n + 1 /\ n \in 0 .. n + 1 /\ n + 1 \in Int
        /\ n + 1 - 1 = n /\ n \in 0 .. n
    OBVIOUS
  <2>2. /\ h \in Bit /\ Before[s][h] = b /\ Branch[s][h] = CodeAt(p, n + 1)
        /\ s \in States /\ b \in States
    BY <2>1, CodePairs, StateOfHistory
  <2>3. q \in Histories(n) /\ \A i \in 2 - K .. n : p[i] = q[i]
    <3>1. \A i \in 2 - K .. n : i \in 2 - K .. n + 1
      OBVIOUS
    <3> QED
      BY <3>1 DEF Histories
  <2>4. StateAt(q, n) = b
    <3>1. \A i \in 1 .. K - 1 : n + 1 - i \in 2 - K .. n
      BY Constants
    <3>2. \A i \in 1 .. K - 1 : q[n + 1 - i] = p[n + 1 - i]
      BY <3>1
    <3> QED
      BY <3>2 DEF StateAt
  <2> HIDE DEF q
  <2>5. /\ Agreement(u, p, 1, n + 1) = Agreement(rx, q, 1, n) + HardGain(u[n + 1])[0][CodeAt(p, n + 1)]
        /\ Agreement(rx, q, 1, n) \in Nat
    BY <2>3, AgreementNext
  <2>6. Agreement(rx, q, 1, n) <= metric[b] + off
    BY <1>2, <2>2, <2>3, <2>4
  <2> HIDE DEF s, b, h
  <2>7. /\ Arrival(metric, gain, s, h) = metric[b] + gain[0][Branch[s][h]]
        /\ metric[b] \in Nat /\ gain[0][Branch[s][h]] \in 0 .. G
        /\ Arrival(metric, gain, s, h) \in Nat
        /\ Arrival(metric, gain, s, h) <= new[s]
    <3>1. /\ Arrival(metric, gain, s, h) = metric[Before[s][h]] + gain[0][Branch[s][h]]
          /\ metric[Before[s][h]] \in Nat /\ gain[0][Branch[s][h]] \in 0 .. G
          /\ Arrival(metric, gain, s, h) \in Nat
      BY <1>1, <2>2, Unwrapped
    <3>2. Arrival(metric, gain, s, h) <= new[s]
      BY <1>1, <2>2, BestSurvives
    <3> QED
      BY <2>2, <3>1, <3>2
  <2>8. new[s] \in Nat /\ new[s] + off = Agreement(u, on[s], 1, n + 1)
    BY <1>3, <2>2
  <2>9. PICK g \in Int : g = gain[0][Branch[s][h]]
    BY <2>7, Constants
  <2>10. Agreement(u, p, 1, n + 1) = Agreement(rx, q, 1, n) + g
    BY <2>2, <2>5, <2>9 DEF gain
  <2>11. Agreement(u, p, 1, n + 1) <= new[s] + off
    BY <2>5, <2>6, <2>7, <2>8, <2>9, <2>10
  <2> QED
    BY <2>8, <2>11 DEF s
<1>5. on \in [States -> Histories(n + 1)]
  <2>1. on = [s \in States |-> on[s]]
    BY DEF Onward
  <2> HIDE DEF on
  <2> QED
    BY <1>3, <2>1
<1> HIDE DEF on, new
<1>6. Survivors(new, u, n + 1, off, on)
  BY <1>3, <1>4, <1>5 DEF Survivors
<1> QED
  BY <1>6 DEF on, new, gain

LEMMA SurvivorsNormalised ==
    ASSUME NEW metric \in Metrics, NEW n, NEW off \in Int, NEW rx, NEW surv,
           Survivors(metric, rx, n, off, surv)
    PROVE  \E m \in Int : Survivors(Normalised(metric), rx, n, m, surv)
<1>1. PICK t \in States : Least(metric) = metric[t]
  BY LeastMetric
<1>2. metric[t] \in Nat /\ off + metric[t] \in Int
  BY DEF Metrics
<1>3. ASSUME NEW s \in States
      PROVE  Normalised(metric)[s] + (off + metric[t]) = metric[s] + off
  <2>1. Normalised(metric)[s] = metric[s] - metric[t] /\ metric[s] \in Nat
    BY <1>1 DEF Normalised, Metrics
  <2> QED
    BY <1>2, <2>1
<1>4. Survivors(Normalised(metric), rx, n, off + metric[t], surv)
  BY <1>3 DEF Survivors
<1> QED
  BY <1>2, <1>4

LEMMA SurvivorsStart ==
    \E surv : Survivors(Start.metric, <<>>, 0, 0, surv)
<1> DEFINE surv == [s \in States |-> [i \in 2 - K .. 0 |-> s[1 - i]]]
<1>1. ASSUME NEW s \in States
      PROVE  surv[s] \in Histories(0) /\ StateAt(surv[s], 0) = s
  <2> DEFINE p == surv[s]
  <2>1. p = [i \in 2 - K .. 0 |-> s[1 - i]]
    OBVIOUS
  <2> HIDE DEF p
  <2>2. \A i \in 2 - K .. 0 : 1 - i \in 1 .. K - 1
    BY Constants
  <2>3. p \in Histories(0)
    BY <2>1, <2>2 DEF Histories, States
  <2>4. \A i \in 1 .. K - 1 : 0 + 1 - i \in 2 - K .. 0 /\ 1 - (0 + 1 - i) = i
    BY Constants
  <2>5. \A i \in 1 .. K - 1 : p[0 + 1 - i] = s[i]
    BY <2>1, <2>4
  <2>6. s = [i \in 1 .. K - 1 |-> s[i]]
    BY DEF States
  <2>7. StateAt(p, 0) = s
    BY <2>5, <2>6 DEF StateAt
  <2> QED
    BY <2>3, <2>7 DEF p
<1>2. \A p : Agreement(<<>>, p, 1, 0) = 0
  <2>1. \A p : Agreeing(<<>>, p, 1, 0) = {}
    BY DEF Agreeing
  <2> QED
    BY <2>1, FS_EmptySet DEF Agreement
<1>3. \A s \in States : Start.metric[s] + 0 = 0
  BY DEF Start
<1>4. surv \in [States -> Histories(0)]
  BY <1>1
<1> HIDE DEF surv
<1>5. Survivors(Start.metric, <<>>, 0, 0, surv)
  BY <1>1, <1>2, <1>3, <1>4 DEF Survivors
<1> QED
  BY <1>5

-----------------------------------------------------------------------------
(* The best state: of those with the largest metric the one of the lowest   *)
(* index.                                                                   *)
LowerAt(t, s, i) == t[i] < s[i] /\ \A j \in i + 1 .. K - 1 : t[j] = s[j]

LEMMA LowestState ==
    ASSUME NEW M \in SUBSET States, M # {}
    PROVE  \E s \in M : \A t \in M : ~Lower(t, s)
<1> DEFINE R(j) == \E s \in M : \A t \in M : \A i \in j + 1 .. K - 1 : ~LowerAt(t, s, i)
           J == {j \in 0 .. K - 1 : R(j)}
<1>1. R(K - 1) /\ K - 1 \in 0 .. K - 1
  <2>1. \A i : i \notin K - 1 + 1 .. K - 1
    BY Constants
  <2> QED
    BY <2>1, Constants
<1>2. PICK j \in J : \A k \in J : j <= k
  <2>1. J \subseteq Nat /\ J # {}
    BY <1>1
  <2> HIDE DEF J
  <2> QED
    BY <2>1, LeastNat
<1>3. PICK s \in M : \A t \in M : \A i \in j + 1 .. K - 1 : ~LowerAt(t, s, i)
  BY <1>2
<1>4. CASE j = 0
  <2>1. j + 1 = 1
    BY <1>4
  <2> QED
    BY <1>3, <2>1 DEF Lower, LowerAt
<1>5. CASE j # 0
  <2>1. j - 1 \in 0 .. K - 1 /\ j \in 1 .. K - 1
    <3>1. j \in 0 .. K - 1
      BY <1>2
    <3> QED
      BY <1>5, <3>1, Constants
  <2>2. \A i \in j - 1 + 1 .. K - 1 : i = j \/ i \in j + 1 .. K - 1
    BY <2>1
  <2>3. CASE \A t \in M : ~LowerAt(t, s, j)
    <3>0. ASSUME NEW t \in M, NEW i \in j - 1 + 1 .. K - 1 PROVE ~LowerAt(t, s, i)
      BY <1>3, <2>2, <2>3
    <3>1. R(j - 1)
      BY <3>0
    <3>2. j - 1 \in J
      BY <2>1, <3>1
    <3>3. j <= j - 1
      BY <1>2, <3>2
    <3> QED
      BY <2>1, <3>3
  <2>4. ASSUME NEW t \in M, LowerAt(t, s, j) PROVE R(j - 1)
    <3>1. /\ t[j] \in Bit /\ s[j] \in Bit /\ t[j] < s[j]
          /\ \A k \in j + 1 .. K - 1 : t[k] = s[k]
      BY <2>1, <2>4 DEF LowerAt, States
    <3>2. ASSUME NEW u \in M, NEW i \in j - 1 + 1 .. K - 1 PROVE ~LowerAt(u, t, i)
      <4>1. CASE i = j
        <5>1. u[j] \in Bit
          BY <2>1 DEF States
        <5>2. ~(u[j] < t[j])
          BY <3>1, <5>1 DEF Bit
        <5> QED
          BY <4>1, <5>2 DEF LowerAt
      <4>2. CASE i \in j + 1 .. K - 1
        <5>1. ~LowerAt(u, s, i) /\ t[i] = s[i]
          BY <1>3, <3>1, <4>2
        <5>2. \A k \in i + 1 .. K - 1 : t[k] = s[k]
          <6>1. \A k \in i + 1 .. K - 1 : k \in j + 1 .. K - 1
            BY <2>1, <4>2
          <6> QED
            BY <3>1, <6>1
        <5> QED
          BY <5>1, <5>2 DEF LowerAt
      <4> QED
        BY <2>2, <4>1, <4>2
    <3> QED
      BY <3>2
  <2>5. ~R(j - 1)
    <3>1. ASSUME R(j - 1) PROVE FALSE
      <4>1. j - 1 \in J
        BY <2>1, <3>1
      <4>2. j <= j - 1
        BY <1>2, <4>1
      <4> QED
        BY <2>1, <4>2
    <3> QED
      BY <3>1
  <2> HIDE DEF R
  <2> QED
    BY <2>3, <2>4, <2>5
<1> QED
  BY <1>4, <1>5

LEMMA BestIs ==
    ASSUME NEW metric \in Metrics, NEW b \in Nat, \A s \in States : metric[s] <= b
    PROVE  /\ Best(metric) \in States
           /\ \A t \in States : metric[t] <= metric[Best(metric)]
<1> DEFINE D == {b - metric[s] : s \in States}
           M == {s \in States : \A t \in States : metric[t] <= metric[s]}
<1>1. \A s \in States : metric[s] \in Nat /\ b - metric[s] \in Nat
  BY DEF Metrics
<1>2. D \subseteq Nat /\ D # {}
  <2>1. Zeros \in States
    BY DEF Zeros, States, Bit
  <2> QED
    BY <1>1, <2>1
<1>3. PICK m \in D : \A n \in D : m <= n
  <2> HIDE DEF D
  <2> QED
    BY <1>2, LeastNat
<1>4. PICK s \in States : m = b - metric[s]
  BY <1>3
<1>5. ASSUME NEW t \in States PROVE metric[t] <= metric[s]
  <2>1. b - metric[s] <= b - metric[t]
    BY <1>3, <1>4
  <2> QED
    BY <1>1, <2>1
<1>6. M \in SUBSET States /\ M # {}
  BY <1>5
<1>7. PICK l \in M : \A t \in M : ~Lower(t, l)
  <2> HIDE DEF M
  <2> QED
    BY <1>6, LowestState
<1>8. \A t \in States : metric[t] <= metric[l]
  BY <1>7
<1>9. ASSUME NEW t \in States
      PROVE  metric[t] < metric[l] \/ (metric[t] = metric[l] /\ ~Lower(t, l))
  <2>1. metric[t] = metric[l] => t \in M
    BY <1>8
  <2>2. metric[t] \in Nat /\ metric[l] \in Nat /\ metric[t] <= metric[l]
    BY <1>1, <1>7, <1>8
  <2>3. metric[t] < metric[l] \/ metric[t] = metric[l]
    BY <2>2
  <2> QED
    BY <1>7, <2>1, <2>3
<1> DEFINE P(r) == \A t \in States : metric[t] < metric[r] \/ (metric[t] = metric[r] /\ ~Lower(t, r))
<1>10. Best(metric) = CHOOSE r \in States : P(r)
  BY DEF Best
<1>11. l \in States /\ P(l)
  BY <1>7, <1>9
<1>12. Best(metric) \in States /\ P(Best(metric))
  <2> HIDE DEF P
  <2> QED
    BY <1>10, <1>11
<1>13. ASSUME NEW t \in States PROVE metric[t] <= metric[Best(metric)]
  <2>1. metric[t] \in Nat /\ metric[Best(metric)] \in Nat
    BY <1>1, <1>12
  <2>2. metric[t] < metric[Best(metric)] \/ metric[t] = metric[Best(metric)]
    BY <1>12
  <2> QED
    BY <2>1, <2>2
<1> QED
  BY <1>12, <1>13

-----------------------------------------------------------------------------
(* What the decoder keeps of the survivors.  Output c puts OUTPUT bits into *)
(* the ring, behind Taken(c) earlier ones; entry k of a path is the bit     *)
(* that entered the register K - 1 + OUTPUT - k steps ago.  The first       *)
(* output (c = 0) holds only bits that were in the register at the start.   *)
Taken(c) == (c - 1) * OUTPUT
Since(n, c) == n - (K - 1) - Taken(c)
Entry(n, k) == n - (K - 1) - OUTPUT + k

PathsHold(paths, c, n, surv) ==
    c > 0 => \A s \in States : \A k \in 1 .. OUTPUT :
                 Entry(n, k) > Taken(c) => paths[s][k] = surv[s][Entry(n, k)]

RingHolds(ring, nt, c, n, surv) ==
    /\ DOMAIN ring = 0 .. nt - 1
    /\ \A o \in 1 .. c - 1 : c <= o + nt =>
          \A s \in States : \A k \in 1 .. OUTPUT :
              ring[(o + 1) % nt][StateAt(surv[s], Taken(o + 1) + K - 1)][k] = surv[s][Taken(o) + k]

Holds(d, nt, n, surv) ==
    /\ d.count \in Nat /\ d.pos = d.count % nt
    /\ PathsHold(d.paths, d.count, n, surv)
    /\ RingHolds(d.ring, nt, d.count, n, surv)

LEMMA TakenIs ==
    ASSUME NEW c \in Int
    PROVE  /\ Taken(c) \in Int /\ Taken(c + 1) = Taken(c) + OUTPUT
           /\ c > 0 => Taken(c) >= 0
           /\ \A o \in Int : o < c => Taken(o) + OUTPUT <= Taken(c)
<1>1. PICK w \in Nat : w = OUTPUT
  BY Constants
<1>2. Taken(c) = (c - 1) * w /\ Taken(c + 1) = (c + 1 - 1) * w
  BY <1>1 DEF Taken
<1>3. (c - 1) * w \in Int /\ (c + 1 - 1) * w = (c - 1) * w + w
  OBVIOUS
<1>4. ASSUME c > 0 PROVE (c - 1) * w >= 0
  <2>1. PICK a \in Nat : a = c - 1
    BY <1>4
  <2>2. a * w >= 0
    OBVIOUS
  <2> QED
    BY <2>1, <2>2
<1>5. ASSUME NEW o \in Int, o < c PROVE Taken(o) + OUTPUT <= Taken(c)
  <2>1. PICK a \in Nat : c - 1 = (o - 1) + 1 + a
    <3>1. c - 1 - o \in Nat /\ c - 1 = (o - 1) + 1 + (c - 1 - o)
      BY <1>5
    <3> QED
      BY <3>1
  <2>2. ((o - 1) + 1 + a) * w = (o - 1) * w + w + a * w /\ a * w \in Nat
    OBVIOUS
  <2>3. Taken(o) = (o - 1) * w
    BY <1>1 DEF Taken
  <2>4. (o - 1) * w \in Int
    OBVIOUS
  <2> QED
    BY <1>1, <1>2, <2>1, <2>2, <2>3, <2>4
<1> QED
  BY <1>1, <1>2, <1>3, <1>4, <1>5

(* An output is due when OUTPUT bits have come since the last one.          *)
LEMMA DueWhen ==
    ASSUME NEW n \in Nat, NEW c \in Nat, Since(n, c) \in 0 .. OUTPUT - 1
    PROVE  /\ Since(n + 1, c) = Since(n, c) + 1
           /\ (n + 1) % OUTPUT = (K - 1) % OUTPUT <=> Since(n + 1, c) = OUTPUT
<1>1. PICK F \in Nat \ {0}, k \in Int, q \in Int : F = OUTPUT /\ k = K - 1 /\ q = c - 1
  BY Constants
<1>2. Taken(c) = F * q /\ F * q \in Int
  <2>1. q * F = F * q /\ F * q \in Int
    OBVIOUS
  <2> QED
    BY <1>1, <2>1 DEF Taken
<1>3. PICK m \in 1 .. F : m = Since(n, c) + 1
  BY <1>1
<1>4. Since(n + 1, c) = m /\ n + 1 = k + F * q + m
  BY <1>1, <1>2, <1>3 DEF Since
<1>5. k + F * q \in Int /\ (k + F * q) % F = k % F
  <2>1. (k + F * q) % F = k % F
    BY ModTimes
  <2>2. PICK w \in Int : w = F * q
    BY <1>2
  <2>3. k + w \in Int
    OBVIOUS
  <2> QED
    BY <2>1, <2>2, <2>3
<1>6. CASE m = F
  <2>1. F * (q + 1) = F * q + F
    OBVIOUS
  <2>2. n + 1 = k + F * (q + 1) /\ q + 1 \in Int
    BY <1>2, <1>4, <1>6, <2>1
  <2>3. (n + 1) % F = k % F
    BY <2>2, ModTimes
  <2> QED
    BY <1>1, <1>3, <1>4, <1>6, <2>3
<1>7. CASE m # F
  <2>1. m \in 1 .. F - 1
    BY <1>7
  <2>2. PICK a \in Int : a = k + F * q
    BY <1>5
  <2>3. (a + m) % F # a % F
    BY <2>1, ModApart
  <2>4. (n + 1) % F # k % F
    BY <1>4, <1>5, <2>2, <2>3
  <2> QED
    BY <1>1, <1>3, <1>4, <1>7, <2>4
<1> QED
  BY <1>6, <1>7

(* A step of the trellis: every path takes in the bit that leaves the       *)
(* register.                                                                *)
LEMMA SelectHolds ==
    ASSUME NEW d, IsDecoder(d), NEW gain,
           NEW n \in Nat, NEW surv \in [States -> Histories(n)],
           \A t \in States : StateAt(surv[t], n) = t,
           NEW nt \in Nat, Since(n, d.count) \in 0 .. OUTPUT - 1, Holds(d, nt, n, surv)
    PROVE  Holds(Select(d, gain), nt, n + 1, Onward(d.metric, gain, n, surv))
<1> DEFINE e == Select(d, gain)
           c == d.count
           on == Onward(d.metric, gain, n, surv)
<1>1. /\ e.ring = d.ring /\ e.pos = d.pos /\ e.count = d.count
      /\ \A s \in States : e.paths[s] = Extended(d.paths[Before[s][Leaving(d.metric, gain, s)]],
                                                 Leaving(d.metric, gain, s))
  <2> DEFINE leaving == [s \in States |-> Leaving(d.metric, gain, s)]
  <2>1. /\ e.paths = [s \in States |-> Extended(d.paths[Before[s][leaving[s]]], leaving[s])]
        /\ e.ring = d.ring /\ e.pos = d.pos /\ e.count = d.count
    BY SelectIs
  <2> HIDE DEF e
  <2> QED
    BY <2>1
<1>2. c \in Nat /\ d.pos = c % nt
  BY DEF Holds
<1> HIDE DEF e
<1>3. ASSUME NEW s \in States
      PROVE  LET h == Leaving(d.metric, gain, s)
                 q == surv[Before[s][h]]
             IN  /\ h \in Bit /\ Before[s][h] \in States
                 /\ q \in Histories(n) /\ StateAt(q, n) = Before[s][h]
                 /\ \A i \in 2 - K .. n : on[s][i] = q[i]
                 /\ \A t \in 0 .. n : StateAt(on[s], t) = StateAt(q, t)
  <2> DEFINE m == d.metric
  <2>1. /\ surv \in [States -> Histories(n)]
        /\ \A t \in States : StateAt(surv[t], n) = t
    OBVIOUS
  <2>2. on = Onward(m, gain, n, surv)
    OBVIOUS
  <2> DEFINE h == Leaving(m, gain, s)
             q == surv[Before[s][h]]
             p == Onward(m, gain, n, surv)[s]
  <2> HIDE DEF m
  <2>3. /\ h \in Bit /\ Before[s][h] \in States
        /\ q \in Histories(n) /\ StateAt(q, n) = Before[s][h]
        /\ \A i \in 2 - K .. n : p[i] = q[i]
        /\ \A t \in 0 .. n : StateAt(p, t) = StateAt(q, t)
    <3>1. Ending(n, surv)
      BY <2>1 DEF Ending
    <3>2. Leads(m, gain, n, surv, s)
      BY <3>1, OnwardIs
    <3> QED
      BY <3>2 DEF Leads
  <2>4. p = on[s]
    BY <2>2
  <2> HIDE DEF h, q, p, on
  <2>5. /\ h \in Bit /\ Before[s][h] \in States
        /\ q \in Histories(n) /\ StateAt(q, n) = Before[s][h]
        /\ \A i \in 2 - K .. n : on[s][i] = q[i]
        /\ \A t \in 0 .. n : StateAt(on[s], t) = StateAt(q, t)
    BY <2>3, <2>4
  <2> QED
    BY <2>5 DEF h, q, m
<1> HIDE DEF on
<1>4. \A k \in 1 .. OUTPUT - 1 : /\ k + 1 \in 1 .. OUTPUT
                                 /\ Entry(n + 1, k) = Entry(n, k + 1)
                                 /\ Entry(n, k + 1) \in Int /\ Entry(n, k + 1) <= n
  BY Constants DEF Entry
<1>5. PathsHold(e.paths, c, n + 1, on)
  <2> SUFFICES ASSUME c > 0, NEW s \in States, NEW k \in 1 .. OUTPUT,
                      Entry(n + 1, k) > Taken(c)
               PROVE  e.paths[s][k] = on[s][Entry(n + 1, k)]
    BY DEF PathsHold
  <2> DEFINE h == Leaving(d.metric, gain, s)
             b == Before[s][h]
             q == surv[b]
  <2>1. /\ h \in Bit /\ b \in States /\ StateAt(q, n) = b
        /\ \A i \in 2 - K .. n : on[s][i] = q[i]
    BY <1>3
  <2>2. e.paths[s] = [i \in 1 .. OUTPUT |-> IF i = OUTPUT THEN h ELSE d.paths[b][i + 1]]
    BY <1>1 DEF Extended
  <2>3. b[K - 1] = h
    BY <2>1, BeforeType
  <2>4. Taken(c) >= 0 /\ Taken(c) \in Int
    <3>1. c \in Int /\ c > 0
      BY <1>2
    <3> HIDE DEF c
    <3> QED
      BY <3>1, TakenIs
  <2> HIDE DEF h, b
  <2>5. CASE k = OUTPUT
    <3>1. Entry(n + 1, k) = n + 1 - (K - 1) /\ n + 1 - (K - 1) \in 2 - K .. n
      BY <2>5, Constants DEF Entry
    <3>2. StateAt(q, n)[K - 1] = q[n + 1 - (K - 1)]
      <4>1. K - 1 \in 1 .. K - 1
        BY Constants
      <4> QED
        BY <4>1 DEF StateAt
    <3>3. e.paths[s][k] = h
      BY <2>2, <2>5
    <3> HIDE DEF q
    <3>4. on[s][n + 1 - (K - 1)] = q[n + 1 - (K - 1)]
      BY <2>1, <3>1
    <3> QED
      BY <2>1, <2>3, <3>1, <3>2, <3>3, <3>4
  <2>6. CASE k # OUTPUT
    <3>1. k \in 1 .. OUTPUT - 1
      BY <2>6, Constants
    <3>2. e.paths[s][k] = d.paths[b][k + 1]
      BY <2>2, <2>6
    <3>3. d.paths[b][k + 1] = q[Entry(n, k + 1)]
      <4>1. k + 1 \in 1 .. OUTPUT /\ Entry(n, k + 1) > Taken(c)
        BY <1>4, <3>1
      <4>2. PathsHold(d.paths, c, n, surv)
        BY DEF Holds
      <4> QED
        BY <2>1, <4>1, <4>2 DEF PathsHold
    <3>4. Entry(n, k + 1) \in 2 - K .. n
      BY <1>4, <2>4, <3>1, Constants
    <3> QED
      BY <1>4, <2>1, <3>1, <3>2, <3>3, <3>4
  <2> QED
    BY <2>5, <2>6
<1>6. RingHolds(d.ring, nt, c, n + 1, on)
  <2>1. RingHolds(d.ring, nt, c, n, surv)
    BY DEF Holds
  <2> SUFFICES ASSUME NEW o \in 1 .. c - 1, c <= o + nt, NEW s \in States, NEW k \in 1 .. OUTPUT
               PROVE  d.ring[(o + 1) % nt][StateAt(on[s], Taken(o + 1) + K - 1)][k] = on[s][Taken(o) + k]
    BY <2>1 DEF RingHolds
  <2> DEFINE q == surv[Before[s][Leaving(d.metric, gain, s)]]
  <2>2. d.ring[(o + 1) % nt][StateAt(q, Taken(o + 1) + K - 1)][k] = q[Taken(o) + k]
    BY <1>3, <2>1 DEF RingHolds
  <2>3. /\ \A i \in 2 - K .. n : on[s][i] = q[i]
        /\ \A t \in 0 .. n : StateAt(on[s], t) = StateAt(q, t)
    BY <1>3
  <2> HIDE DEF q
  <2>4. /\ Taken(o) \in Int /\ Taken(o) >= 0 /\ Taken(o + 1) = Taken(o) + OUTPUT
        /\ Taken(o) + OUTPUT <= Taken(c) /\ Taken(c) \in Int
    <3>1. o \in Int /\ o > 0 /\ c \in Int /\ o < c
      BY <1>2
    <3> QED
      BY <3>1, TakenIs
  <2>5. Taken(c) + (K - 1) <= n
    BY <2>4, Constants DEF Since
  <2>6. Taken(o + 1) + K - 1 \in 0 .. n /\ Taken(o) + k \in 2 - K .. n
    BY <2>4, <2>5, Constants
  <2> QED
    BY <2>2, <2>3, <2>6
<1> QED
  BY <1>1, <1>2, <1>5, <1>6 DEF Holds, e, on

Stored(d, nt) ==
    /\ d.paths \in [States -> Paths]
    /\ d.ring \in [0 .. nt - 1 -> [States -> Paths]]
    /\ d.out \in Seq(Bit)

LEMMA RingHoldsIs ==
    ASSUME NEW ring, NEW nt, NEW c \in Nat, NEW n, NEW surv, DOMAIN ring = 0 .. nt - 1,
           \A o \in 1 .. c : c + 1 <= o + nt =>
              \A s \in States : \A k \in 1 .. OUTPUT :
                  ring[(o + 1) % nt][StateAt(surv[s], Taken(o + 1) + K - 1)][k]
                      = surv[s][Taken(o) + k]
    PROVE  RingHolds(ring, nt, c + 1, n, surv)
BY DEF RingHolds

(* An output puts the paths into the ring, where they take the place of     *)
(* those that nothing is traced back through any more.                      *)
LEMMA OutputHolds ==
    ASSUME NEW nt \in Nat \ {0}, rate.ntraceback = nt, NEW d, Stored(d, nt),
           NEW n \in Nat, NEW surv \in [States -> Histories(n)],
           \A t \in States : StateAt(surv[t], n) = t,
           Since(n, d.count) = OUTPUT, Holds(d, nt, n, surv)
    PROVE  /\ Holds(Output(d), nt, n, surv)
           /\ Output(d).count = d.count + 1
           /\ Since(n, d.count + 1) = 0
<1> DEFINE c == d.count
           e == Output(d)
           pos == (d.pos + 1) % nt
<1>1. /\ e.paths = [s \in States |-> [i \in 1 .. OUTPUT |-> 0]]
      /\ e.ring = [d.ring EXCEPT ![pos] = d.paths]
      /\ e.pos = pos /\ e.count = c + 1
  BY DEF Output
<1>2. /\ c \in Nat /\ d.pos = c % nt
      /\ PathsHold(d.paths, c, n, surv)
      /\ RingHolds(d.ring, nt, c, n, surv)
  BY DEF Holds
<1>3. Since(n, c) = OUTPUT
  OBVIOUS
<1>4. d.ring \in [0 .. nt - 1 -> [States -> Paths]]
  BY DEF Stored
<1> HIDE DEF c, e
<1>5. pos = (c + 1) % nt /\ pos \in 0 .. nt - 1
  <2>1. c \in Int /\ 1 \in Int /\ c + 1 \in Int
    BY <1>2
  <2>2. ((c % nt) + 1) % nt = (c + 1) % nt
    BY <2>1, ModOfMod
  <2>3. (c + 1) % nt \in 0 .. nt - 1
    BY <2>1, DivMod
  <2> QED
    BY <1>2, <2>2, <2>3
<1> HIDE DEF pos
<1>6. /\ Taken(c) \in Int /\ Taken(c + 1) = Taken(c) + OUTPUT
      /\ n = Taken(c + 1) + K - 1
      /\ Since(n, c + 1) = 0
  <2>1. c \in Int
    BY <1>2
  <2>2. Taken(c) \in Int /\ Taken(c + 1) = Taken(c) + OUTPUT
    BY <2>1, TakenIs
  <2> QED
    BY <1>3, <2>2, Constants DEF Since
<1>7. \A k \in 1 .. OUTPUT : Entry(n, k) = Taken(c) + k
  BY <1>6, Constants DEF Entry
<1>8. PathsHold(e.paths, c + 1, n, surv)
  <2>1. \A k \in 1 .. OUTPUT : ~(Entry(n, k) > Taken(c + 1))
    BY <1>6, <1>7, Constants
  <2> QED
    BY <2>1 DEF PathsHold
<1>9. RingHolds(e.ring, nt, c + 1, n, surv)
  <2>1. DOMAIN e.ring = 0 .. nt - 1
    BY <1>1, <1>4
  <2> DEFINE R(o) == \A s \in States : \A k \in 1 .. OUTPUT :
                         e.ring[(o + 1) % nt][StateAt(surv[s], Taken(o + 1) + K - 1)][k]
                             = surv[s][Taken(o) + k]
  <2> SUFFICES ASSUME NEW o \in 1 .. c, c + 1 <= o + nt PROVE R(o)
    <3>1. \A o \in 1 .. c : c + 1 <= o + nt => R(o)
      OBVIOUS
    <3> QED
      BY <1>2, <2>1, <3>1, RingHoldsIs
  <2> SUFFICES ASSUME NEW s \in States, NEW k \in 1 .. OUTPUT
               PROVE  e.ring[(o + 1) % nt][StateAt(surv[s], Taken(o + 1) + K - 1)][k]
                          = surv[s][Taken(o) + k]
    OBVIOUS
  <2>2. CASE o = c
    <3>1. e.ring[(o + 1) % nt] = d.paths
      BY <1>1, <1>4, <1>5, <2>2
    <3>2. StateAt(surv[s], Taken(o + 1) + K - 1) = s
      BY <1>6, <2>2
    <3>3. d.paths[s][k] = surv[s][Entry(n, k)]
      <4>1. c > 0 /\ Entry(n, k) > Taken(c)
        BY <1>2, <1>6, <1>7, <2>2
      <4> QED
        BY <1>2, <4>1 DEF PathsHold
    <3> QED
      BY <1>7, <2>2, <3>1, <3>2, <3>3
  <2>3. CASE o # c
    <3>1. o \in 1 .. c - 1 /\ c <= o + nt /\ o + 1 \in Int /\ c - o \in 1 .. nt - 1
          /\ o + 1 + (c - o) = c + 1
      BY <1>2, <2>3
    <3>2. (o + 1) % nt # pos
      <4>1. (o + 1 + (c - o)) % nt # (o + 1) % nt
        BY <3>1, ModApart
      <4> QED
        BY <1>5, <3>1, <4>1
    <3>3. (o + 1) % nt \in 0 .. nt - 1
      BY <3>1, DivMod
    <3>4. e.ring[(o + 1) % nt] = d.ring[(o + 1) % nt]
      BY <1>1, <1>4, <3>2, <3>3
    <3>5. d.ring[(o + 1) % nt][StateAt(surv[s], Taken(o + 1) + K - 1)][k] = surv[s][Taken(o) + k]
      BY <1>2, <3>1 DEF RingHolds
    <3> QED
      BY <3>4, <3>5
  <2> QED
    BY <2>2, <2>3
<1>10. c + 1 \in Nat
  BY <1>2
<1> QED
  BY <1>1, <1>5, <1>6, <1>8, <1>9, <1>10 DEF Holds, e, c

(* The path that is followed back is the survivor to the state.             *)
LEMMA TracedBackIs ==
    ASSUME NEW nt \in Nat \ {0}, rate.ntraceback = nt,
           NEW n \in Nat, NEW surv \in [States -> Histories(n)],
           \A t \in States : StateAt(surv[t], n) = t,
           NEW c \in Nat, c > nt, n = Taken(c) + K - 1,
           NEW ring \in [0 .. nt - 1 -> [States -> Paths]], RingHolds(ring, nt, c, n, surv),
           NEW s \in States
    PROVE  /\ TracedBack(ring, c % nt, s) \in Paths
           /\ \A k \in 1 .. OUTPUT :
                 TracedBack(ring, c % nt, s)[k] = surv[s][Taken(c - nt) + k]
<1> DEFINE at(i) == ((c % nt) - i + nt) % nt
           E(i, b) == IF i = 0 THEN s ELSE StateOf(ring[at(i - 1)][b[i - 1]])
           P(b) == b = [i \in 0 .. nt - 1 |-> E(i, b)]
           back == CHOOSE b : P(b)
           g == [i \in 0 .. nt - 1 |-> StateAt(surv[s], Taken(c - i) + K - 1)]
<1>1. TracedBack(ring, c % nt, s) = ring[at(nt - 1)][back[nt - 1]]
  BY DEF TracedBack
<1>2. ASSUME NEW i \in 0 .. nt - 1
      PROVE  /\ at(i) = (c - i) % nt /\ (c - i) % nt \in 0 .. nt - 1
             /\ Taken(c - i) + K - 1 \in 0 .. n
             /\ Taken(c - (i + 1)) \in Nat /\ Taken(c - i) = Taken(c - (i + 1)) + OUTPUT
             /\ g[i] \in States
             /\ \A k \in 1 .. OUTPUT : ring[at(i)][g[i]][k] = surv[s][Taken(c - (i + 1)) + k]
  <2>1. at(i) = (c - i) % nt /\ (c - i) % nt \in 0 .. nt - 1
    <3>1. c \in Int /\ nt - i \in Int /\ c - i \in Int /\ 1 \in Int
      OBVIOUS
    <3>2. ((c % nt) + (nt - i)) % nt = (c + (nt - i)) % nt
      BY <3>1, ModOfMod
    <3>3. (c - i + nt * 1) % nt = (c - i) % nt
      BY <3>1, ModTimes
    <3>4. c % nt \in Int
      BY <3>1, DivMod
    <3>5. (c % nt) - i + nt = (c % nt) + (nt - i) /\ c + (nt - i) = c - i + nt * 1
      BY <3>4
    <3>6. (c - i) % nt \in 0 .. nt - 1
      BY <3>1, DivMod
    <3> QED
      BY <3>2, <3>3, <3>5, <3>6
  <2>2. /\ Taken(c - (i + 1)) \in Int /\ Taken(c - (i + 1)) >= 0
        /\ Taken(c - i) = Taken(c - (i + 1)) + OUTPUT
        /\ Taken(c - i) \in Int /\ Taken(c) \in Int
        /\ Taken(c - i) <= Taken(c)
    <3>1. c - (i + 1) \in Int /\ c - (i + 1) + 1 = c - i /\ c - (i + 1) > 0 /\ c - i \in Int
          /\ c \in Int
      OBVIOUS
    <3>2. /\ Taken(c - (i + 1)) \in Int /\ Taken(c - (i + 1)) >= 0
          /\ Taken(c - (i + 1) + 1) = Taken(c - (i + 1)) + OUTPUT
      BY <3>1, TakenIs
    <3>3. Taken(c - i) \in Int /\ Taken(c) \in Int
      BY <3>1, TakenIs
    <3>4. i # 0 => Taken(c - i) + OUTPUT <= Taken(c)
      <4>1. i # 0 => c - i < c
        OBVIOUS
      <4> QED
        BY <3>1, <4>1, TakenIs
    <3>5. i = 0 => c - i = c
      OBVIOUS
    <3>6. Taken(c - i) = Taken(c - (i + 1)) + OUTPUT
      BY <3>1, <3>2
    <3>7. Taken(c - i) <= Taken(c)
      BY <3>3, <3>4, <3>5, Constants
    <3> QED
      BY <3>2, <3>3, <3>6, <3>7
  <2>3. Taken(c - i) + K - 1 \in 0 .. n
    BY <2>2, Constants
  <2>4. g[i] = StateAt(surv[s], Taken(c - i) + K - 1) /\ g[i] \in States
    <3>1. g[i] = StateAt(surv[s], Taken(c - i) + K - 1)
      OBVIOUS
    <3>2. n \in Int /\ surv[s] \in Histories(n)
      OBVIOUS
    <3> QED
      BY <2>3, <3>1, <3>2, StateOfHistory
  <2>5. \A k \in 1 .. OUTPUT :
            ring[(c - i) % nt][g[i]][k] = surv[s][Taken(c - (i + 1)) + k]
    <3>1. PICK o \in 1 .. c - 1 : o = c - (i + 1) /\ o + 1 = c - i /\ c <= o + nt
      OBVIOUS
    <3>2. \A k \in 1 .. OUTPUT :
              ring[(o + 1) % nt][StateAt(surv[s], Taken(o + 1) + K - 1)][k] = surv[s][Taken(o) + k]
      BY <3>1 DEF RingHolds
    <3> QED
      BY <2>4, <3>1, <3>2
  <2> QED
    BY <2>1, <2>2, <2>3, <2>4, <2>5
<1>3. g[0] = s
  <2>1. 0 \in 0 .. nt - 1 /\ c - 0 = c
    OBVIOUS
  <2> QED
    BY <2>1
<1> HIDE DEF at, g
<1>4. ASSUME NEW j \in 0 .. nt - 1, NEW i \in 0 .. nt - 1, i = j + 1
      PROVE  g[i] = StateOf(ring[at(j)][g[j]])
  <2> DEFINE w == ring[at(j)][g[j]]
  <2>1. PICK T \in Nat : T = Taken(c - i) /\ \A k \in 1 .. OUTPUT : w[k] = surv[s][T + k]
    BY <1>2, <1>4
  <2>3. g[i] = StateAt(surv[s], T + K - 1)
    BY <2>1 DEF g
  <2> HIDE DEF w
  <2>4. \A l \in 1 .. K - 1 : K - l \in 1 .. OUTPUT /\ T + K - 1 + 1 - l = T + (K - l)
    BY Constants
  <2>5. \A l \in 1 .. K - 1 : w[K - l] = surv[s][T + K - 1 + 1 - l]
    BY <2>1, <2>4
  <2>6. StateOf(w) = StateAt(surv[s], T + K - 1)
    BY <2>5 DEF StateOf, StateAt
  <2> QED
    BY <2>3, <2>6 DEF w
<1>5. P(g)
  <2>1. \A i \in 0 .. nt - 1 : g[i] = E(i, g)
    <3> SUFFICES ASSUME NEW i \in 0 .. nt - 1 PROVE g[i] = E(i, g)
      OBVIOUS
    <3>1. CASE i = 0
      BY <1>3, <3>1
    <3>2. CASE i # 0
      <4>1. i - 1 \in 0 .. nt - 1 /\ i = (i - 1) + 1
        BY <3>2
      <4>2. g[i] = StateOf(ring[at(i - 1)][g[i - 1]])
        BY <1>4, <4>1
      <4> QED
        BY <3>2, <4>2
    <3> QED
      BY <3>1, <3>2
  <2>2. g = [i \in 0 .. nt - 1 |-> g[i]]
    BY DEF g
  <2> HIDE DEF E
  <2> QED
    BY <2>1, <2>2
<1>6. P(back)
  <2> HIDE DEF P
  <2> QED
    BY <1>5
<1> HIDE DEF back
<1>7. \A i \in 0 .. nt - 1 : back[i] = g[i]
  <2> DEFINE D == {i \in 0 .. nt - 1 : back[i] # g[i]}
  <2> SUFFICES ASSUME D # {} PROVE FALSE
    OBVIOUS
  <2>1. PICK m \in D : \A i \in D : m <= i
    <3>1. D \subseteq Nat
      OBVIOUS
    <3> HIDE DEF D
    <3> QED
      BY <3>1, LeastNat
  <2>2. m \in 0 .. nt - 1 /\ back[m] # g[m]
    BY <2>1
  <2>3. back[m] = E(m, back) /\ g[m] = E(m, g)
    <3> HIDE DEF E
    <3> QED
      BY <1>5, <1>6, <2>2
  <2>4. CASE m = 0
    BY <2>2, <2>3, <2>4
  <2>5. CASE m # 0
    <3>1. m - 1 \in 0 .. nt - 1 /\ ~(m <= m - 1)
      BY <2>2, <2>5
    <3>2. back[m - 1] = g[m - 1]
      BY <2>1, <3>1
    <3> QED
      BY <2>2, <2>3, <2>5, <3>2
  <2> QED
    BY <2>4, <2>5
<1>8. nt - 1 \in 0 .. nt - 1 /\ nt - 1 + 1 = nt
  OBVIOUS
<1>9. /\ at(nt - 1) \in 0 .. nt - 1 /\ g[nt - 1] \in States
      /\ \A k \in 1 .. OUTPUT : ring[at(nt - 1)][g[nt - 1]][k] = surv[s][Taken(c - nt) + k]
  BY <1>2, <1>8
<1> QED
  BY <1>1, <1>7, <1>8, <1>9

Room == (3 * MAX_ENCODED_BITS) \div 4

Placed(d, nt) ==
    IF d.count < nt THEN d.out = <<>>
                    ELSE \/ Len(d.out) = Taken(d.count - nt + 1)
                         \/ Len(d.out) + OUTPUT > Room

LEMMA SelectStored ==
    ASSUME NEW nt, NEW d, IsDecoder(d), Stored(d, nt), NEW gain
    PROVE  /\ Stored(Select(d, gain), nt)
           /\ Placed(d, nt) => Placed(Select(d, gain), nt)
<1> DEFINE e == Select(d, gain)
           leaving == [s \in States |-> Leaving(d.metric, gain, s)]
<1>1. /\ e.paths = [s \in States |-> Extended(d.paths[Before[s][leaving[s]]], leaving[s])]
      /\ e.ring = d.ring /\ e.count = d.count /\ e.out = d.out
  BY SelectIs
<1> HIDE DEF e
<1>2. \A s \in States : leaving[s] \in Bit
  BY LeavingBit
<1> HIDE DEF leaving
<1>3. ASSUME NEW path \in Paths, NEW h \in Bit PROVE Extended(path, h) \in Paths
  <2>1. \A i \in 1 .. OUTPUT : (IF i = OUTPUT THEN h ELSE path[i + 1]) \in Bit
    <3>1. \A i \in 1 .. OUTPUT : i # OUTPUT => i + 1 \in 1 .. OUTPUT
      BY Constants
    <3> QED
      BY <3>1 DEF Paths
  <2>2. Extended(path, h) = [i \in 1 .. OUTPUT |-> IF i = OUTPUT THEN h ELSE path[i + 1]]
    BY DEF Extended
  <2> QED
    BY <2>1, <2>2 DEF Paths
<1>4. \A s \in States : Extended(d.paths[Before[s][leaving[s]]], leaving[s]) \in Paths
  <2> SUFFICES ASSUME NEW s \in States
               PROVE  Extended(d.paths[Before[s][leaving[s]]], leaving[s]) \in Paths
    OBVIOUS
  <2>1. leaving[s] \in Bit /\ Before[s][leaving[s]] \in States
    BY <1>2, BeforeType
  <2>2. d.paths[Before[s][leaving[s]]] \in Paths
    BY <2>1 DEF Stored
  <2> QED
    BY <1>3, <2>1, <2>2
<1>5. e.paths \in [States -> Paths]
  BY <1>1, <1>4
<1> QED
  BY <1>1, <1>5 DEF Stored, Placed, e

(* What an output puts out are bits of the survivor to the best state, at   *)
(* their places in the frame, and Lag bits behind it.                       *)
LEMMA OutputOut ==
    ASSUME NEW nt \in Nat \ {0}, rate.ntraceback = nt, NEW d, Stored(d, nt), Placed(d, nt),
           NEW n \in Nat, NEW surv \in [States -> Histories(n)],
           \A t \in States : StateAt(surv[t], n) = t, Best(d.metric) \in States,
           Since(n, d.count) = OUTPUT, Holds(d, nt, n, surv)
    PROVE  /\ Stored(Output(d), nt)
           /\ Placed(Output(d), nt)
           /\ \A i \in DOMAIN Output(d).out :
                 \/ i \in DOMAIN d.out /\ Output(d).out[i] = d.out[i]
                 \/ /\ i \in 1 .. n - Lag(rate)
                    /\ Output(d).out[i] = surv[Best(d.metric)][i]
<1> DEFINE c == d.count
           e == Output(d)
           s == Best(d.metric)
           w == TracedBack(e.ring, e.pos, s)
           emit == c >= nt /\ Len(d.out) + OUTPUT <= Room
<1>1. /\ e.paths = [t \in States |-> [i \in 1 .. OUTPUT |-> 0]]
      /\ e.ring = [d.ring EXCEPT ![e.pos] = d.paths]
      /\ e.out = IF emit THEN d.out \o w ELSE d.out
  BY DEF Output, Room
<1>2. /\ Holds(e, nt, n, surv) /\ e.count = c + 1 /\ Since(n, c + 1) = 0
  BY OutputHolds
<1> HIDE DEF e
<1>3. c \in Nat /\ e.pos = (c + 1) % nt /\ RingHolds(e.ring, nt, c + 1, n, surv)
  BY <1>2 DEF Holds
<1>4. e.paths \in [States -> Paths] /\ e.ring \in [0 .. nt - 1 -> [States -> Paths]]
  <2>1. [i \in 1 .. OUTPUT |-> 0] \in Paths
    BY DEF Paths, Bit
  <2> QED
    BY <1>1, <2>1 DEF Stored
<1>5. d.out \in Seq(Bit) /\ Len(d.out) \in Nat
  BY DEF Stored
<1>6. c + 1 \in Int /\ Taken(c + 1) \in Int /\ n = Taken(c + 1) + K - 1
  <2>1. c + 1 \in Int
    BY <1>3
  <2>2. Taken(c + 1) \in Int
    BY <2>1, TakenIs
  <2> QED
    BY <1>2, <2>1, <2>2, Constants DEF Since
<1>9. /\ e.count = c + 1 /\ e.count \in Nat
      /\ e.count - nt + 1 = c + 1 - nt + 1 /\ (e.count < nt <=> c + 1 < nt)
  BY <1>2, <1>3
<1>7. CASE ~emit
  <2>1. e.out = d.out
    BY <1>1, <1>7
  <2>2. Placed(e, nt)
    <3>1. CASE c < nt
      <4>1. d.out = <<>>
        BY <3>1 DEF Placed
      <4>2. CASE c + 1 < nt
        BY <1>2, <2>1, <4>1, <4>2 DEF Placed
      <4>3. CASE c + 1 = nt
        <5>1. c + 1 - nt + 1 = 1 /\ ~(c + 1 < nt)
          BY <1>3, <4>3
        <5>2. Taken(1) = 0
          BY Constants DEF Taken
        <5>3. Len(e.out) = 0
          BY <2>1, <4>1
        <5>4. Len(e.out) = Taken(e.count - nt + 1) /\ ~(e.count < nt)
          BY <1>9, <5>1, <5>2, <5>3
        <5> QED
          BY <5>4 DEF Placed
      <4> QED
        BY <1>3, <3>1, <4>2, <4>3
    <3>2. CASE c >= nt
      <4>1. Len(d.out) + OUTPUT > Room
        <5>1. Room \in Int
          BY ViterbiAssumption DEF Room
        <5> QED
          BY <1>5, <1>7, <3>2, <5>1, Constants
      <4>2. ~(c + 1 < nt)
        BY <1>3, <3>2
      <4> QED
        BY <1>2, <2>1, <4>1, <4>2 DEF Placed
    <3> QED
      BY <1>3, <3>1, <3>2
  <2> QED
    BY <1>4, <1>5, <2>1, <2>2 DEF Stored, e
<1>8. CASE emit
  <2>1. c >= nt /\ Len(d.out) = Taken(c - nt + 1)
    <3>1. ~(c < nt) /\ ~(Len(d.out) + OUTPUT > Room)
      <4>1. Room \in Int
        BY ViterbiAssumption DEF Room
      <4> QED
        BY <1>3, <1>5, <1>8, <4>1, Constants
    <3> QED
      BY <1>8, <3>1 DEF Placed
  <2>2. /\ w \in Paths
        /\ \A k \in 1 .. OUTPUT : w[k] = surv[s][Taken(c + 1 - nt) + k]
    <3>1. c + 1 \in Nat /\ c + 1 > nt
      BY <1>3, <2>1
    <3> DEFINE b == c + 1
    <3>2. b \in Nat /\ b > nt /\ n = Taken(b) + K - 1 /\ RingHolds(e.ring, nt, b, n, surv)
      BY <1>3, <1>6, <3>1
    <3> HIDE DEF b, s, w
    <3>3. s \in States
      BY DEF s
    <3>4. /\ TracedBack(e.ring, b % nt, s) \in Paths
          /\ \A k \in 1 .. OUTPUT :
                TracedBack(e.ring, b % nt, s)[k] = surv[s][Taken(b - nt) + k]
      BY <1>4, <3>2, <3>3, TracedBackIs
    <3> QED
      BY <1>3, <3>4 DEF w, b
  <2>3. c + 1 - nt = c - nt + 1 /\ c - nt + 1 \in Int /\ c - nt + 1 + 1 = c + 1 - nt + 1
        /\ c - nt + 1 > 0
    BY <1>3, <2>1
  <2>4. Taken(c - nt + 1) + OUTPUT = Taken(c + 1 - nt + 1)
    BY <2>3, TakenIs
  <2>5. Taken(c + 1 - nt + 1) = n - Lag(rate)
    <3>1. PICK f \in Nat, k \in Int, q \in Int : f = OUTPUT /\ k = K - 1 /\ q = c
      BY <1>3, Constants
    <3>2. /\ Taken(c + 1 - nt + 1) = (q + 1 - nt + 1 - 1) * f
          /\ n = (q + 1 - 1) * f + k
          /\ Lag(rate) = k + (nt - 1) * f
      BY <1>6, <3>1, Constants DEF Taken, Lag
    <3>3. (q + 1 - nt + 1 - 1) * f = (q + 1 - 1) * f - (nt - 1) * f
      OBVIOUS
    <3>4. PICK x \in Int, y \in Int : x = (q + 1 - 1) * f /\ y = (nt - 1) * f
      OBVIOUS
    <3> QED
      BY <3>2, <3>3, <3>4
  <2> HIDE DEF w, s, emit
  <2>6. e.out = d.out \o w
    BY <1>1, <1>8
  <2>7. w \in Seq(Bit) /\ Len(w) = OUTPUT
    BY <2>2, Constants DEF Paths
  <2>8. /\ e.out \in Seq(Bit)
        /\ Len(e.out) = Len(d.out) + OUTPUT
        /\ \A i \in 1 .. Len(d.out) : e.out[i] = d.out[i]
        /\ \A i \in Len(d.out) + 1 .. Len(d.out) + OUTPUT : e.out[i] = w[i - Len(d.out)]
    <3>1. /\ e.out \in Seq(Bit)
          /\ Len(e.out) = Len(d.out) + Len(w)
          /\ \A i \in 1 .. Len(d.out) + Len(w) :
                e.out[i] = IF i <= Len(d.out) THEN d.out[i] ELSE w[i - Len(d.out)]
      BY <1>5, <2>6, <2>7, ConcatProperties
    <3>2. PICK l \in Nat, f \in Nat : l = Len(d.out) /\ f = OUTPUT /\ f = Len(w)
      BY <1>5, <2>7, Constants
    <3>3. /\ \A i \in 1 .. l : i \in 1 .. l + f /\ i <= l
          /\ \A i \in l + 1 .. l + f : i \in 1 .. l + f /\ ~(i <= l)
      OBVIOUS
    <3> QED
      BY <3>1, <3>2, <3>3
  <2>9. Placed(e, nt)
    <3>1. ~(c + 1 < nt)
      BY <1>3, <2>1
    <3>2. Len(e.out) = Taken(e.count - nt + 1)
      BY <1>9, <2>1, <2>4, <2>8
    <3> QED
      BY <1>2, <3>1, <3>2 DEF Placed
  <2>10. ASSUME NEW i \in DOMAIN e.out
         PROVE  \/ i \in DOMAIN d.out /\ e.out[i] = d.out[i]
                \/ i \in 1 .. n - Lag(rate) /\ e.out[i] = surv[s][i]
    <3>1. i \in 1 .. Len(d.out) + OUTPUT
      BY <2>8
    <3>2. CASE i <= Len(d.out)
      <4>1. i \in 1 .. Len(d.out)
        BY <1>5, <3>1, <3>2
      <4> QED
        BY <1>5, <2>8, <4>1
    <3>3. CASE i > Len(d.out)
      <4>1. i \in Len(d.out) + 1 .. Len(d.out) + OUTPUT /\ i - Len(d.out) \in 1 .. OUTPUT
            /\ Len(d.out) + (i - Len(d.out)) = i
        <5>1. PICK l \in Nat, f \in Nat : l = Len(d.out) /\ f = OUTPUT
          BY <1>5, Constants
        <5>2. i \in 1 .. l + f /\ i > l
          BY <3>1, <3>3, <5>1
        <5>3. i \in l + 1 .. l + f /\ i - l \in 1 .. f /\ l + (i - l) = i
          BY <5>2
        <5> QED
          BY <5>1, <5>3
      <4>2. e.out[i] = w[i - Len(d.out)]
        BY <2>8, <4>1
      <4>3. w[i - Len(d.out)] = surv[s][Taken(c + 1 - nt) + (i - Len(d.out))]
        BY <2>2, <4>1
      <4>4. Taken(c + 1 - nt) + (i - Len(d.out)) = i
        BY <2>1, <2>3, <4>1
      <4>5. i \in 1 .. n - Lag(rate)
        BY <1>5, <2>1, <2>4, <2>5, <3>1
      <4> QED
        BY <4>2, <4>3, <4>4, <4>5
    <3> QED
      BY <1>5, <3>1, <3>2, <3>3
  <2> QED
    BY <1>4, <2>8, <2>9, <2>10 DEF Stored, e, s
<1> QED
  BY <1>7, <1>8

-----------------------------------------------------------------------------
(* The code is linear: the sum of two histories is coded as the sum of what *)
(* they are coded as.                                                       *)
Added(p, q, n) == [i \in 2 - K .. n |-> (p[i] + q[i]) % 2]

LEMMA BitSum ==
    ASSUME NEW a \in Bit, NEW b \in Bit
    PROVE  /\ (a + b) % 2 \in Bit
           /\ (a + b) % 2 = 1 <=> a # b
           /\ (a + b) % 2 = 0 <=> a = b
           /\ (((a + b) % 2) + b) % 2 = a
BY DEF Bit

LEMMA SumIs ==
    ASSUME NEW n \in Int, NEW p \in Histories(n), NEW q \in Histories(n)
    PROVE  /\ Added(p, q, n) \in Histories(n)
           /\ \A i \in 2 - K .. n : /\ p[i] \in Bit /\ q[i] \in Bit
                                    /\ Added(p, q, n)[i] = (p[i] + q[i]) % 2
           /\ Added(Added(p, q, n), q, n) = p
<1>1. \A i \in 2 - K .. n : p[i] \in Bit /\ q[i] \in Bit
  BY DEF Histories
<1>2. \A i \in 2 - K .. n : Added(p, q, n)[i] = (p[i] + q[i]) % 2
  BY DEF Added
<1>3. \A i \in 2 - K .. n : (p[i] + q[i]) % 2 \in Bit /\ (((p[i] + q[i]) % 2) + q[i]) % 2 = p[i]
  BY <1>1, BitSum
<1>4. Added(p, q, n) \in Histories(n)
  BY <1>3 DEF Added, Histories
<1>5. Added(Added(p, q, n), q, n) = p
  <2>1. p = [i \in 2 - K .. n |-> p[i]]
    BY DEF Histories
  <2>2. Added(Added(p, q, n), q, n) = [i \in 2 - K .. n |-> (Added(p, q, n)[i] + q[i]) % 2]
    BY DEF Added
  <2>3. \A i \in 2 - K .. n : (Added(p, q, n)[i] + q[i]) % 2 = p[i]
    BY <1>2, <1>3
  <2> QED
    BY <2>1, <2>2, <2>3
<1> QED
  BY <1>1, <1>2, <1>4, <1>5

LEMMA SumState ==
    ASSUME NEW n \in Nat, NEW p \in Histories(n), NEW q \in Histories(n), NEW h \in Histories(n),
           StateAt(h, n) = StateAt(Added(p, q, n), n)
    PROVE  StateAt(Added(h, q, n), n) = StateAt(p, n)
<1> DEFINE e == Added(p, q, n)
           g == Added(h, q, n)
<1>1. n \in Int /\ n \in 0 .. n
  OBVIOUS
<1>2. e \in Histories(n) /\ Added(e, q, n) = p
  BY <1>1, SumIs
<1>3. \A i \in 1 .. K - 1 : n + 1 - i \in 2 - K .. n
  BY Constants
<1> HIDE DEF e, g
<1>4. \A i \in 1 .. K - 1 : h[n + 1 - i] = e[n + 1 - i]
  <2>1. \A i \in 1 .. K - 1 : StateAt(h, n)[i] = h[n + 1 - i] /\ StateAt(e, n)[i] = e[n + 1 - i]
    BY DEF StateAt
  <2> QED
    BY <2>1 DEF e
<1>5. \A i \in 2 - K .. n : g[i] = (h[i] + q[i]) % 2 /\ p[i] = (e[i] + q[i]) % 2
  <2>1. \A i \in 2 - K .. n : Added(e, q, n)[i] = (e[i] + q[i]) % 2
    BY DEF Added
  <2>2. \A i \in 2 - K .. n : g[i] = (h[i] + q[i]) % 2
    BY DEF Added, g
  <2> QED
    BY <1>2, <2>1, <2>2
<1>6. \A i \in 1 .. K - 1 : g[n + 1 - i] = p[n + 1 - i]
  BY <1>3, <1>4, <1>5
<1> QED
  BY <1>6 DEF StateAt, g

LEMMA CodeTaps ==
    ASSUME NEW p, NEW t \in Int, NEW j \in 1 .. 2
    PROVE  CodeAt(p, t)[j] = Parity({i \in TAPS[j] : p[t - i] = 1})
<1> DEFINE r == Register(StateAt(p, t - 1), p[t])
<1>1. TAPS[j] \subseteq 0 .. K - 1
  BY ViterbiAssumption
<1>2. ASSUME NEW i \in 0 .. K - 1 PROVE r[i] = p[t - i]
  <2>1. r[i] = IF i = 0 THEN p[t] ELSE StateAt(p, t - 1)[i]
    BY DEF Register
  <2>2. CASE i = 0
    <3>1. t - i = t
      BY <2>2
    <3> QED
      BY <2>1, <2>2, <3>1
  <2>3. CASE i # 0
    <3>1. i \in 1 .. K - 1 /\ t - 1 + 1 - i = t - i
      BY <2>3
    <3>2. StateAt(p, t - 1)[i] = p[t - 1 + 1 - i]
      BY <3>1 DEF StateAt
    <3> QED
      BY <2>1, <2>3, <3>1, <3>2
  <2> QED
    BY <2>2, <2>3
<1> HIDE DEF r
<1>3. {i \in TAPS[j] : r[i] = 1} = {i \in TAPS[j] : p[t - i] = 1}
  BY <1>1, <1>2
<1>4. CodeAt(p, t)[j] = Parity({i \in TAPS[j] : r[i] = 1})
  BY DEF CodeAt, Coded, r
<1> QED
  BY <1>3, <1>4

LEMMA ParityOfSum ==
    ASSUME NEW S, NEW T, IsFiniteSet(S), IsFiniteSet(T)
    PROVE  Parity((S \ T) \cup (T \ S)) = (Parity(S) + Parity(T)) % 2
<1>1. IsFiniteSet(S \ T) /\ IsFiniteSet(T \ S) /\ IsFiniteSet(S \cap T)
  <2>1. S \ T \subseteq S /\ T \ S \subseteq T /\ S \cap T \subseteq S
    OBVIOUS
  <2> QED
    BY <2>1, FS_Subset
<1>2. PICK a \in Nat, b \in Nat, x \in Nat :
          /\ a = Cardinality(S \ T) /\ b = Cardinality(T \ S) /\ x = Cardinality(S \cap T)
  BY <1>1, FS_CardinalityType
<1>3. Cardinality((S \ T) \cup (T \ S)) = a + b
  <2>1. (S \ T) \cap (T \ S) = {}
    OBVIOUS
  <2> QED
    BY <1>1, <1>2, <2>1, DisjointUnion
<1>4. Cardinality(S) = a + x /\ Cardinality(T) = b + x
  <2>1. /\ (S \ T) \cap (S \cap T) = {} /\ (S \ T) \cup (S \cap T) = S
        /\ (T \ S) \cap (S \cap T) = {} /\ (T \ S) \cup (S \cap T) = T
    OBVIOUS
  <2>2. /\ Cardinality((S \ T) \cup (S \cap T)) = Cardinality(S \ T) + Cardinality(S \cap T)
        /\ Cardinality((T \ S) \cup (S \cap T)) = Cardinality(T \ S) + Cardinality(S \cap T)
    BY <1>1, <2>1, DisjointUnion
  <2> QED
    BY <1>2, <2>1, <2>2
<1>5. (a + b) % 2 = (((a + x) % 2) + ((b + x) % 2)) % 2
  OBVIOUS
<1> QED
  BY <1>3, <1>4, <1>5 DEF Parity

LEMMA SumCode ==
    ASSUME NEW n \in Int, NEW p \in Histories(n), NEW q \in Histories(n),
           NEW t \in 1 .. n, NEW j \in 1 .. 2
    PROVE  CodeAt(Added(p, q, n), t)[j] = (CodeAt(p, t)[j] + CodeAt(q, t)[j]) % 2
<1> DEFINE e == Added(p, q, n)
           On(h) == {i \in TAPS[j] : h[t - i] = 1}
<1>1. TAPS[j] \subseteq 0 .. K - 1 /\ t \in Int
  BY ViterbiAssumption
<1>2. \A i \in TAPS[j] : t - i \in 2 - K .. n
  BY <1>1, Constants
<1>3. \A i \in 2 - K .. n : p[i] \in Bit /\ q[i] \in Bit /\ e[i] = (p[i] + q[i]) % 2
  BY SumIs
<1> HIDE DEF e
<1>4. \A i \in TAPS[j] : e[t - i] = 1 <=> p[t - i] # q[t - i]
  BY <1>2, <1>3, BitSum
<1>5. \A i \in TAPS[j] : p[t - i] \in {0, 1} /\ q[t - i] \in {0, 1}
  BY <1>2, <1>3 DEF Bit
<1>6. On(e) = (On(p) \ On(q)) \cup (On(q) \ On(p))
  BY <1>4, <1>5
<1>7. IsFiniteSet(On(p)) /\ IsFiniteSet(On(q))
  <2>1. On(p) \subseteq TAPS[j] /\ On(q) \subseteq TAPS[j]
    OBVIOUS
  <2> HIDE DEF On
  <2> QED
    BY <2>1, TapsFinite
<1>8. CodeAt(e, t)[j] = Parity(On(e)) /\ CodeAt(p, t)[j] = Parity(On(p))
      /\ CodeAt(q, t)[j] = Parity(On(q))
  BY <1>1, CodeTaps, ZenonT(60)
<1> HIDE DEF On
<1> QED
  BY <1>6, <1>7, <1>8, ParityOfSum DEF e

-----------------------------------------------------------------------------
(* A frame without noise: the symbols are those of the history z, without   *)
(* those that the pattern does not keep.                                    *)
Received(pattern, rx, z, m) ==
    \A t \in 1 .. m : rx[t] = Depunctured(pattern, t - 1, CodeAt(z, t))

KeptSymbols(pattern, n) ==
    {x \in (1 .. n) \X (1 .. 2) : Kept(pattern, 2 * x[1] + x[2] - 3)}

(* A history agrees with all of them but where its sum with z has weight.   *)
LEMMA AgreementIs ==
    ASSUME NEW pattern, NEW rx, NEW m \in Nat, NEW z \in Histories(m), Received(pattern, rx, z, m),
           NEW p \in Histories(m)
    PROVE  /\ Agreement(rx, p, 1, m) + Weight(pattern, Added(p, z, m), m)
                  = Cardinality(KeptSymbols(pattern, m))
           /\ Agreement(rx, p, 1, m) \in Nat /\ Weight(pattern, Added(p, z, m), m) \in Nat
<1> DEFINE e == Added(p, z, m)
           A == Agreeing(rx, p, 1, m)
           W == {x \in (1 .. m) \X (1 .. 2) :
                    Kept(pattern, 2 * x[1] + x[2] - 3) /\ CodeAt(e, x[1])[x[2]] = 1}
           S == KeptSymbols(pattern, m)
<1>0. m \in Int /\ 1 \in Int
  OBVIOUS
<1>1. ASSUME NEW t \in 1 .. m, NEW j \in 1 .. 2
      PROVE  /\ CodeAt(p, t)[j] = rx[t][j]
                    <=> Kept(pattern, 2 * t + j - 3) /\ CodeAt(p, t)[j] = CodeAt(z, t)[j]
             /\ CodeAt(e, t)[j] = 1 <=> CodeAt(p, t)[j] # CodeAt(z, t)[j]
  <2>1. CodeAt(p, t)[j] \in Bit /\ CodeAt(z, t)[j] \in Bit
    <3>1. j = 1 \/ j = 2
      OBVIOUS
    <3> QED
      BY <1>0, <3>1, CodePairs
  <2>2. CodeAt(e, t)[j] = (CodeAt(p, t)[j] + CodeAt(z, t)[j]) % 2
    BY <1>0, SumCode
  <2>3. rx[t][j] = IF Kept(pattern, 2 * (t - 1) + j - 1) THEN CodeAt(z, t)[j] ELSE ERASURE
    BY DEF Received, Depunctured
  <2>4. 2 * (t - 1) + j - 1 = 2 * t + j - 3
    OBVIOUS
  <2>5. ERASURE \notin Bit
    BY DEF ERASURE, Bit
  <2> HIDE DEF e
  <2>6. CodeAt(e, t)[j] = 1 <=> CodeAt(p, t)[j] # CodeAt(z, t)[j]
    BY <2>1, <2>2, BitSum
  <2>7. rx[t][j] = IF Kept(pattern, 2 * t + j - 3) THEN CodeAt(z, t)[j] ELSE ERASURE
    BY <2>3, <2>4
  <2> QED
    BY <2>1, <2>5, <2>6, <2>7
<1> HIDE DEF e
<1>2. A \cup W = S /\ A \cap W = {}
  <2> DEFINE D == (1 .. m) \X (1 .. 2)
  <2>1. \A x \in D : x[1] \in 1 .. m /\ x[2] \in 1 .. 2
    OBVIOUS
  <2>2. \A x \in D : /\ CodeAt(p, x[1])[x[2]] = rx[x[1]][x[2]]
                          <=> /\ Kept(pattern, 2 * x[1] + x[2] - 3)
                              /\ CodeAt(p, x[1])[x[2]] = CodeAt(z, x[1])[x[2]]
                     /\ CodeAt(e, x[1])[x[2]] = 1
                          <=> CodeAt(p, x[1])[x[2]] # CodeAt(z, x[1])[x[2]]
    BY <1>1, <2>1
  <2>3. /\ A = {x \in D : CodeAt(p, x[1])[x[2]] = rx[x[1]][x[2]]}
        /\ W = {x \in D : Kept(pattern, 2 * x[1] + x[2] - 3) /\ CodeAt(e, x[1])[x[2]] = 1}
        /\ S = {x \in D : Kept(pattern, 2 * x[1] + x[2] - 3)}
    BY DEF Agreeing, KeptSymbols
  <2> HIDE DEF A, W, S, D
  <2> QED
    BY <2>2, <2>3
<1>3. /\ IsFiniteSet(A) /\ IsFiniteSet(W) /\ Cardinality(A) \in Nat /\ Cardinality(W) \in Nat
  <2>1. A \subseteq (1 .. m) \X (1 .. 2) /\ W \subseteq (1 .. m) \X (1 .. 2)
    BY DEF Agreeing
  <2> HIDE DEF A, W
  <2> QED
    BY <1>0, <2>1, StepsFinite
<1>4. Agreement(rx, p, 1, m) = Cardinality(A) /\ Weight(pattern, e, m) = Cardinality(W)
  BY DEF Agreement, Weight
<1> HIDE DEF A, W, S
<1>5. Cardinality(A) + Cardinality(W) = Cardinality(S)
  BY <1>2, <1>3, DisjointUnion
<1> QED
  BY <1>3, <1>4, <1>5 DEF S, e

(* The two clauses of DepthSuffices, for n steps.                           *)
LightAtEnd(r, n) ==
    \A p \in Histories(n) :
        (\A h \in Histories(n) : StateAt(h, n) = StateAt(p, n)
                                     => Weight(r.pattern, p, n) <= Weight(r.pattern, h, n))
            => \A i \in 1 .. n - r.depth : p[i] = 0

NoneWeightless(r, m) ==
    \A p \in Histories(m) : Weight(r.pattern, p, m) = 0 => \A i \in 1 .. m - Lag(r) : p[i] = 0

LEMMA DepthIs ==
    ASSUME NEW r, NEW n \in Nat, DepthSuffices(r, n)
    PROVE  /\ LightAtEnd(r, n)
           /\ \A m \in Lag(r) + 1 .. n : NoneWeightless(r, m)
<1>1. \A m \in Lag(r) + 1 .. n : NoneWeightless(r, m)
  BY DEF DepthSuffices, NoneWeightless
<1>2. ASSUME NEW p \in Histories(n),
             \A h \in Histories(n) : StateAt(h, n) = StateAt(p, n)
                                         => Weight(r.pattern, p, n) <= Weight(r.pattern, h, n),
             NEW i \in 1 .. n - r.depth
      PROVE  p[i] = 0
  <2> DEFINE s == StateAt(p, n)
             weighed == {<<q, Weight(r.pattern, q, n)>> : q \in {h \in Histories(n) : StateAt(h, n) = s}}
             x == <<p, Weight(r.pattern, p, n)>>
  <2>1. s \in States
    <3>1. n \in Int /\ n \in 0 .. n
      OBVIOUS
    <3> QED
      BY <3>1, StateOfHistory
  <2>2. \A y \in weighed :
            (\A z \in weighed : y[2] <= z[2]) => \A k \in 1 .. n - r.depth : y[1][k] = 0
    BY <2>1 DEF DepthSuffices
  <2>3. x \in weighed
    OBVIOUS
  <2>4. \A z \in weighed : x[2] <= z[2]
    BY <1>2
  <2> HIDE DEF weighed
  <2>5. \A k \in 1 .. n - r.depth : x[1][k] = 0
    BY <2>2, <2>3, <2>4
  <2> QED
    BY <2>5
<1> QED
  BY <1>1, <1>2 DEF LightAtEnd

(* What was sent is what a history says that is closest to it among those   *)
(* to one state, but for the last `depth' bits ...                          *)
LEMMA ClosestIsSent ==
    ASSUME NEW r, NEW m \in Nat, LightAtEnd(r, m), NEW rx, NEW z \in Histories(m),
           Received(r.pattern, rx, z, m), NEW p \in Histories(m),
           \A q \in Histories(m) : StateAt(q, m) = StateAt(p, m)
                                       => Agreement(rx, q, 1, m) <= Agreement(rx, p, 1, m),
           NEW i \in 1 .. m - r.depth, i <= m
    PROVE  p[i] = z[i]
<1> DEFINE e == Added(p, z, m)
<1>1. m \in Int
  OBVIOUS
<1>2. e \in Histories(m) /\ Added(e, z, m) = p
      /\ \A k \in 2 - K .. m : p[k] \in Bit /\ z[k] \in Bit /\ e[k] = (p[k] + z[k]) % 2
  BY <1>1, SumIs
<1>3. ASSUME NEW h \in Histories(m), StateAt(h, m) = StateAt(e, m)
      PROVE  Weight(r.pattern, e, m) <= Weight(r.pattern, h, m)
  <2> DEFINE q == Added(h, z, m)
  <2>1. q \in Histories(m) /\ Added(q, z, m) = h
    BY <1>1, SumIs
  <2>2. StateAt(q, m) = StateAt(p, m)
    BY <1>3, SumState
  <2> HIDE DEF q, e
  <2>3. Agreement(rx, q, 1, m) <= Agreement(rx, p, 1, m)
    BY <2>1, <2>2
  <2>4. /\ Agreement(rx, p, 1, m) + Weight(r.pattern, e, m)
               = Cardinality(KeptSymbols(r.pattern, m))
        /\ Agreement(rx, p, 1, m) \in Nat /\ Weight(r.pattern, e, m) \in Nat
    BY AgreementIs DEF e
  <2>5. /\ Agreement(rx, q, 1, m) + Weight(r.pattern, h, m)
               = Cardinality(KeptSymbols(r.pattern, m))
        /\ Agreement(rx, q, 1, m) \in Nat /\ Weight(r.pattern, h, m) \in Nat
    <3>1. /\ Agreement(rx, q, 1, m) + Weight(r.pattern, Added(q, z, m), m)
                 = Cardinality(KeptSymbols(r.pattern, m))
          /\ Agreement(rx, q, 1, m) \in Nat /\ Weight(r.pattern, Added(q, z, m), m) \in Nat
      BY <2>1, AgreementIs
    <3> QED
      BY <2>1, <3>1
  <2> QED
    BY <2>3, <2>4, <2>5
<1> HIDE DEF e
<1>4. e[i] = 0
  <2>1. e \in Histories(m)
    BY <1>2
  <2>2. \A h \in Histories(m) : StateAt(h, m) = StateAt(e, m)
                                    => Weight(r.pattern, e, m) <= Weight(r.pattern, h, m)
    BY <1>3
  <2>3. \A k \in 1 .. m - r.depth : e[k] = 0
    BY <2>1, <2>2 DEF LightAtEnd
  <2> QED
    BY <2>3
<1>5. i \in 2 - K .. m
  BY Constants
<1>6. p[i] \in Bit /\ z[i] \in Bit /\ (p[i] + z[i]) % 2 = 0
  BY <1>2, <1>4, <1>5
<1> QED
  BY <1>6, BitSum

(* ... and what one says that is the closest of all, but for as many bits   *)
(* as the decoder is behind.                                                *)
LEMMA BestIsSent ==
    ASSUME NEW r, NEW m \in Nat, NoneWeightless(r, m), NEW rx, NEW z \in Histories(m),
           Received(r.pattern, rx, z, m), NEW p \in Histories(m),
           \A q \in Histories(m) : Agreement(rx, q, 1, m) <= Agreement(rx, p, 1, m),
           NEW i \in 1 .. m - Lag(r), i <= m
    PROVE  p[i] = z[i]
<1> DEFINE e == Added(p, z, m)
           o == Added(z, z, m)
<1>1. m \in Int
  OBVIOUS
<1>2. /\ e \in Histories(m) /\ o \in Histories(m)
      /\ \A k \in 2 - K .. m : p[k] \in Bit /\ z[k] \in Bit /\ e[k] = (p[k] + z[k]) % 2
                               /\ o[k] = (z[k] + z[k]) % 2
  BY <1>1, SumIs
<1>3. Weight(r.pattern, o, m) = 0
  <2>1. ASSUME NEW t \in 1 .. m, NEW j \in 1 .. 2 PROVE CodeAt(o, t)[j] # 1
    <3>1. CodeAt(o, t)[j] = (CodeAt(z, t)[j] + CodeAt(z, t)[j]) % 2
      BY <1>1, SumCode
    <3>2. CodeAt(z, t)[j] \in Bit
      <4>1. j = 1 \/ j = 2
        OBVIOUS
      <4> QED
        BY <1>1, <4>1, CodePairs
    <3> HIDE DEF o
    <3> QED
      BY <3>1, <3>2, BitSum
  <2> HIDE DEF o
  <2>2. {x \in (1 .. m) \X (1 .. 2) :
            Kept(r.pattern, 2 * x[1] + x[2] - 3) /\ CodeAt(o, x[1])[x[2]] = 1} = {}
    BY <2>1
  <2> QED
    BY <2>2, FS_EmptySet DEF Weight
<1>4. /\ Agreement(rx, z, 1, m) + Weight(r.pattern, o, m)
             = Cardinality(KeptSymbols(r.pattern, m))
      /\ Agreement(rx, z, 1, m) \in Nat
      /\ Agreement(rx, p, 1, m) + Weight(r.pattern, e, m)
             = Cardinality(KeptSymbols(r.pattern, m))
      /\ Agreement(rx, p, 1, m) \in Nat /\ Weight(r.pattern, e, m) \in Nat
  BY AgreementIs
<1> HIDE DEF e, o
<1>5. Agreement(rx, z, 1, m) <= Agreement(rx, p, 1, m)
  OBVIOUS
<1>6. Weight(r.pattern, e, m) = 0
  BY <1>3, <1>4, <1>5
<1>7. e[i] = 0
  BY <1>2, <1>6 DEF NoneWeightless
<1>8. i \in 2 - K .. m
  BY Constants
<1>9. p[i] \in Bit /\ z[i] \in Bit /\ (p[i] + z[i]) % 2 = 0
  BY <1>2, <1>7, <1>8
<1> QED
  BY <1>9, BitSum

-----------------------------------------------------------------------------
(* The first m bits of a history.                                           *)
Cut(p, m) == [i \in 2 - K .. m |-> p[i]]

LEMMA CutIs ==
    ASSUME NEW n \in Nat, NEW p \in Histories(n), NEW m \in 0 .. n
    PROVE  /\ Cut(p, m) \in Histories(m)
           /\ \A i \in 2 - K .. m : Cut(p, m)[i] = p[i]
           /\ StateAt(Cut(p, m), m) = StateAt(p, m)
           /\ \A t \in 1 .. m : CodeAt(Cut(p, m), t) = CodeAt(p, t)
           /\ \A rx : Agreement(rx, Cut(p, m), 1, m) = Agreement(rx, p, 1, m)
<1> DEFINE c == Cut(p, m)
<1>1. \A i \in 2 - K .. m : i \in 2 - K .. n /\ c[i] = p[i]
  BY DEF Cut
<1>2. c \in Histories(m)
  BY <1>1 DEF Cut, Histories
<1> HIDE DEF c
<1>3. StateAt(c, m) = StateAt(p, m)
  <2>1. \A i \in 1 .. K - 1 : m + 1 - i \in 2 - K .. m
    BY Constants
  <2>2. \A i \in 1 .. K - 1 : c[m + 1 - i] = p[m + 1 - i]
    BY <1>1, <2>1
  <2> QED
    BY <2>2 DEF StateAt
<1>4. ASSUME NEW t \in 1 .. m PROVE CodeAt(c, t) = CodeAt(p, t)
  <2>1. \A i \in t - (K - 1) .. t : i \in 2 - K .. m
    BY Constants
  <2>2. \A i \in t - (K - 1) .. t : c[i] = p[i]
    BY <1>1, <2>1
  <2> QED
    BY <2>2, SameHistory
<1>5. ASSUME NEW rx PROVE Agreement(rx, c, 1, m) = Agreement(rx, p, 1, m)
  <2>1. m \in Int /\ 1 \in Int
    OBVIOUS
  <2> QED
    BY <1>4, <2>1, AgreementSame
<1> QED
  BY <1>1, <1>2, <1>3, <1>4, <1>5 DEF c

(* The history closest of all to what was taken from the buffer.            *)
Closest(rx, n, w) ==
    /\ w \in Histories(n)
    /\ \A q \in Histories(n) : Agreement(rx, q, 1, n) <= Agreement(rx, w, 1, n)

(* Of the histories that are in the same state after m steps none agrees    *)
(* with more of the m pairs, wherever they go on to.                        *)
BestTo(rx, m, w) ==
    \A q \in Histories(m) :
        StateAt(q, m) = StateAt(w, m) => Agreement(rx, q, 1, m) <= Agreement(rx, w, 1, m)

(* The bits of a frame, behind an empty register, and what the buffer holds *)
(* of it in the first n pairs.                                              *)
Sent(f) == [t \in 2 - K .. Len(f.data) |-> IF t < 1 THEN 0 ELSE f.data[t]]
Heard(r, f, rx, n) ==
    \A t \in 1 .. n : t <= Len(f.data) => rx[t] = Depunctured(r.pattern, t - 1, CodeAt(Sent(f), t))

LEMMA SentIs ==
    ASSUME NEW f \in Frames
    PROVE  /\ Len(f.data) \in Nat /\ Sent(f) \in Histories(Len(f.data))
           /\ \A i \in 1 .. Len(f.data) : Sent(f)[i] = f.data[i] /\ f.data[i] \in Bit
<1>1. f.data \in Seq(Bit)
  BY ViterbiAssumption
<1>2. PICK l \in Nat : l = Len(f.data) /\ \A i \in 1 .. l : f.data[i] \in Bit
  BY <1>1
<1>3. \A t \in 2 - K .. l : (IF t < 1 THEN 0 ELSE f.data[t]) \in Bit
  <2>1. 0 \in Bit
    BY DEF Bit
  <2>2. \A t \in 2 - K .. l : ~(t < 1) => t \in 1 .. l
    BY Constants
  <2> QED
    BY <1>2, <2>1, <2>2
<1>4. Sent(f) = [t \in 2 - K .. l |-> IF t < 1 THEN 0 ELSE f.data[t]]
  BY <1>2 DEF Sent
<1>5. Sent(f) \in [2 - K .. l -> Bit]
  BY <1>3, <1>4
<1>6. \A i \in 1 .. l : i \in 2 - K .. l /\ ~(i < 1)
  BY Constants
<1> QED
  BY <1>2, <1>4, <1>5, <1>6 DEF Histories

LEMMA LagIs ==
    ASSUME NEW r \in Rates
    PROVE  r.ntraceback \in Nat \ {0} /\ r.depth \in Nat /\ Lag(r) \in Nat
<1>1. r.ntraceback \in Nat \ {0} /\ r.depth \in Nat
  BY ViterbiAssumption
<1>2. PICK a \in Nat, f \in Nat, k \in Nat : a = r.ntraceback - 1 /\ f = OUTPUT /\ k = K - 1
  BY <1>1, Constants
<1>3. a * f \in Nat
  OBVIOUS
<1>4. k + a * f \in Nat
  BY <1>3
<1>5. Lag(r) = k + a * f
  BY <1>2 DEF Lag
<1> QED
  BY <1>1, <1>4, <1>5

(* If the depth is enough for the frame, all bits that are put out are those*)
(* that were sent, but for the last `depth': as long as the decoder is      *)
(* inside the frame they are of the closest history of all, behind it of one*)
(* that is the best to its state at the end of the frame.                   *)
LEMMA ClosestConfines ==
    ASSUME NEW r \in Rates, NEW f \in Frames, DepthSuffices(r, Len(f.data)),
           NEW n \in Nat, NEW rx, Heard(r, f, rx, n), NEW w \in Histories(n),
           n <= Len(f.data) => Closest(rx, n, w), n >= Len(f.data) => BestTo(rx, Len(f.data), w),
           NEW i \in 1 .. n - Lag(r), i <= Len(f.data) - r.depth
    PROVE  w[i] = f.data[i]
<1> DEFINE L == Len(f.data)
           z == Sent(f)
<1>1. /\ L \in Nat /\ z \in Histories(L)
      /\ \A k \in 1 .. L : z[k] = f.data[k]
  BY SentIs
<1>2. r.depth \in Nat /\ Lag(r) \in Nat
  BY LagIs
<1>3. LightAtEnd(r, L) /\ \A m \in Lag(r) + 1 .. L : NoneWeightless(r, m)
  BY <1>1, DepthIs
<1>4. \A t \in 1 .. n : t <= L => rx[t] = Depunctured(r.pattern, t - 1, CodeAt(z, t))
  BY DEF Heard
<1>5. /\ n <= L => \A q \in Histories(n) : Agreement(rx, q, 1, n) <= Agreement(rx, w, 1, n)
      /\ n >= L => BestTo(rx, L, w)
  BY DEF Closest
<1> HIDE DEF L, z
<1>6. i \in 1 .. L /\ i \in 1 .. n /\ i \in 1 .. L - r.depth
  BY <1>1, <1>2 DEF L
<1>7. CASE n <= L
  <2> DEFINE c == Cut(z, n)
  <2>1. n \in 0 .. L
    BY <1>1, <1>7
  <2>2. /\ c \in Histories(n) /\ \A t \in 1 .. n : CodeAt(c, t) = CodeAt(z, t)
        /\ \A k \in 2 - K .. n : c[k] = z[k]
    BY <1>1, <2>1, CutIs
  <2> HIDE DEF c
  <2>3. Received(r.pattern, rx, c, n)
    <3>1. \A t \in 1 .. n : t <= L
      BY <1>1, <1>7
    <3> QED
      BY <1>4, <2>2, <3>1 DEF Received
  <2>4. NoneWeightless(r, n)
    <3>1. n \in Lag(r) + 1 .. L
      BY <1>1, <1>2, <1>7
    <3> QED
      BY <1>3, <3>1
  <2>5. i <= n
    BY <1>6
  <2>6. w[i] = c[i]
    BY <1>5, <1>7, <2>2, <2>3, <2>4, <2>5, BestIsSent
  <2>7. i \in 2 - K .. n
    BY <1>6, Constants
  <2> QED
    BY <1>1, <1>6, <2>2, <2>6, <2>7
<1>8. CASE n > L
  <2> DEFINE p == Cut(w, L)
  <2>1. L \in 0 .. n
    BY <1>1, <1>8
  <2>2. /\ p \in Histories(L) /\ \A k \in 2 - K .. L : p[k] = w[k]
        /\ StateAt(p, L) = StateAt(w, L)
        /\ Agreement(rx, p, 1, L) = Agreement(rx, w, 1, L)
    BY <2>1, CutIs
  <2>3. \A q \in Histories(L) : StateAt(q, L) = StateAt(p, L)
            => Agreement(rx, q, 1, L) <= Agreement(rx, p, 1, L)
    <3>1. BestTo(rx, L, w)
      BY <1>1, <1>5, <1>8
    <3> QED
      BY <2>2, <3>1 DEF BestTo
  <2> HIDE DEF p
  <2>4. Received(r.pattern, rx, z, L)
    <3>1. \A t \in 1 .. L : t \in 1 .. n /\ t <= L
      BY <1>1, <1>8
    <3> QED
      BY <1>4, <3>1 DEF Received
  <2>5. i <= L
    BY <1>6
  <2>6. p[i] = z[i]
    BY <1>1, <1>3, <1>6, <2>2, <2>3, <2>4, <2>5, ClosestIsSent
  <2>7. i \in 2 - K .. L
    BY <1>6, Constants
  <2> QED
    BY <1>1, <1>6, <2>2, <2>6, <2>7
<1> QED
  BY <1>1, <1>7, <1>8

-----------------------------------------------------------------------------
(* One step of the decoder. *)
Tracks(d, nt, rx, l, n, surv) ==
    /\ Since(n, d.count) \in 0 .. OUTPUT - 1
    /\ Stored(d, nt) /\ Placed(d, nt) /\ Holds(d, nt, n, surv)
    /\ surv \in [States -> Histories(n)] /\ \A s \in States : StateAt(surv[s], n) = s
    /\ Plain(l, n) => \E off \in Int : Survivors(d.metric, rx, n, off, surv)
    /\ n >= l => \A s \in States : BestTo(rx, l, surv[s])

Emitted(old, out, rx, l, n) ==
    \A i \in DOMAIN out :
        \/ i \in DOMAIN old /\ out[i] = old[i]
        \/ /\ i \in 1 .. n - Lag(rate)
           /\ \E w \in Histories(n) : /\ n <= l => Closest(rx, n, w)
                                      /\ n >= l => BestTo(rx, l, w)
                                      /\ out[i] = w[i]

(* Survivors are the best to their states where they end, and stay it       *)
(* wherever they are led on, by the metrics or by sums of them that wrap.   *)
LEMMA SurvivorsBest ==
    ASSUME NEW metric, NEW n \in Nat, NEW off, NEW rx, NEW surv,
           Survivors(metric, rx, n, off, surv), NEW s \in States
    PROVE  BestTo(rx, n, surv[s])
BY DEF Survivors, BestTo

LEMMA BestToOnward ==
    ASSUME NEW metric, NEW gain, NEW n \in Nat, NEW surv \in [States -> Histories(n)],
           \A t \in States : StateAt(surv[t], n) = t, NEW l \in 0 .. n,
           NEW rx, NEW u, \A t \in 1 .. n : u[t] = rx[t],
           \A t \in States : BestTo(rx, l, surv[t]), NEW s \in States
    PROVE  BestTo(u, l, Onward(metric, gain, n, surv)[s])
<1> DEFINE b == Before[s][Leaving(metric, gain, s)]
           q == surv[b]
           p == Onward(metric, gain, n, surv)[s]
<1>1. /\ b \in States /\ q \in Histories(n)
      /\ \A i \in 2 - K .. n : p[i] = q[i]
      /\ \A t \in 0 .. n : StateAt(p, t) = StateAt(q, t)
  <2>1. Leads(metric, gain, n, surv, s)
    BY OnwardIs DEF Ending
  <2> QED
    BY <2>1 DEF Leads
<1>2. BestTo(rx, l, q)
  BY <1>1
<1> HIDE DEF b, q, p
<1>3. l \in Int /\ 1 \in Int /\ \A t \in 1 .. l : t \in 1 .. n /\ t \in Int
  OBVIOUS
<1>4. \A h : Agreement(u, h, 1, l) = Agreement(rx, h, 1, l)
  <2> SUFFICES ASSUME NEW h PROVE Agreement(u, h, 1, l) = Agreement(rx, h, 1, l)
    OBVIOUS
  <2>1. \A t \in 1 .. l : CodeAt(h, t) = CodeAt(h, t) /\ u[t] = rx[t]
    BY <1>3
  <2> QED
    BY <1>3, <2>1, AgreementSame
<1>5. Agreement(rx, p, 1, l) = Agreement(rx, q, 1, l)
  <2>1. ASSUME NEW t \in 1 .. l PROVE CodeAt(p, t) = CodeAt(q, t)
    <3>1. \A i \in t - (K - 1) .. t : i \in 2 - K .. n
      BY Constants
    <3>2. \A i \in t - (K - 1) .. t : p[i] = q[i]
      BY <1>1, <3>1
    <3> QED
      BY <1>3, <3>2, SameHistory
  <2> QED
    BY <1>3, <2>1, AgreementSame
<1>6. StateAt(p, l) = StateAt(q, l)
  BY <1>1
<1>7. BestTo(u, l, p)
  BY <1>2, <1>4, <1>5, <1>6 DEF BestTo
<1> QED
  BY <1>7 DEF p

LEMMA DecodedTracks ==
    ASSUME NEW nt \in Nat \ {0}, rate.ntraceback = nt, steps \in Nat, NEW l \in Nat,
           NEW d, Bytes(d), Plain(l, steps) => DecoderOK(d, Phase(steps)),
           NEW rx, NEW surv, Tracks(d, nt, rx, l, steps, surv),
           NEW x, BytePair(x), Plain(l, steps + 1) => BitPair(x),
           NEW u, u[steps + 1] = x, \A t \in 1 .. steps : u[t] = rx[t]
    PROVE  LET e == Decoded(d, HardGain(x))
           IN  /\ \E on : Tracks(e, nt, u, l, steps + 1, on)
               /\ Emitted(d.out, e.out, u, l, steps + 1)
<1> DEFINE gain == HardGain(x)
           on == Onward(d.metric, gain, steps, surv)
           e == Select(d, gain)
           c == d.count
           n == steps + 1
<1>1. IsDecoder(d) /\ d.metric \in ByteMetrics /\ gain \in ByteGains
  BY HardGainBytes DEF Bytes
<1>2. PICK a \in 0 .. OUTPUT - 1 : a = Phase(steps)
  BY PhaseNext
<1>3. Plain(l, n) => Plain(l, steps)
  BY DEF Plain
<1>4. Stored(d, nt) /\ Placed(d, nt) /\ Holds(d, nt, steps, surv)
      /\ Since(steps, c) \in 0 .. OUTPUT - 1
  BY DEF Tracks
<1>5. surv \in [States -> Histories(steps)] /\ \A t \in States : StateAt(surv[t], steps) = t
  BY DEF Tracks
<1>6. n \in Nat
  OBVIOUS
<1>7. gain = HardGain(x)
  OBVIOUS
<1> HIDE DEF gain
<1>8. /\ e.metric = Survived(d.metric, gain) /\ e.count = c /\ e.out = d.out
  BY <1>1, SelectParts
<1>9. /\ e.metric \in ByteMetrics /\ e.metric \in Metrics
      /\ \A t \in States : e.metric[t] <= METRIC_MOD
  <2>1. e.metric \in ByteMetrics
    BY <1>1, <1>8, StepBytes
  <2> HIDE DEF e
  <2> QED
    BY <2>1, ByteMetricsAre
<1>10. Stored(e, nt) /\ Placed(e, nt)
  BY <1>1, <1>4, SelectStored
<1>11. Holds(e, nt, n, on)
  BY <1>1, <1>4, <1>5, SelectHolds
<1>12. on \in [States -> Histories(n)] /\ \A t \in States : StateAt(on[t], n) = t
  <2>1. \A t \in States : on[t] \in Histories(n) /\ StateAt(on[t], n) = t
    <3>1. Ending(steps, surv) /\ n = steps + 1
      BY <1>5 DEF Ending
    <3>2. \A t \in States : Leads(d.metric, gain, steps, surv, t)
      BY <3>1, OnwardIs
    <3> QED
      BY <3>1, <3>2 DEF Leads
  <2>2. on = [t \in States |-> on[t]]
    BY DEF Onward
  <2> HIDE DEF on
  <2> QED
    BY <2>1, <2>2
<1>13. ASSUME Plain(l, n)
       PROVE  \E off \in Int : Survivors(e.metric, u, n, off, on)
  <2>1. d.metric \in Metrics /\ Bounded(d.metric, a) /\ BitPair(x)
    BY <1>2, <1>3, <1>13 DEF DecoderOK
  <2>2. PICK off \in Int : Survivors(d.metric, rx, steps, off, surv)
    BY <1>3, <1>13 DEF Tracks
  <2>3. Survivors(Survived(d.metric, gain), u, n, off, on)
    BY <2>1, <2>2, SurvivorsNext DEF gain
  <2> QED
    BY <1>8, <2>3
<1> HIDE DEF e, on
<1>14. ASSUME n >= l, NEW s \in States PROVE BestTo(u, l, on[s])
  <2>1. CASE n = l
    <3>1. Plain(l, n)
      BY <2>1 DEF Plain
    <3>2. PICK off \in Int : Survivors(e.metric, u, n, off, on)
      BY <1>13, <3>1
    <3> HIDE DEF n
    <3> QED
      BY <1>6, <2>1, <3>2, SurvivorsBest
  <2>2. CASE n # l
    <3>1. l \in 0 .. steps /\ steps >= l
      BY <1>14, <2>2
    <3>2. \A t \in States : BestTo(rx, l, surv[t])
      BY <3>1 DEF Tracks
    <3> QED
      BY <1>5, <3>1, <3>2, BestToOnward DEF on
  <2> QED
    BY <2>1, <2>2
<1>15. /\ c \in Nat /\ Since(n, c) = Since(steps, c) + 1
       /\ (OutputDue <=> Since(n, c) = OUTPUT)
  <2>1. c \in Nat
    BY <1>4 DEF Holds
  <2> HIDE DEF c
  <2> QED
    BY <1>4, <2>1, DueWhen DEF OutputDue
<1> HIDE DEF n
<1>16. CASE ~OutputDue
  <2>1. Decoded(d, gain) = e
    BY <1>16 DEF Decoded, e
  <2>2. Since(n, e.count) \in 0 .. OUTPUT - 1
    <3>1. Since(n, c) \in 0 .. OUTPUT - 1
      BY <1>4, <1>15, <1>16, Constants
    <3> QED
      BY <1>8, <3>1
  <2>3. Tracks(e, nt, u, l, n, on)
    BY <1>10, <1>11, <1>12, <1>13, <1>14, <2>2 DEF Tracks
  <2>4. Emitted(d.out, e.out, u, l, n)
    BY <1>8 DEF Emitted
  <2> QED
    BY <2>1, <2>3, <2>4 DEF gain, n
<1>17. CASE OutputDue
  <2> DEFINE o == Output(e)
             s == Best(e.metric)
  <2>1. Decoded(d, gain) = o
    BY <1>17 DEF Decoded, e
  <2>2. Since(n, e.count) = OUTPUT
    BY <1>8, <1>15, <1>17
  <2>3. s \in States /\ \A t \in States : e.metric[t] <= e.metric[s]
    <3>1. METRIC_MOD \in Nat
      BY Constants
    <3> QED
      BY <1>9, <3>1, BestIs
  <2>4. /\ Holds(o, nt, n, on) /\ o.count = e.count + 1 /\ Since(n, e.count + 1) = 0
    BY <1>6, <1>10, <1>11, <1>12, <2>2, OutputHolds
  <2>5. /\ Stored(o, nt) /\ Placed(o, nt)
        /\ \A i \in DOMAIN o.out :
              \/ i \in DOMAIN e.out /\ o.out[i] = e.out[i]
              \/ i \in 1 .. n - Lag(rate) /\ o.out[i] = on[s][i]
    BY <1>6, <1>10, <1>11, <1>12, <2>2, <2>3, OutputOut
  <2>6. o.metric = Normalised(e.metric)
    BY DEF Output
  <2> HIDE DEF o, s
  <2>7. ASSUME Plain(l, n)
        PROVE  \E m \in Int : Survivors(o.metric, u, n, m, on)
    BY <1>9, <1>13, <2>6, <2>7, SurvivorsNormalised
  <2>8. Tracks(o, nt, u, l, n, on)
    <3>1. Since(n, o.count) \in 0 .. OUTPUT - 1
      BY <2>4, Constants
    <3> QED
      BY <1>12, <1>14, <2>4, <2>5, <2>7, <3>1 DEF Tracks
  <2>9. ASSUME n <= l PROVE Closest(u, n, on[s])
    <3>0. PICK off \in Int : Survivors(e.metric, u, n, off, on)
      BY <1>13, <2>9 DEF Plain
    <3> SUFFICES ASSUME NEW q \in Histories(n)
                 PROVE  Agreement(u, q, 1, n) <= Agreement(u, on[s], 1, n)
      BY <1>12, <2>3 DEF Closest
    <3> DEFINE t == StateAt(q, n)
    <3>1. t \in States
      <4>1. n \in Int /\ n \in 0 .. n
        BY <1>6
      <4> QED
        BY <4>1, StateOfHistory
    <3>2. Agreement(u, q, 1, n) <= Agreement(u, on[t], 1, n)
      BY <3>0 DEF Survivors
    <3> HIDE DEF t
    <3>3. /\ e.metric[t] + off = Agreement(u, on[t], 1, n)
          /\ e.metric[s] + off = Agreement(u, on[s], 1, n)
          /\ e.metric[t] <= e.metric[s]
      BY <2>3, <3>0, <3>1 DEF Survivors
    <3>4. e.metric[t] \in Nat /\ e.metric[s] \in Nat
      BY <1>9, <2>3, <3>1 DEF Metrics
    <3>5. Agreement(u, q, 1, n) \in Nat
      <4>1. 1 \in Int /\ n \in Int
        BY <1>6
      <4>2. Agreeing(u, q, 1, n) \subseteq (1 .. n) \X (1 .. 2)
        BY DEF Agreeing
      <4> QED
        BY <4>1, <4>2, StepsFinite DEF Agreement
    <3> QED
      BY <3>2, <3>3, <3>4, <3>5
  <2>10. Emitted(d.out, o.out, u, l, n)
    <3>1. on[s] \in Histories(n) /\ (n >= l => BestTo(u, l, on[s]))
      BY <1>12, <1>14, <2>3
    <3> QED
      BY <1>8, <2>5, <2>9, <3>1 DEF Emitted
  <2>11. Decoded(d, HardGain(x)) = o
    BY <2>1 DEF gain
  <2>12. \E v : Tracks(o, nt, u, l, steps + 1, v)
    BY <2>8 DEF n
  <2>13. Emitted(d.out, o.out, u, l, steps + 1)
    BY <2>10 DEF n
  <2> QED
    BY <2>11, <2>12, <2>13
<1> QED
  BY <1>16, <1>17

-----------------------------------------------------------------------------
(* Some history of the encoder survives to every state, and none to that    *)
(* state agrees with more of what was taken from the buffer, up to the end  *)
(* of the frame and, if what is behind it was left by other frames, behind  *)
(* it; in any case the survivors are the best to their states at the end of *)
(* the frame.  That is what the metrics, the paths and the ring hold        *)
(* (Tracks).                                                                *)
SurvivorsInv ==
    /\ rate \in Rates /\ frame \in Frames /\ steps \in Nat
    /\ steps <= Len(frame.data) => encoder = StateAt(Sent(frame), steps)
    /\ \E rx, surv : /\ Heard(rate, frame, rx, steps)
                     /\ Tracks(hard, rate.ntraceback, rx, Len(frame.data), steps, surv)

LEMMA NextHears ==
    ASSUME SurvivorsInv, NEW rx, Heard(rate, frame, rx, steps),
           NEW c, DecodeFrame(c) \/ DecodeStale(c)
    PROVE  /\ steps + 1 <= Len(frame.data) => encoder' = StateAt(Sent(frame), steps + 1)
           /\ \E x, u : /\ Decode(x, c)
                        /\ u[steps + 1] = x
                        /\ \A t \in 1 .. steps : u[t] = rx[t]
                        /\ Heard(rate, frame, u, steps + 1)
                        /\ BytePair(x) /\ (Plain(Len(frame.data), steps + 1) => BitPair(x))
<1> DEFINE n == steps + 1
           L == Len(frame.data)
           z == Sent(frame)
           U(x) == [t \in 1 .. n |-> IF t = n THEN x ELSE rx[t]]
<1>1. steps \in Nat /\ n \in Nat /\ steps <= L => encoder = StateAt(z, steps)
  BY DEF SurvivorsInv
<1>2. /\ L \in Nat /\ z \in Histories(L) /\ \A i \in 1 .. L : z[i] = frame.data[i]
  BY SentIs DEF SurvivorsInv
<1>3. steps \in Nat /\ n \in Nat /\ n = steps + 1
  BY DEF SurvivorsInv
<1>4. ASSUME NEW x
      PROVE  U(x)[n] = x /\ \A t \in 1 .. steps : U(x)[t] = rx[t]
  <2>1. n \in 1 .. n /\ \A t \in 1 .. steps : t \in 1 .. n /\ t # n
    BY <1>3
  <2> QED
    BY <2>1
<1>5. ASSUME NEW x, n <= L => x = Depunctured(rate.pattern, steps, CodeAt(z, n))
      PROVE  Heard(rate, frame, U(x), n)
  <2> SUFFICES ASSUME NEW t \in 1 .. n, t <= L
               PROVE  U(x)[t] = Depunctured(rate.pattern, t - 1, CodeAt(z, t))
    BY DEF Heard
  <2>1. CASE t = n
    <3>1. n - 1 = steps /\ n <= L
      BY <1>3, <2>1
    <3> QED
      BY <1>4, <1>5, <2>1, <3>1
  <2>2. CASE t # n
    <3>1. t \in 1 .. steps
      BY <1>3, <2>2
    <3>2. rx[t] = Depunctured(rate.pattern, t - 1, CodeAt(z, t))
      BY <3>1 DEF Heard
    <3> QED
      BY <1>4, <3>1, <3>2
  <2> QED
    BY <2>1, <2>2
<1> HIDE DEF U
<1>6. CASE DecodeFrame(c)
  <2> DEFINE b == frame.data[steps + 1]
             x == Depunctured(rate.pattern, steps, Coded(encoder, b))
  <2>1. /\ steps < L /\ encoder' = Shifted(encoder, b) /\ Decode(x, c)
    BY <1>6 DEF DecodeFrame
  <2>2. /\ encoder = StateAt(z, steps) /\ n \in 1 .. L /\ n \in 0 .. L /\ n # 0 /\ n - 1 = steps
        /\ b = z[n]
    <3>1. steps <= L /\ n \in 1 .. L /\ n \in 0 .. L /\ n # 0 /\ n - 1 = steps
      BY <1>2, <1>3, <2>1
    <3> QED
      BY <1>1, <1>2, <3>1
  <2> HIDE DEF b
  <2>3. Coded(encoder, b) = CodeAt(z, n)
    BY <2>2 DEF CodeAt
  <2>4. Shifted(StateAt(z, n - 1), z[n]) = StateAt(z, n)
    <3>1. L \in Int
      BY <1>2
    <3> HIDE DEF n, L, z
    <3> QED
      BY <1>2, <2>2, <3>1, StateOfHistory
  <2>5. encoder' = StateAt(z, n)
    BY <2>1, <2>2, <2>4
  <2>6. Heard(rate, frame, U(x), n)
    BY <1>5, <2>3
  <2>7. BitPair(x) /\ BytePair(x)
    <3>1. rate \in Rates
      BY DEF SurvivorsInv
    <3>2. steps \in 0 .. MAX_ENCODED_BITS
      BY <1>3, <2>1, ViterbiAssumption DEF Decode, Wanted
    <3> QED
      BY <3>1, <3>2, FramePair
  <2> HIDE DEF x
  <2> QED
    BY <1>4, <2>1, <2>5, <2>6, <2>7
<1>7. CASE DecodeStale(c)
  <2>1. PICK x \in Stale(steps + 1) : Decode(x, c) /\ steps >= L
    BY <1>7 DEF DecodeStale
  <2>2. ~(n <= L)
    BY <1>2, <1>3, <2>1
  <2>3. Heard(rate, frame, U(x), n)
    BY <1>5, <2>2
  <2>4. steps + 1 \in 1 .. MAX_ENCODED_BITS
    BY <1>3, <2>1, ViterbiAssumption DEF Decode, Wanted
  <2>5. BytePair(x) /\ (Plain(L, n) => BitPair(x))
    BY <2>2, <2>4, PairBehind DEF Plain
  <2> QED
    BY <1>4, <2>1, <2>2, <2>3, <2>5
<1> QED
  BY <1>6, <1>7

LEMMA StartTracks ==
    ASSUME NEW r \in Rates, rate = r, NEW l \in Nat
    PROVE  \E surv : Tracks(Start, r.ntraceback, <<>>, l, 0, surv)
<1> DEFINE nt == r.ntraceback
           d == Start
<1>1. nt \in Nat \ {0}
  BY LagIs
<1>2. PICK surv : Survivors(d.metric, <<>>, 0, 0, surv)
  BY SurvivorsStart
<1>3. /\ d.paths = [s \in States |-> [i \in 1 .. OUTPUT |-> 0]]
      /\ d.ring = [k \in 0 .. nt - 1 |-> [s \in States |-> [i \in 1 .. OUTPUT |-> 0]]]
      /\ d.pos = 0 /\ d.count = 0 /\ d.out = <<>>
  BY DEF Start
<1> HIDE DEF d, nt
<1>4. Stored(d, nt)
  <2>1. [i \in 1 .. OUTPUT |-> 0] \in Paths
    BY DEF Paths, Bit
  <2>2. d.paths \in [States -> Paths]
    BY <1>3, <2>1
  <2>3. d.ring \in [0 .. nt - 1 -> [States -> Paths]]
    BY <1>3, <2>1
  <2>4. d.out \in Seq(Bit)
    BY <1>3
  <2> QED
    BY <2>2, <2>3, <2>4 DEF Stored
<1>5. Placed(d, nt)
  BY <1>1, <1>3 DEF Placed
<1>6. Since(0, d.count) \in 0 .. OUTPUT - 1
  <2>1. (0 - 1) * OUTPUT = 0 - OUTPUT
    BY Constants
  <2> QED
    BY <1>3, <2>1, Constants DEF Since, Taken
<1>7. Holds(d, nt, 0, surv)
  <2>1. 0 % nt = 0
    BY <1>1
  <2>2. PathsHold(d.paths, 0, 0, surv)
    BY DEF PathsHold
  <2>3. RingHolds(d.ring, nt, 0, 0, surv)
    BY <1>3 DEF RingHolds
  <2> QED
    BY <1>3, <2>1, <2>2, <2>3 DEF Holds
<1>8. 0 \in Int /\ 0 \in Nat
  OBVIOUS
<1>9. surv \in [States -> Histories(0)] /\ \A s \in States : StateAt(surv[s], 0) = s
  BY <1>2 DEF Survivors
<1>10. 0 >= l => \A s \in States : BestTo(<<>>, l, surv[s])
  <2>1. 0 >= l => l = 0
    OBVIOUS
  <2> QED
    BY <1>2, <1>8, <2>1, SurvivorsBest
<1>11. Tracks(d, nt, <<>>, l, 0, surv)
  BY <1>2, <1>4, <1>5, <1>6, <1>7, <1>8, <1>9, <1>10 DEF Tracks
<1> QED
  BY <1>11 DEF d, nt

LEMMA NextTracks ==
    ASSUME SurvivorsInv, MetricsInv, Next
    PROVE  /\ SurvivorsInv'
           /\ rate' = rate /\ frame' = frame
           /\ \E u : /\ Heard(rate, frame, u, steps + 1)
                    /\ Emitted(hard.out, hard'.out, u, Len(frame.data), steps + 1)
<1> DEFINE nt == rate.ntraceback
           l == Len(frame.data)
<1>1. PICK c \in [1 .. 2 -> Confidences] : DecodeFrame(c) \/ DecodeStale(c)
  BY DEF Next
<1>2. PICK rx, surv : Heard(rate, frame, rx, steps) /\ Tracks(hard, nt, rx, l, steps, surv)
  BY DEF SurvivorsInv
<1>3. /\ steps + 1 <= l => encoder' = StateAt(Sent(frame), steps + 1)
      /\ \E x, u : /\ Decode(x, c)
                   /\ u[steps + 1] = x
                   /\ \A t \in 1 .. steps : u[t] = rx[t]
                   /\ Heard(rate, frame, u, steps + 1)
                   /\ BytePair(x) /\ (Plain(l, steps + 1) => BitPair(x))
  BY <1>1, <1>2, NextHears
<1>4. PICK x, u : /\ Decode(x, c)
                  /\ u[steps + 1] = x
                  /\ \A t \in 1 .. steps : u[t] = rx[t]
                  /\ Heard(rate, frame, u, steps + 1)
                  /\ BytePair(x) /\ (Plain(l, steps + 1) => BitPair(x))
  BY <1>3
<1>5. /\ rate \in Rates /\ frame \in Frames /\ steps \in Nat /\ Bytes(hard)
      /\ Plain(l, steps) => DecoderOK(hard, Phase(steps))
  BY DEF SurvivorsInv, MetricsInv
<1>6. nt \in Nat \ {0} /\ l \in Nat
  BY <1>5, LagIs, SentIs
<1>7. /\ \E on : Tracks(Decoded(hard, HardGain(x)), nt, u, l, steps + 1, on)
      /\ Emitted(hard.out, Decoded(hard, HardGain(x)).out, u, l, steps + 1)
  <2>1. rate.ntraceback = nt
    OBVIOUS
  <2> HIDE DEF nt, l
  <2> QED
    BY <1>2, <1>4, <1>5, <1>6, <2>1, DecodedTracks
<1>8. /\ rate' = rate /\ frame' = frame /\ steps' = steps + 1
      /\ hard' = Decoded(hard, HardGain(x))
  BY <1>4 DEF Decode
<1>9. Tracks(hard', nt, u, l, steps + 1, CHOOSE on : Tracks(hard', nt, u, l, steps + 1, on))
  BY <1>7, <1>8
<1>10. SurvivorsInv'
  <2>1. rate' \in Rates /\ frame' \in Frames /\ steps' \in Nat
    BY <1>5, <1>8
  <2>2. steps' <= Len(frame'.data) => encoder' = StateAt(Sent(frame'), steps')
    BY <1>3, <1>8
  <2>3. \E v, on : /\ Heard(rate', frame', v, steps')
                   /\ Tracks(hard', rate'.ntraceback, v, Len(frame'.data), steps', on)
    BY <1>4, <1>8, <1>9
  <2> QED
    BY <2>1, <2>2, <2>3 DEF SurvivorsInv
<1> QED
  BY <1>4, <1>7, <1>8, <1>10

(* The Viterbi algorithm: of all histories of the encoder that end in a     *)
(* state, one that agrees with as many of the symbols taken from the buffer *)
(* as any is what the decoder keeps to that state, in its paths since the   *)
(* last output and in its ring before; metrics that are bytes, smaller by   *)
(* what every output takes off, and the choice between equal ones do not    *)
(* change that.  What is behind the frame can, if it is not of bits: but    *)
(* not what the survivors have of the frame.                                *)
THEOREM SurvivorsAreClosest == Spec => []SurvivorsInv
<1>1. Init => SurvivorsInv
  <2> SUFFICES ASSUME Init PROVE SurvivorsInv
    OBVIOUS
  <2>1. rate \in Rates /\ frame \in Frames /\ steps = 0 /\ hard = Start /\ encoder = Zeros
    BY DEF Init
  <2>0. Len(frame.data) \in Nat
    BY <2>1, SentIs
  <2>2. PICK surv : Tracks(Start, rate.ntraceback, <<>>, Len(frame.data), 0, surv)
    BY <2>0, <2>1, StartTracks
  <2>3. encoder = StateAt(Sent(frame), steps)
    <3>1. Len(frame.data) \in Nat
      BY <2>1, SentIs
    <3>2. \A i \in 1 .. K - 1 : /\ 0 + 1 - i \in 2 - K .. Len(frame.data)
                                /\ 0 + 1 - i < 1
      BY <3>1, Constants
    <3>3. \A i \in 1 .. K - 1 : Sent(frame)[0 + 1 - i] = 0
      BY <3>2 DEF Sent
    <3>4. StateAt(Sent(frame), 0) = Zeros
      BY <3>3 DEF StateAt, Zeros
    <3> QED
      BY <2>1, <3>4
  <2>4. Heard(rate, frame, <<>>, steps)
    BY <2>1 DEF Heard
  <2>5. steps \in Nat
    BY <2>1
  <2> QED
    BY <2>1, <2>2, <2>3, <2>4, <2>5 DEF SurvivorsInv
<1>2. SurvivorsInv /\ MetricsInv /\ [Next]_vars => SurvivorsInv'
  <2>1. CASE Next
    BY <2>1, NextTracks
  <2>2. CASE UNCHANGED vars
    BY <2>2 DEF vars, SurvivorsInv
  <2> QED
    BY <2>1, <2>2
<1> QED
  BY <1>1, <1>2, MetricsInductive, PTL DEF Spec

(* What is behind a frame does damage only in its last `depth' bits, for    *)
(* every code, rate and frame of which the code alone says that the depth   *)
(* is enough, be it left by an earlier frame or bytes of any value, for     *)
(* which metrics wrap.                                                      *)
THEOREM DamageIsConfined ==
    ASSUME \A r \in Rates : \A f \in Frames : DepthSuffices(r, Len(f.data))
    PROVE  Spec => []DamageConfined
<1>1. Init => DamageConfined
  <2> SUFFICES ASSUME Init PROVE DamageConfined
    OBVIOUS
  <2>1. hard.out = <<>>
    BY DEF Init, Start
  <2>2. DOMAIN hard.out = {}
    BY <2>1
  <2> QED
    BY <2>2 DEF DamageConfined
<1>2. DamageConfined /\ SurvivorsInv /\ MetricsInv /\ [Next]_vars => DamageConfined'
  <2> SUFFICES ASSUME DamageConfined, SurvivorsInv, MetricsInv, [Next]_vars
               PROVE  DamageConfined'
    OBVIOUS
  <2>1. CASE Next
    <3>1. rate' = rate /\ frame' = frame
      BY <2>1, NextTracks
    <3>2. PICK n \in Nat : n = steps + 1
      BY DEF SurvivorsInv
    <3>3. PICK u : Heard(rate, frame, u, n) /\ Emitted(hard.out, hard'.out, u, Len(frame.data), n)
      BY <2>1, <3>2, NextTracks
    <3>4. rate \in Rates /\ frame \in Frames /\ DepthSuffices(rate, Len(frame.data))
      BY DEF SurvivorsInv
    <3>5. ASSUME NEW i \in DOMAIN hard'.out, i <= Len(frame.data) - rate.depth
          PROVE  hard'.out[i] = frame.data[i]
      <4>1. CASE i \in DOMAIN hard.out /\ hard'.out[i] = hard.out[i]
        BY <3>5, <4>1 DEF DamageConfined
      <4>2. CASE /\ i \in 1 .. n - Lag(rate)
                 /\ \E w \in Histories(n) : /\ n <= Len(frame.data) => Closest(u, n, w)
                                            /\ n >= Len(frame.data) => BestTo(u, Len(frame.data), w)
                                            /\ hard'.out[i] = w[i]
        <5>1. PICK w \in Histories(n) :
                  /\ n <= Len(frame.data) => Closest(u, n, w)
                  /\ n >= Len(frame.data) => BestTo(u, Len(frame.data), w)
                  /\ hard'.out[i] = w[i]
          BY <4>2
        <5>2. /\ Heard(rate, frame, u, n)
              /\ i \in 1 .. n - Lag(rate) /\ i <= Len(frame.data) - rate.depth
          BY <3>3, <3>5, <4>2
        <5>3. w[i] = frame.data[i]
          BY <3>4, <5>1, <5>2, ClosestConfines
        <5> QED
          BY <5>1, <5>3
      <4> QED
        BY <3>3, <4>1, <4>2 DEF Emitted
    <3> QED
      BY <3>1, <3>5 DEF DamageConfined
  <2>2. CASE UNCHANGED vars
    BY <2>2 DEF vars, DamageConfined
  <2> QED
    BY <2>1, <2>2
<1> QED
  BY <1>1, <1>2, SurvivorsAreClosest, MetricsInductive, PTL DEF Spec
=============================================================================
