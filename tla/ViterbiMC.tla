----------------------------- MODULE ViterbiMC ------------------------------
(* Coding rates, frames and buffer contents for model checking Viterbi. *)
EXTENDS Viterbi, SequencesExt

(* A code of four states (7, 5), its mother code and a punctured one;       *)
(* frames of SMALL bits, of which any FREE come last, before ones, zeros    *)
(* and another rate's erasures.                                             *)
SMALL == 11
FREE  == 5
SmallTaps     == <<{0, 1, 2}, {0, 2}>>
SmallRates    == {[pattern |-> <<1, 1>>, ntraceback |-> 2, depth |-> 2],
                  [pattern |-> <<1, 1, 1, 0>>, ntraceback |-> 2, depth |-> 4]}
SmallFrames   == {[data |-> [i \in 1 .. SMALL - FREE |-> i % 2] \o d, payload |-> 0] :
                      d \in [1 .. FREE -> Bit]}
SmallStale(t) == {<<0, 0>>, <<1, 1>>, <<0, ERASURE>>}

(* The depths are enough for these codes.                                   *)
ASSUME SmallDepths ==
    Rates = SmallRates =>
        \A r \in Rates : \A n \in {Len(f.data) : f \in Frames} : DepthSuffices(r, n)

-----------------------------------------------------------------------------
(* DepthSuffices for codes with more histories than can be enumerated: to   *)
(* every state and for every step, the weight of the lightest histories and *)
(* the first bit that is a one in one of them.                              *)
NoOne == MAX_ENCODED_BITS
BranchWeight(r, t, s, h) ==
    Cardinality({j \in 1 .. 2 : Kept(r.pattern, 2 * t + j - 3) /\ Branch[s][h][j] = 1})

Onto(r, t, lightest, s) ==
    {<<x[2] + BranchWeight(r, t, s, x[1][K - 1]), IF x[3] = NoOne /\ s[1] = 1 THEN t ELSE x[3]>> :
        x \in {y \in lightest : \E h \in Bit : y[1] = Before[s][h]}}
LightestAfter(r, t, lightest) ==
    {LET onto  == Onto(r, t, lightest, s)
         least == Min({x[1] : x \in onto})
     IN  <<s, least, Min({x[2] : x \in {y \in onto : y[1] = least}})>> : s \in States}
Lightest(r, n) ==
    LET to[t \in 0 .. n] ==
            IF t = 0 THEN <<{<<s, 0, NoOne>> : s \in States}>>
            ELSE LET before == to[t - 1] IN Append(before, LightestAfter(r, t, before[t]))
    IN  Tail(to[n])

DepthComputed(r, lightest, n) ==
    /\ \A x \in lightest[n] : x[3] > n - r.depth
    /\ \A m \in Lag(r) + 1 .. n : \A x \in lightest[m] : x[2] = 0 => x[3] > m - Lag(r)

(* It is DepthSuffices, for the small codes, enough depth or not ...        *)
ASSUME DepthIsComputed ==
    Rates = SmallRates =>
        \A r \in Rates : \A n \in 1 .. 8 : \A depth \in 0 .. 9 : \A ntraceback \in 1 .. 3 :
            LET s == [r EXCEPT !.depth = depth, !.ntraceback = ntraceback]
            IN  DepthComputed(s, Lightest(s, n), n) <=> DepthSuffices(s, n)

-----------------------------------------------------------------------------
(* The code of the standard at rate 3/4, an HT frame of MCS 2 on 20 MHz,    *)
(* one symbol with 7 octets, after one of four symbols with 31.  The last   *)
(* four octets of each are its checksum.                                    *)
FullTaps == <<{0, 2, 3, 5, 6}, {0, 1, 2, 3, 6}>>
FullRate == [pattern |-> <<1, 1, 1, 0, 0, 1>>, ntraceback |-> 10, depth |-> 23]

ShortPsdu == <<14, 14, 14, 145, 244, 228, 140>>
LongPsdu  == [i \in 1 .. 27 |-> 91] \o <<194, 170, 50, 184>>

(* The scrambler of the transmitter: the seven bits of its initial state,   *)
(* then x[n + 7] = x[n] + x[n + 3], which repeats after 127 bits.  Squared,  *)
(* the relation is x[n + 7q] = x[n] + x[n + 3q] for every power q of 2.     *)
Seed == <<1, 0, 1, 1, 1, 0, 1>>
Lengthened(x, q) ==
    x \o [j \in 1 .. 4 * q |-> (x[Len(x) + j - 7 * q] + x[Len(x) + j - 4 * q]) % 2]
Scrambler == FoldLeft(Lengthened, Seed, <<1, 1, 2, 2, 4, 4, 8, 8>>)

(* Service field, PSDU, tail and pad bits of n symbols of 78 bits: the tail *)
(* is zero after the scrambler, the pad before it.                          *)
Scrambled(psdu, n) ==
    LET tail == 16 + 8 * Len(psdu)
        psduBit(i) == (psdu[(i - 17) \div 8 + 1] \div 2 ^ ((i - 17) % 8)) % 2
        plain(i) == IF i \in 17 .. tail THEN psduBit(i) ELSE 0
    IN  [i \in 1 .. 78 * n |->
            IF i \in tail + 1 .. tail + 6 THEN 0 ELSE (plain(i) + Scrambler[((i + 6) % 127) + 1]) % 2]

ShortFrame == [data |-> Scrambled(ShortPsdu, 1), payload |-> 16 + 8 * Len(ShortPsdu)]
LongData   == Scrambled(LongPsdu, 4)

LongEncoder(t) == [i \in 1 .. K - 1 |-> IF t - i > 0 THEN LongData[t - i] ELSE 0]
LeftByLong(t) ==
    {IF t <= Len(LongData)
     THEN Depunctured(FullRate.pattern, t - 1, Coded(LongEncoder(t), LongData[t]))
     ELSE <<0, 0>>}
FullRates  == {FullRate}
FullFrames == {ShortFrame}

(* ... and for the code of the standard these depths are enough for every   *)
(* frame of as many bits as are given with the rate or more: up to LONGEST  *)
(* one by one, and before that the lightest histories come to repeat        *)
(* themselves with the pattern, so that they do so ever after.              *)
LONGEST == 156
StandardDepths ==
    {<<[pattern |-> <<1, 1>>, ntraceback |-> 5, depth |-> 18], 29>>,
     <<[pattern |-> <<1, 1, 1, 0>>, ntraceback |-> 9, depth |-> 18], 43>>,
     <<FullRate, 49>>,
     <<[pattern |-> <<1, 1, 1, 0, 0, 1, 1, 0, 0, 1>>, ntraceback |-> 13, depth |-> 43], 86>>}
Aged(lightest, n) ==
    {<<x[1], x[2], IF x[3] = NoOne THEN NoOne ELSE n - x[3]>> : x \in lightest[n]}
ASSUME FullDepths ==
    Rates = FullRates =>
        \A d \in StandardDepths :
            LET lightest == Lightest(d[1], LONGEST)
                period   == Len(d[1].pattern)
            IN  /\ \A n \in d[2] .. LONGEST : DepthComputed(d[1], lightest, n)
                /\ \E n \in d[2] .. LONGEST - period :
                      Aged(lightest, n) = Aged(lightest, n + period)
=============================================================================
