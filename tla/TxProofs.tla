------------------------------ MODULE TxProofs ------------------------------
(***************************************************************************)
(* The SIGNAL field reads as it was written, for every encoding and every  *)
(* length of twelve bits.                                                  *)
(*                                                                         *)
(* The legacy transmitter keeps header and payload of a frame together,    *)
(* sends PSDUs in order and at most once, and never repeats a scrambler    *)
(* state too early, for every number of carriers, of states and of calls.  *)
(***************************************************************************)
EXTENDS TxChain, ModuloLemmas, FiniteSetTheorems, SequenceTheorems

-----------------------------------------------------------------------------
(* What the bursts are, seen from both ends of the chain.                   *)
End(n) == IF n = 0 THEN 0 ELSE bursts[n].at + bursts[n].len

Items(bytes, e) == NSym(bytes, LegacyOfdm(e).dbps) * CARRIERS

BurstOf(k) ==
    /\ bursts[k] \in Burst
    /\ bursts[k].pdu \in 1 .. taken
    /\ bursts[k].bytes = pdus[bursts[k].pdu] /\ bursts[k].bytes \in PsduLens
    /\ bursts[k].encoding \in Encodings /\ bursts[k].coding = bursts[k].encoding
    /\ bursts[k].len = Items(bursts[k].bytes, bursts[k].encoding)
    /\ bursts[k].len > 0
    /\ bursts[k].at = End(k - 1)
    /\ bursts[k].seed = ((k - 1) % SEEDS) + 1

(* The bursts lie one behind the other, and are of ever later PSDUs.        *)
BurstsInv ==
    /\ \A k \in DOMAIN bursts : BurstOf(k)
    /\ \A j, k \in DOMAIN bursts : j < k => /\ bursts[j].at + bursts[j].len <= bursts[k].at
                                           /\ bursts[j].pdu < bursts[k].pdu

MapperInv ==
    /\ MapperTypeOK
    /\ encoding \in Encodings
    /\ scrambler = (Len(bursts) % SEEDS) + 1
    /\ symbolsOffset = 0 => produced = End(Len(bursts))
    /\ symbolsOffset > 0 => /\ Len(bursts) > 0
                            /\ symbolsLen = bursts[Len(bursts)].len
                            /\ symbolsOffset < symbolsLen
                            /\ produced = bursts[Len(bursts)].at + symbolsOffset

HeaderOf(k)  == SignalHeader(bursts[k].encoding, bursts[k].bytes)
PayloadOf(k) == [pdu |-> bursts[k].pdu, coding |-> bursts[k].coding,
                 items |-> bursts[k].len,
                 bpsc |-> LegacyCoding[bursts[k].encoding + 1].bpsc]

(* Each reader has made one output of each of the first bursts.             *)
ReadersInv ==
    /\ headers \in Seq(Bits) /\ Len(headers) <= Len(bursts)
    /\ headerRead = End(Len(headers)) /\ headerRead <= produced
    /\ \A k \in DOMAIN headers : headers[k] = HeaderOf(k)
    /\ payloads \in Seq([pdu : Nat, coding : 0 .. 7, items : Nat, bpsc : Nat])
    /\ Len(payloads) <= Len(bursts)
    /\ chunkRead = End(Len(payloads)) /\ chunkRead <= produced
    /\ \A k \in DOMAIN payloads : payloads[k] = PayloadOf(k)

SentInv ==
    /\ sent \in Seq([header : Bits, payload : [pdu : Nat, coding : 0 .. 7, items : Nat, bpsc : Nat]])
    /\ Len(sent) <= Len(headers) /\ Len(sent) <= Len(payloads)
    /\ \A k \in DOMAIN sent : sent[k] = [header |-> headers[k], payload |-> payloads[k]]

TxInv == MapperInv /\ BurstsInv /\ ReadersInv /\ SentInv

-----------------------------------------------------------------------------
(* Lemmas about the operators. *)

LEMMA CodingType ==
    ASSUME NEW e \in 0 .. 7
    PROVE  /\ LegacyCoding[e + 1].bpsc \in Nat
           /\ LegacyOfdm(e).dbps \in Nat \ {0}
<1> DEFINE i == e + 1
<1>1. i \in 1 .. 8
  OBVIOUS
<1>2. i = 1 \/ i = 2 \/ i = 3 \/ i = 4 \/ i = 5 \/ i = 6 \/ i = 7 \/ i = 8
  BY <1>1
<1> HIDE DEF i
<1>3. /\ LegacyCoding[i].bpsc \in Nat
      /\ Ofdm(LegacyCoding[i], 48).dbps \in Nat \ {0}
  <2>1. CASE i = 1 BY <2>1 DEF LegacyCoding, Ofdm
  <2>2. CASE i = 2 BY <2>2 DEF LegacyCoding, Ofdm
  <2>3. CASE i = 3 BY <2>3 DEF LegacyCoding, Ofdm
  <2>4. CASE i = 4 BY <2>4 DEF LegacyCoding, Ofdm
  <2>5. CASE i = 5 BY <2>5 DEF LegacyCoding, Ofdm
  <2>6. CASE i = 6 BY <2>6 DEF LegacyCoding, Ofdm
  <2>7. CASE i = 7 BY <2>7 DEF LegacyCoding, Ofdm
  <2>8. CASE i = 8 BY <2>8 DEF LegacyCoding, Ofdm
  <2> QED BY <1>2, <2>1, <2>2, <2>3, <2>4, <2>5, <2>6, <2>7, <2>8
<1> QED
  BY <1>3 DEF i, LegacyOfdm

(* A burst is never empty. *)
LEMMA ItemsPositive ==
    ASSUME NEW bytes \in Nat, NEW e \in 0 .. 7
    PROVE  Items(bytes, e) \in Nat \ {0}
<1> USE MapperAssumption
<1>1. PICK d \in Nat \ {0} : d = LegacyOfdm(e).dbps
  BY CodingType
<1>2. PICK q \in Int, r \in 0 .. d - 1 : 22 + 8 * bytes + d - 1 = d * q + r /\ q = NSym(bytes, d)
  <2>1. 22 + 8 * bytes + d - 1 \in Int
    OBVIOUS
  <2> QED
    BY <2>1, DivMod DEF NSym
<1>3. q > 0
  <2>1. SUFFICES ASSUME q <= 0 PROVE FALSE
    OBVIOUS
  <2>2. d * q <= 0
    BY <2>1
  <2> QED
    BY <1>2, <2>2
<1>4. Items(bytes, e) = q * CARRIERS
  BY <1>1, <1>2 DEF Items
<1>5. q * CARRIERS \in Nat \ {0}
  BY <1>3
<1> QED
  BY <1>4, <1>5

LEMMA Appended ==
    ASSUME NEW S, NEW s \in Seq(S), NEW e \in S
    PROVE  /\ Append(s, e) \in Seq(S)
           /\ Len(s) \in Nat /\ DOMAIN s = 1 .. Len(s)
           /\ Len(Append(s, e)) = Len(s) + 1
           /\ DOMAIN Append(s, e) = 1 .. Len(s) + 1
           /\ \A k \in 1 .. Len(s) : Append(s, e)[k] = s[k]
           /\ Append(s, e)[Len(s) + 1] = e
<1>1. Append(s, e) \in Seq(S) /\ Len(Append(s, e)) = Len(s) + 1
  BY AppendProperties
<1>2. DOMAIN Append(s, e) = 1 .. Len(Append(s, e)) /\ DOMAIN s = 1 .. Len(s)
      /\ Len(s) \in Nat
  BY <1>1, LenProperties
<1> QED
  BY <1>1, <1>2, AppendProperties

LEMMA BitType == ASSUME NEW n, NEW i PROVE Bit(n, i) \in {0, 1}
  BY DEF Bit

LEMMA LeastOf ==
    ASSUME NEW S, S \subseteq Nat, S # {}
    PROVE  Min(S) \in S /\ \A n \in S : Min(S) <= n
<1>1. \E m \in S : \A n \in S : m <= n
  BY LeastNat
<1> QED
  BY <1>1 DEF Min

-----------------------------------------------------------------------------
(* The SIGNAL field: what parse_signal reads is what signal_field wrote.     *)

(* Number adds up what the bits are worth: any function of the sets of      *)
(* positions that takes off one position after the other gives that sum.    *)
LEMMA NumberUnfolds ==
    ASSUME NEW s, IsFiniteSet(DOMAIN s),
           NEW W \in [SUBSET DOMAIN s -> Int],
           W[{}] = 0,
           \A S \in SUBSET DOMAIN s : \A x \in S :
              W[S] = s[x] * 2 ^ (x - 1) + W[S \ {x}]
    PROVE  Number(s) = W[DOMAIN s]
<1> DEFINE D == DOMAIN s
           P == SUBSET D
           pick(S) == CHOOSE x \in S : TRUE
           Folds(g) == g = [S \in P |-> IF S = {} THEN 0
                                        ELSE s[pick(S)] * 2 ^ (pick(S) - 1)
                                               + g[S \ {pick(S)}]]
           h == CHOOSE g : Folds(g)
<1>1. Number(s) = h[D]
  BY Zenon DEF Number, MapThenSumSet, MapThenFoldSet
<1>2. ASSUME NEW S \in P, S # {} PROVE pick(S) \in S /\ S \ {pick(S)} \in P
  BY <1>2
<1> HIDE DEF pick
<1>3. Folds(W)
  <2>1. ASSUME NEW S \in P
        PROVE  W[S] = IF S = {} THEN 0
                      ELSE s[pick(S)] * 2 ^ (pick(S) - 1) + W[S \ {pick(S)}]
    BY <1>2, <2>1, Zenon
  <2>2. W = [S \in P |-> W[S]]
    OBVIOUS
  <2> QED
    BY <2>1, <2>2, Zenon
<1>4. Folds(h)
  BY <1>3, Zenon
<1>5. ASSUME NEW S \in P
      PROVE  h[S] = IF S = {} THEN 0
                    ELSE s[pick(S)] * 2 ^ (pick(S) - 1) + h[S \ {pick(S)}]
  BY <1>4, Zenon
<1> HIDE DEF h, Folds
<1>6. ASSUME NEW S \in P, h[S] # W[S] PROVE FALSE
  <2> DEFINE Wrong == {Cardinality(T) : T \in {T \in P : h[T] # W[T]}}
  <2>1. \A T \in P : IsFiniteSet(T) /\ Cardinality(T) \in Nat
    BY FS_Subset, FS_CardinalityType
  <2>2. Wrong \subseteq Nat /\ Wrong # {}
    BY <1>6, <2>1
  <2> HIDE DEF Wrong
  <2>3. PICK m \in Wrong : \A n \in Wrong : m <= n
    BY <2>2, LeastNat
  <2>4. PICK T \in P : h[T] # W[T] /\ m = Cardinality(T)
    BY DEF Wrong
  <2>5. T # {}
    BY <1>5, <2>4
  <2> DEFINE x == pick(T)
  <2>6. x \in T /\ T \ {x} \in P
    BY <1>2, <2>5
  <2> HIDE DEF x
  <2>7. Cardinality(T \ {x}) = m - 1
    BY <2>1, <2>4, <2>6, FS_RemoveElement
  <2>8. h[T \ {x}] = W[T \ {x}]
    <3>1. CASE h[T \ {x}] # W[T \ {x}]
      <4>1. m - 1 \in Wrong
        BY <2>6, <2>7, <3>1 DEF Wrong
      <4> QED
        BY <2>2, <2>3, <4>1
    <3> QED
      BY <3>1
  <2>9. W[T] = s[x] * 2 ^ (x - 1) + W[T \ {x}]
    BY <2>6
  <2>10. h[T] = s[x] * 2 ^ (x - 1) + h[T \ {x}]
    BY <1>5, <2>5 DEF x
  <2> QED
    BY <2>4, <2>8, <2>9, <2>10, Zenon
<1> QED
  BY <1>1, <1>6

(* What the bit at position i of s is worth, if i is in S; four of them.    *)
Worth(s, i, S) == IF i \in S THEN s[i] * 2 ^ (i - 1) ELSE 0

Four(s, k, S) == Worth(s, k + 1, S) + Worth(s, k + 2, S)
                 + Worth(s, k + 3, S) + Worth(s, k + 4, S)

Twelve(s, S) == Four(s, 0, S) + Four(s, 4, S) + Four(s, 8, S)

LEMMA WorthType ==
    ASSUME NEW n \in Nat, NEW s \in [1 .. n -> {0, 1}], NEW S \in SUBSET (1 .. n), NEW i
    PROVE  Worth(s, i, S) \in Int
<1>1. CASE i \in S
  <2>1. i - 1 \in Nat /\ s[i] \in {0, 1}
    BY <1>1
  <2>2. 2 ^ (i - 1) \in Int
    BY <2>1
  <2>3. s[i] * 2 ^ (i - 1) = 0 \/ s[i] * 2 ^ (i - 1) = 2 ^ (i - 1)
    BY <2>1, <2>2
  <2> QED
    BY <1>1, <2>2, <2>3 DEF Worth
<1>2. CASE i \notin S
  BY <1>2 DEF Worth
<1> QED
  BY <1>1, <1>2

(* Without the position x, four bits are worth less by what x is.           *)
LEMMA FourWithout ==
    ASSUME NEW n \in Nat, NEW s \in [1 .. n -> {0, 1}], NEW S \in SUBSET (1 .. n),
           NEW x \in S, NEW k \in Nat
    PROVE  /\ Four(s, k, S) \in Int
           /\ Four(s, k, S) = Four(s, k, S \ {x})
                              + IF k < x /\ x <= k + 4 THEN Worth(s, x, S) ELSE 0
<1>1. x \in Nat /\ S \ {x} \in SUBSET (1 .. n)
  OBVIOUS
<1>2. \A i : Worth(s, i, S) \in Int /\ Worth(s, i, S \ {x}) \in Int
  BY <1>1, WorthType
<1>3. /\ Worth(s, x, S \ {x}) = 0
      /\ \A i : i # x => Worth(s, i, S \ {x}) = Worth(s, i, S)
  BY Zenon DEF Worth
<1>4. PICK a \in Int, b \in Int, c \in Int, d \in Int, e \in Int :
         /\ a = Worth(s, k + 1, S) /\ b = Worth(s, k + 2, S)
         /\ c = Worth(s, k + 3, S) /\ d = Worth(s, k + 4, S) /\ e = Worth(s, x, S)
  BY <1>2, Zenon
<1>5. PICK p \in Int, q \in Int, r \in Int, t \in Int :
         /\ p = Worth(s, k + 1, S \ {x}) /\ q = Worth(s, k + 2, S \ {x})
         /\ r = Worth(s, k + 3, S \ {x}) /\ t = Worth(s, k + 4, S \ {x})
  BY <1>2, Zenon
<1>6. /\ p = IF k + 1 = x THEN 0 ELSE a
      /\ q = IF k + 2 = x THEN 0 ELSE b
      /\ r = IF k + 3 = x THEN 0 ELSE c
      /\ t = IF k + 4 = x THEN 0 ELSE d
  BY <1>3, <1>4, <1>5
<1>7. /\ k + 1 = x => a = e
      /\ k + 2 = x => b = e
      /\ k + 3 = x => c = e
      /\ k + 4 = x => d = e
  BY <1>4
<1>8. Four(s, k, S) = a + b + c + d /\ Four(s, k, S \ {x}) = p + q + r + t
  BY <1>4, <1>5, Zenon DEF Four
<1>9. a + b + c + d = p + q + r + t + IF k < x /\ x <= k + 4 THEN e ELSE 0
  <2>1. CASE x = k + 1
    <3>1. p = 0 /\ q = b /\ r = c /\ t = d /\ a = e /\ k < x /\ x <= k + 4
      BY <1>6, <1>7, <2>1
    <3> QED
      BY <3>1
  <2>2. CASE x = k + 2
    <3>1. p = a /\ q = 0 /\ r = c /\ t = d /\ b = e /\ k < x /\ x <= k + 4
      BY <1>6, <1>7, <2>2
    <3> QED
      BY <3>1
  <2>3. CASE x = k + 3
    <3>1. p = a /\ q = b /\ r = 0 /\ t = d /\ c = e /\ k < x /\ x <= k + 4
      BY <1>6, <1>7, <2>3
    <3> QED
      BY <3>1
  <2>4. CASE x = k + 4
    <3>1. p = a /\ q = b /\ r = c /\ t = 0 /\ d = e /\ k < x /\ x <= k + 4
      BY <1>6, <1>7, <2>4
    <3> QED
      BY <3>1
  <2>5. CASE ~ (k < x /\ x <= k + 4)
    <3>1. k + 1 # x /\ k + 2 # x /\ k + 3 # x /\ k + 4 # x
      BY <1>1, <2>5
    <3>2. p = a /\ q = b /\ r = c /\ t = d
      BY <1>6, <3>1, Zenon
    <3>3. (IF k < x /\ x <= k + 4 THEN e ELSE 0) = 0
      BY <2>5, Zenon
    <3>4. a + b + c + d = p + q + r + t + 0
      BY <3>2
    <3> QED
      BY <3>3, <3>4, Zenon
  <2>6. (k < x /\ x <= k + 4) => \/ x = k + 1 \/ x = k + 2
                                \/ x = k + 3 \/ x = k + 4
    BY <1>1
  <2> QED
    BY <2>1, <2>2, <2>3, <2>4, <2>5, <2>6
<1>10. a + b + c + d \in Int
  OBVIOUS
<1>11. e = Worth(s, x, S)
  BY <1>4, Zenon
<1> QED
  BY <1>8, <1>9, <1>10, <1>11, Zenon

LEMMA NumberIsSum ==
    ASSUME NEW n \in 0 .. 12, NEW s \in [1 .. n -> {0, 1}]
    PROVE  Number(s) = Twelve(s, 1 .. n)
<1> DEFINE D == 1 .. n
           W == [S \in SUBSET D |-> Twelve(s, S)]
<1>1. DOMAIN s = D /\ n \in Nat /\ n <= 12
  OBVIOUS
<1>2. IsFiniteSet(D)
  BY FS_Interval
<1>3. ASSUME NEW S \in SUBSET D, NEW k \in Nat PROVE Four(s, k, S) \in Int
  <2>1. \A i : Worth(s, i, S) \in Int
    BY <1>1, WorthType
  <2> QED
    BY <2>1 DEF Four
<1>4. \A S \in SUBSET D : Twelve(s, S) \in Int
  BY <1>3 DEF Twelve
<1>5. W \in [SUBSET D -> Int]
  BY <1>4
<1>6. W[{}] = 0
  <2>1. {} \in SUBSET D
    OBVIOUS
  <2>2. \A i : Worth(s, i, {}) = 0
    BY DEF Worth
  <2>3. \A k : Four(s, k, {}) = 0
    BY <2>2 DEF Four
  <2>4. Twelve(s, {}) = 0
    BY <2>3 DEF Twelve
  <2> QED
    BY <2>1, <2>4
<1>7. ASSUME NEW S \in SUBSET D, NEW x \in S
      PROVE  W[S] = s[x] * 2 ^ (x - 1) + W[S \ {x}]
  <2>1. x \in Nat /\ 1 <= x /\ x <= 12 /\ S \ {x} \in SUBSET D
    BY <1>1
  <2>2. s[x] * 2 ^ (x - 1) = Worth(s, x, S)
    BY DEF Worth
  <2>3. PICK a \in Int, b \in Int, c \in Int, e \in Int :
           /\ a = Four(s, 0, S \ {x}) /\ b = Four(s, 4, S \ {x})
           /\ c = Four(s, 8, S \ {x}) /\ e = Worth(s, x, S)
    BY <1>1, <1>3, <2>1, WorthType
  <2>4. PICK u \in Int, v \in Int, w \in Int :
           u = Four(s, 0, S) /\ v = Four(s, 4, S) /\ w = Four(s, 8, S)
    BY <1>3
  <2>5. /\ u = a + IF 0 < x /\ x <= 0 + 4 THEN e ELSE 0
        /\ v = b + IF 4 < x /\ x <= 4 + 4 THEN e ELSE 0
        /\ w = c + IF 8 < x /\ x <= 8 + 4 THEN e ELSE 0
    <3>1. \A k \in Nat : Four(s, k, S) = Four(s, k, S \ {x})
                              + IF k < x /\ x <= k + 4 THEN Worth(s, x, S) ELSE 0
      BY <1>1, FourWithout
    <3>2. 0 \in Nat /\ 4 \in Nat /\ 8 \in Nat
      OBVIOUS
    <3> QED
      BY <2>3, <2>4, <3>1, <3>2, Zenon
  <2>6. Twelve(s, S) = u + v + w /\ Twelve(s, S \ {x}) = a + b + c
    BY <2>3, <2>4, Zenon DEF Twelve
  <2>7. a \in Int /\ b \in Int /\ c \in Int /\ e \in Int
    BY <2>3, Zenon
  <2>8. u + v + w = e + (a + b + c)
    <3>1. CASE x <= 4
      <4>1. u = a + e /\ v = b /\ w = c
        BY <2>1, <2>5, <3>1
      <4> QED
        BY <2>7, <4>1
    <3>2. CASE 4 < x /\ x <= 8
      <4>1. u = a /\ v = b + e /\ w = c
        BY <2>1, <2>5, <3>2
      <4> QED
        BY <2>7, <4>1
    <3>3. CASE 8 < x
      <4>1. u = a /\ v = b /\ w = c + e
        BY <2>1, <2>5, <3>3
      <4> QED
        BY <2>7, <4>1
    <3> QED
      BY <2>1, <3>1, <3>2, <3>3
  <2>9. Twelve(s, S) = e + Twelve(s, S \ {x})
    BY <2>6, <2>8, Zenon
  <2> QED
    BY <2>1, <2>2, <2>3, <2>9
<1>8. Number(s) = W[DOMAIN s]
  <2>1. /\ IsFiniteSet(DOMAIN s) /\ W \in [SUBSET DOMAIN s -> Int]
        /\ \A S \in SUBSET DOMAIN s : \A x \in S :
              W[S] = s[x] * 2 ^ (x - 1) + W[S \ {x}]
    <3> HIDE DEF W
    <3> QED
      BY <1>1, <1>2, <1>5, <1>7, Zenon
  <2> HIDE DEF W
  <2> QED
    BY <1>6, <2>1, NumberUnfolds, Zenon
<1>9. D \in SUBSET D
  OBVIOUS
<1> QED
  BY <1>1, <1>8, <1>9 DEF W, D

(* Four bits of a number, from the one at place k on, are worth the          *)
(* remainder by 16 of its quotient by 2 ^ k, as often as 2 ^ k.              *)
LEMMA FourBits ==
    ASSUME NEW p \in Nat
    PROVE  p % 16 = (p % 2) + 2 * ((p \div 2) % 2) + 4 * ((p \div 4) % 2) + 8 * ((p \div 8) % 2)
OBVIOUS

FourAt(s, S, q, k, K, p) ==
    /\ \A i \in k .. k + 3 : Worth(s, i + 1, S) = Bit(q, i) * 2 ^ i
    /\ 2 ^ k = K /\ 2 ^ (k + 1) = 2 * K /\ 2 ^ (k + 2) = 4 * K /\ 2 ^ (k + 3) = 8 * K
    /\ q \div K = p /\ q \div (2 * K) = p \div 2
    /\ q \div (4 * K) = p \div 4 /\ q \div (8 * K) = p \div 8

LEMMA FourWorth ==
    ASSUME NEW q \in Nat, NEW k \in Nat, NEW p \in Nat, NEW K \in Nat, NEW s, NEW S,
           FourAt(s, S, q, k, K, p)
    PROVE  Four(s, k, S) = K * (p % 16)
<1>0. /\ \A i \in k .. k + 3 : Worth(s, i + 1, S) = Bit(q, i) * 2 ^ i
      /\ 2 ^ k = K /\ 2 ^ (k + 1) = 2 * K /\ 2 ^ (k + 2) = 4 * K /\ 2 ^ (k + 3) = 8 * K
      /\ q \div K = p /\ q \div (2 * K) = p \div 2
      /\ q \div (4 * K) = p \div 4 /\ q \div (8 * K) = p \div 8
  BY DEF FourAt
<1>1. ASSUME NEW i, NEW m \in Nat, NEW r \in Nat, 2 ^ i = m, q \div m = r
      PROVE  Bit(q, i) = r % 2
  <2>1. PICK b \in {0, 1} : b = r % 2
    OBVIOUS
  <2>2. Bit(q, i) = IF b = 0 THEN 0 ELSE 1
    BY <1>1, <2>1, Zenon DEF Bit
  <2> QED
    BY <2>1, <2>2
<1>2. /\ K \in Nat /\ 2 * K \in Nat /\ 4 * K \in Nat /\ 8 * K \in Nat
      /\ p \div 2 \in Nat /\ p \div 4 \in Nat /\ p \div 8 \in Nat
  OBVIOUS
<1>3. /\ Bit(q, k) = p % 2 /\ Bit(q, k + 1) = (p \div 2) % 2
      /\ Bit(q, k + 2) = (p \div 4) % 2 /\ Bit(q, k + 3) = (p \div 8) % 2
  BY <1>0, <1>1, <1>2, Zenon
<1>4. /\ Worth(s, k + 1, S) = Bit(q, k) * 2 ^ k
      /\ Worth(s, k + 2, S) = Bit(q, k + 1) * 2 ^ (k + 1)
      /\ Worth(s, k + 3, S) = Bit(q, k + 2) * 2 ^ (k + 2)
      /\ Worth(s, k + 4, S) = Bit(q, k + 3) * 2 ^ (k + 3)
  <2>1. /\ k \in k .. k + 3 /\ k + 1 \in k .. k + 3
        /\ k + 2 \in k .. k + 3 /\ k + 3 \in k .. k + 3
        /\ (k + 1) + 1 = k + 2 /\ (k + 2) + 1 = k + 3 /\ (k + 3) + 1 = k + 4
    OBVIOUS
  <2> QED
    BY <1>0, <2>1, Zenon
<1>5. PICK a \in {0, 1}, b \in {0, 1}, c \in {0, 1}, d \in {0, 1} :
         /\ a = p % 2 /\ b = (p \div 2) % 2
         /\ c = (p \div 4) % 2 /\ d = (p \div 8) % 2
  OBVIOUS
<1>6. Four(s, k, S) = a * K + b * (2 * K) + c * (4 * K) + d * (8 * K)
  BY <1>0, <1>3, <1>4, <1>5, Zenon DEF Four
<1>7. p % 16 = a + 2 * b + 4 * c + 8 * d
  BY <1>5, FourBits, Zenon
<1>8. K * (a + 2 * b + 4 * c + 8 * d) = a * K + b * (2 * K) + c * (4 * K) + d * (8 * K)
  OBVIOUS
<1> QED
  BY <1>6, <1>7, <1>8, Zenon

(* Twelve bits of a number below 4096, from the low one up, read as the      *)
(* number itself.                                                            *)
LEMMA TwelveBits ==
    ASSUME NEW q \in Nat, q \div 256 < 16
    PROVE  Number([j \in 1 .. 12 |-> Bit(q, j - 1)]) = q
<1> DEFINE s == [j \in 1 .. 12 |-> Bit(q, j - 1)]
<1>2. \A i : Bit(q, i) \in {0, 1}
  BY DEF Bit
<1>3. 12 \in 0 .. 12 /\ s \in [1 .. 12 -> {0, 1}]
  BY <1>2
<1>4. Number(s) = Twelve(s, 1 .. 12)
  BY <1>3, NumberIsSum
<1>5. ASSUME NEW i \in 0 .. 11 PROVE Worth(s, i + 1, 1 .. 12) = Bit(q, i) * 2 ^ i
  <2>1. i + 1 \in 1 .. 12 /\ (i + 1) - 1 = i
    OBVIOUS
  <2>2. s[i + 1] = Bit(q, i)
    BY <2>1
  <2> HIDE DEF s
  <2>3. Worth(s, i + 1, 1 .. 12) = s[i + 1] * 2 ^ ((i + 1) - 1)
    BY <2>1 DEF Worth
  <2> QED
    BY <2>1, <2>2, <2>3
<1> HIDE DEF s
<1>6. /\ \A i \in 0 .. 0 + 3 : Worth(s, i + 1, 1 .. 12) = Bit(q, i) * 2 ^ i
      /\ \A i \in 4 .. 4 + 3 : Worth(s, i + 1, 1 .. 12) = Bit(q, i) * 2 ^ i
      /\ \A i \in 8 .. 8 + 3 : Worth(s, i + 1, 1 .. 12) = Bit(q, i) * 2 ^ i
  BY <1>5
<1>8. q \div 16 \in Nat /\ q \div 256 \in Nat
  OBVIOUS
<1>7. Four(s, 0, 1 .. 12) = 1 * (q % 16)
  <2>1. PICK K \in Nat, p \in Nat : K = 1 /\ p = q
    BY <1>8
  <2>2. 2 ^ 0 = K /\ 2 ^ (0 + 1) = 2 * K /\ 2 ^ (0 + 2) = 4 * K /\ 2 ^ (0 + 3) = 8 * K
    BY <2>1
  <2>3. /\ q \div K = p /\ q \div (2 * K) = p \div 2
        /\ q \div (4 * K) = p \div 4 /\ q \div (8 * K) = p \div 8
    BY <2>1
  <2>4. 0 \in Nat
    OBVIOUS
  <2>5. FourAt(s, 1 .. 12, q, 0, K, p)
    BY <1>6, <2>2, <2>3, Zenon DEF FourAt
  <2>6. Four(s, 0, 1 .. 12) = K * (p % 16)
    BY <2>1, <2>4, <2>5, FourWorth
  <2> QED
    BY <2>1, <2>6
<1>9. Four(s, 4, 1 .. 12) = 16 * ((q \div 16) % 16)
  <2>1. PICK K \in Nat, p \in Nat : K = 16 /\ p = q \div 16
    BY <1>8
  <2>2. 2 ^ 4 = K /\ 2 ^ (4 + 1) = 2 * K /\ 2 ^ (4 + 2) = 4 * K /\ 2 ^ (4 + 3) = 8 * K
    BY <2>1
  <2>3. /\ q \div K = p /\ q \div (2 * K) = p \div 2
        /\ q \div (4 * K) = p \div 4 /\ q \div (8 * K) = p \div 8
    BY <2>1
  <2>4. 4 \in Nat
    OBVIOUS
  <2>5. FourAt(s, 1 .. 12, q, 4, K, p)
    BY <1>6, <2>2, <2>3, Zenon DEF FourAt
  <2>6. Four(s, 4, 1 .. 12) = K * (p % 16)
    BY <2>1, <2>4, <2>5, FourWorth
  <2> QED
    BY <2>1, <2>6
<1>10. Four(s, 8, 1 .. 12) = 256 * ((q \div 256) % 16)
  <2>1. PICK K \in Nat, p \in Nat : K = 256 /\ p = q \div 256
    BY <1>8
  <2>2. 2 ^ 8 = K /\ 2 ^ (8 + 1) = 2 * K /\ 2 ^ (8 + 2) = 4 * K /\ 2 ^ (8 + 3) = 8 * K
    BY <2>1
  <2>3. /\ q \div K = p /\ q \div (2 * K) = p \div 2
        /\ q \div (4 * K) = p \div 4 /\ q \div (8 * K) = p \div 8
    BY <2>1
  <2>4. 8 \in Nat
    OBVIOUS
  <2>5. FourAt(s, 1 .. 12, q, 8, K, p)
    BY <1>6, <2>2, <2>3, Zenon DEF FourAt
  <2>6. Four(s, 8, 1 .. 12) = K * (p % 16)
    BY <2>1, <2>4, <2>5, FourWorth
  <2> QED
    BY <2>1, <2>6
<1>11. 1 * (q % 16) + 16 * ((q \div 16) % 16) + 256 * ((q \div 256) % 16) = q
  <2>1. q = 16 * (q \div 16) + (q % 16)
    OBVIOUS
  <2>2. q \div 16 = 16 * (q \div 256) + ((q \div 16) % 16)
    OBVIOUS
  <2>3. (q \div 256) % 16 = q \div 256
    BY <1>8
  <2> QED
    BY <2>1, <2>2, <2>3
<1>12. Number(s) = 1 * (q % 16) + 16 * ((q \div 16) % 16) + 256 * ((q \div 256) % 16)
  BY <1>4, <1>7, <1>9, <1>10 DEF Twelve
<1> QED
  BY <1>11, <1>12 DEF s

(* The rate, written from its high bit down and read from its low bit up, is *)
(* in the reader's table at the place the writer took it from.               *)
LEMMA RateBits ==
    ASSUME NEW e \in 0 .. 7
    PROVE  Number([j \in 1 .. 4 |-> Bit(RateField[e + 1], 4 - j)]) = RateRead[e + 1]
<1> DEFINE R == RateField[e + 1]
           s == [j \in 1 .. 4 |-> Bit(R, 4 - j)]
<1>1. R \in Nat
  BY DEF RateField
<1>2. 4 \in 0 .. 12 /\ s \in [1 .. 4 -> {0, 1}]
  <2>1. \A i : Bit(R, i) \in {0, 1}
    BY BitType
  <2> QED
    BY <2>1
<1>3. /\ s[1] = Bit(R, 3) /\ s[2] = Bit(R, 2) /\ s[3] = Bit(R, 1) /\ s[4] = Bit(R, 0)
  BY DEF s
<1>4. ASSUME NEW i \in 0 .. 3, NEW m \in Nat, 2 ^ i = m, NEW r \in Nat, R \div m = r
      PROVE  Bit(R, i) = r % 2
  <2>1. PICK b \in {0, 1} : b = r % 2
    OBVIOUS
  <2> HIDE DEF R
  <2>2. Bit(R, i) = IF b = 0 THEN 0 ELSE 1
    BY <1>4, <2>1, Zenon DEF Bit
  <2> QED
    BY <2>1, <2>2
<1> HIDE DEF R
<1>5. 2 ^ 0 = 1 /\ 2 ^ 1 = 2 /\ 2 ^ 2 = 4 /\ 2 ^ 3 = 8
  OBVIOUS
<1>6. R \div 1 \in Nat /\ R \div 2 \in Nat /\ R \div 4 \in Nat /\ R \div 8 \in Nat
  BY <1>1
<1>7. /\ Bit(R, 0) = (R \div 1) % 2 /\ Bit(R, 1) = (R \div 2) % 2
      /\ Bit(R, 2) = (R \div 4) % 2 /\ Bit(R, 3) = (R \div 8) % 2
  BY <1>4, <1>5, <1>6
<1> HIDE DEF s
<1>8. Number(s) = Twelve(s, 1 .. 4)
  BY <1>2, NumberIsSum
<1>9. /\ Worth(s, 0 + 1, 1 .. 4) = s[1] * 1 /\ Worth(s, 0 + 2, 1 .. 4) = s[2] * 2
      /\ Worth(s, 0 + 3, 1 .. 4) = s[3] * 4 /\ Worth(s, 0 + 4, 1 .. 4) = s[4] * 8
  BY <1>5 DEF Worth
<1>10. \A i \in 5 .. 12 : Worth(s, i, 1 .. 4) = 0
  BY DEF Worth
<1>11. Four(s, 4, 1 .. 4) = 0 /\ Four(s, 8, 1 .. 4) = 0
  BY <1>10 DEF Four
<1>12. Four(s, 0, 1 .. 4) = ((R \div 8) % 2) * 1 + ((R \div 4) % 2) * 2
                            + ((R \div 2) % 2) * 4 + ((R \div 1) % 2) * 8
  BY <1>3, <1>7, <1>9, Zenon DEF Four
<1>13. Number(s) = ((R \div 8) % 2) * 1 + ((R \div 4) % 2) * 2
                   + ((R \div 2) % 2) * 4 + ((R \div 1) % 2) * 8
  BY <1>6, <1>8, <1>11, <1>12 DEF Twelve
<1>14. ((R \div 8) % 2) * 1 + ((R \div 4) % 2) * 2
          + ((R \div 2) % 2) * 4 + ((R \div 1) % 2) * 8 = RateRead[e + 1]
  <2>1. e \in {0, 1, 2, 3, 4, 5, 6, 7}
    OBVIOUS
  <2> QED
    BY <2>1 DEF R, RateField, RateRead
<1> QED
  BY <1>13, <1>14, Zenon DEF s, R

LEMMA FunctionIsSeq ==
    ASSUME NEW S, NEW n \in Nat, NEW f \in [1 .. n -> S]
    PROVE  f \in Seq(S) /\ Len(f) = n
<1>1. f \in Seq(S)
  BY SeqDef, Zenon
<1>2. f \in [1 .. Len(f) -> S] /\ Len(f) \in Nat
  BY <1>1, LenProperties
<1>3. 1 .. Len(f) = 1 .. n
  BY <1>2, Zenon
<1> QED
  BY <1>1, <1>2, <1>3

(* The header in its places, and its parity, which is over the others.       *)
LEMMA HeaderBits ==
    ASSUME NEW e \in 0 .. 7, NEW bytes \in Nat, NEW h, h = SignalHeader(e, bytes)
    PROVE  /\ h \in [1 .. 18 -> {0, 1}]
           /\ \A j \in 1 .. 4 : h[j] = Bit(RateField[e + 1], 4 - j)
           /\ \A j \in 1 .. 12 : h[5 + j] = Bit(bytes, j - 1)
           /\ Parity(h) = h[18]
<1> DEFINE body == [i \in 1 .. 17 |->
                       CASE i <= 4 -> Bit(RateField[e + 1], 4 - i)
                         [] i = 5  -> 0
                         [] i > 5  -> Bit(bytes, i - 6)]
<1>1. h = Append(body, Parity(body))
  BY DEF SignalHeader
<1>2. \A j \in 1 .. 4 : j \in 1 .. 17 /\ body[j] = Bit(RateField[e + 1], 4 - j)
  OBVIOUS
<1>3. \A j \in 1 .. 12 : 5 + j \in 1 .. 17 /\ body[5 + j] = Bit(bytes, j - 1)
  <2> TAKE j \in 1 .. 12
  <2>1. 5 + j \in 1 .. 17 /\ ~ (5 + j <= 4) /\ 5 + j # 5 /\ 5 + j > 5 /\ (5 + j) - 6 = j - 1
    OBVIOUS
  <2> QED
    BY <2>1
<1>4. body \in [1 .. 17 -> {0, 1}]
  <2> SUFFICES ASSUME NEW i \in 1 .. 17
               PROVE  (CASE i <= 4 -> Bit(RateField[e + 1], 4 - i)
                         [] i = 5  -> 0
                         [] i > 5  -> Bit(bytes, i - 6)) \in {0, 1}
    BY Zenon
  <2>1. CASE i <= 4
    BY <2>1, BitType
  <2>2. CASE i = 5
    BY <2>2
  <2>3. CASE i > 5
    BY <2>3, BitType
  <2> QED
    BY <2>1, <2>2, <2>3
<1> HIDE DEF body
<1>5. body \in Seq({0, 1}) /\ Len(body) = 17
  <2>1. 17 \in Nat
    OBVIOUS
  <2> QED
    BY <1>4, <2>1, FunctionIsSeq, Zenon
<1>6. Parity(body) \in {0, 1}
  <2> DEFINE ones == {i \in 1 .. 17 : body[i] = 1}
  <2>1. ones \subseteq 1 .. 17 /\ IsFiniteSet(1 .. 17)
    <3>1. 1 \in Int /\ 17 \in Int
      OBVIOUS
    <3> QED
      BY <3>1, FS_Interval, Zenon
  <2> HIDE DEF ones
  <2>2. Cardinality(ones) \in Nat
    BY <2>1, FS_Subset, FS_CardinalityType
  <2> QED
    BY <2>2 DEF Parity, ones
<1>7. /\ \A i \in 1 .. 17 : h[i] = body[i]
      /\ h[18] = Parity(body) /\ h \in [1 .. 18 -> {0, 1}]
  <2> DEFINE p == Parity(body)
             B == {0, 1}
  <2>1. p \in B /\ body \in Seq(B) /\ h = Append(body, p)
    BY <1>1, <1>5, <1>6
  <2> HIDE DEF p, B
  <2>2. /\ \A i \in 1 .. Len(body) : h[i] = body[i]
        /\ h[Len(body) + 1] = p
        /\ h \in Seq(B) /\ Len(h) = Len(body) + 1
    BY <2>1, AppendProperties
  <2>3. h \in [1 .. Len(h) -> B] /\ Len(h) = 17 + 1
    BY <1>5, <2>2, LenProperties, Zenon
  <2>4. 17 + 1 = 18
    OBVIOUS
  <2> QED
    BY <1>5, <2>2, <2>3, <2>4 DEF p, B
<1>8. Parity(h) = Parity(body)
  <2>1. {i \in 1 .. 17 : h[i] = 1} = {i \in 1 .. 17 : body[i] = 1}
    BY <1>7
  <2> QED
    BY <2>1, Zenon DEF Parity
<1> QED
  BY <1>1, <1>2, <1>3, <1>7, <1>8, Zenon

LEMMA HeaderType ==
    ASSUME NEW e \in 0 .. 7, NEW bytes \in Nat
    PROVE  SignalHeader(e, bytes) \in Bits
BY HeaderBits DEF Bits

(* parse_signal, of any header: what it reads if the length's bits give it   *)
(* the length.                                                               *)
LEMMA RoundTrip ==
    ASSUME NEW e \in 0 .. 7, NEW bytes \in Nat,
           Number([j \in 1 .. 12 |-> Bit(bytes, j - 1)]) = bytes
    PROVE  ParseSignal(SignalHeader(e, bytes))
               = [ok |-> TRUE, encoding |-> e, bytes |-> bytes]
<1>1. PICK h : h = SignalHeader(e, bytes)
  OBVIOUS
<1>2. /\ h \in [1 .. 18 -> {0, 1}]
      /\ \A j \in 1 .. 4 : h[j] = Bit(RateField[e + 1], 4 - j)
      /\ \A j \in 1 .. 12 : h[5 + j] = Bit(bytes, j - 1)
      /\ Parity(h) = h[18]
  BY <1>1, HeaderBits
<1>3. SubSeq(h, 1, 4) = [j \in 1 .. 4 |-> Bit(RateField[e + 1], 4 - j)]
  <2>1. SubSeq(h, 1, 4) = [j \in 1 .. (1 + 4) - 1 |-> h[(1 + j) - 1]]
    BY DEF SubSeq
  <2>2. SubSeq(h, 1, 4) = [j \in 1 .. 4 |-> h[j]]
    BY <2>1
  <2> QED
    BY <1>2, <2>2
<1>4. SubSeq(h, 6, 17) = [j \in 1 .. 12 |-> Bit(bytes, j - 1)]
  <2>1. SubSeq(h, 6, 17) = [j \in 1 .. (1 + 17) - 6 |-> h[(6 + j) - 1]]
    BY DEF SubSeq
  <2>2. SubSeq(h, 6, 17) = [j \in 1 .. 12 |-> h[5 + j]]
    BY <2>1
  <2> QED
    BY <1>2, <2>2
<1>5. Number(SubSeq(h, 1, 4)) = RateRead[e + 1]
  BY <1>3, RateBits, Zenon
<1>6. Number(SubSeq(h, 6, 17)) = bytes
  BY <1>4, Zenon
<1> DEFINE known == {x \in 0 .. 7 : RateRead[x + 1] = Number(SubSeq(h, 1, 4))}
<1>7. known = {e}
  <2>1. \A x \in 0 .. 7 : RateRead[x + 1] = RateRead[e + 1] => x = e
    BY DEF RateRead
  <2> QED
    BY <1>5, <2>1
<1>8. ParseSignal(h) = IF Parity(h) # h[18] \/ known = {} THEN [ok |-> FALSE]
                       ELSE [ok |-> TRUE, encoding |-> CHOOSE x \in known : TRUE,
                             bytes |-> Number(SubSeq(h, 6, 17))]
  BY DEF ParseSignal
<1> HIDE DEF known
<1>9. known # {} /\ (CHOOSE x \in known : TRUE) = e
  BY <1>7
<1> QED
  BY <1>1, <1>2, <1>6, <1>8, <1>9, Zenon

(* What the twelve bits of the length can tell.                              *)
TwelveBitLengths == 0 .. 4095

(* A length of twelve bits and any encoding: parse_signal reads from the     *)
(* header exactly what generate_signal_field wrote into it.                  *)
THEOREM SignalRoundTrips ==
    ASSUME NEW e \in 0 .. 7, NEW bytes \in TwelveBitLengths
    PROVE  ParseSignal(SignalHeader(e, bytes))
               = [ok |-> TRUE, encoding |-> e, bytes |-> bytes]
<1>1. bytes \in Nat /\ bytes \div 256 < 16
  BY DEF TwelveBitLengths
<1>2. Number([j \in 1 .. 12 |-> Bit(bytes, j - 1)]) = bytes
  BY <1>1, TwelveBits
<1> QED
  BY <1>1, <1>2, RoundTrip

-----------------------------------------------------------------------------
(* Packets and tags.  The only burst that starts where the first n end is   *)
(* the next one, and its tags are the only ones in it.                      *)
LEMMA EndType ==
    ASSUME MapperTypeOK, BurstsInv, NEW n \in 0 .. Len(bursts)
    PROVE  End(n) \in Nat
<1>1. CASE n = 0
  BY <1>1 DEF End
<1>2. CASE n # 0
  <2>1. bursts[n] \in Burst
    BY <1>2, LenProperties DEF BurstsInv, BurstOf, MapperTypeOK
  <2> QED
    BY <1>2, <2>1 DEF End, Burst
<1> QED
  BY <1>1, <1>2

LEMMA NextBurst ==
    ASSUME MapperTypeOK, BurstsInv, NEW n \in 0 .. Len(bursts),
           NEW k \in Packet(End(n))
    PROVE  /\ k = n + 1 /\ k \in DOMAIN bursts
           /\ bursts[k] \in Burst /\ bursts[k].len > 0
           /\ End(n) + bursts[k].len = End(k) /\ End(k) <= produced
           /\ TagsIn(End(n), bursts[k].len) = {k}
<1>1. /\ k \in DOMAIN bursts /\ bursts[k].at = End(n)
      /\ End(n) + bursts[k].len <= produced
  BY DEF Packet
<1>2. Len(bursts) \in Nat /\ DOMAIN bursts = 1 .. Len(bursts)
  BY LenProperties DEF MapperTypeOK
<1>3. \A j \in DOMAIN bursts : /\ bursts[j] \in Burst /\ bursts[j].len > 0
                               /\ bursts[j].at \in Nat /\ bursts[j].len \in Nat
                               /\ bursts[j].at = End(j - 1)
  BY DEF BurstsInv, BurstOf, Burst
<1>4. \A i, j \in DOMAIN bursts : i < j => bursts[i].at + bursts[i].len <= bursts[j].at
  BY DEF BurstsInv
<1>5. \A i, j \in DOMAIN bursts : i < j => bursts[i].at < bursts[j].at
  <2> SUFFICES ASSUME NEW i \in DOMAIN bursts, NEW j \in DOMAIN bursts, i < j
               PROVE  bursts[i].at < bursts[j].at
    OBVIOUS
  <2> QED
    BY <1>3, <1>4
<1>6. \A i, j \in DOMAIN bursts : bursts[i].at = bursts[j].at => i = j
  <2> SUFFICES ASSUME NEW i \in DOMAIN bursts, NEW j \in DOMAIN bursts,
                      bursts[i].at = bursts[j].at, i # j
               PROVE  FALSE
    OBVIOUS
  <2>1. i < j \/ j < i
    BY <1>2
  <2> QED
    BY <1>3, <1>5, <2>1
<1>7. n + 1 \in DOMAIN bursts
  <2> SUFFICES ASSUME n + 1 \notin 1 .. Len(bursts) PROVE FALSE
    BY <1>2
  <2>0. n = Len(bursts)
    <3>1. PICK m \in Nat : m = Len(bursts)
      BY <1>2
    <3>2. n \in 0 .. m /\ n + 1 \notin 1 .. m
      BY <3>1
    <3> QED
      BY <3>1, <3>2
  <2>1. n # 0 /\ n \in DOMAIN bursts
    BY <1>1, <1>2, <2>0
  <2>2. End(n) = bursts[n].at + bursts[n].len
    BY <2>1 DEF End
  <2>3. k <= n
    BY <1>1, <1>2, <2>0
  <2>4. CASE k = n
    BY <1>1, <1>3, <2>1, <2>2, <2>4
  <2>5. CASE k < n
    <3>1. bursts[k].at + bursts[k].len <= bursts[n].at
      BY <1>1, <1>4, <2>1, <2>5
    <3> QED
      BY <1>1, <1>3, <2>1, <2>2, <3>1
  <2> QED
    BY <1>2, <1>1, <2>3, <2>4, <2>5
<1>8. bursts[n + 1].at = End(n)
  <2>1. n + 1 - 1 = n
    OBVIOUS
  <2> QED
    BY <1>3, <1>7, <2>1
<1>9. k = n + 1
  BY <1>1, <1>6, <1>7, <1>8
<1>10. End(k) = End(n) + bursts[k].len
  <2>1. k # 0
    BY <1>2, <1>1
  <2> QED
    BY <1>1, <2>1 DEF End
<1>11. TagsIn(End(n), bursts[k].len) = {k}
  <2>1. ASSUME NEW j \in TagsIn(End(n), bursts[k].len) PROVE j = k
    <3>1. j \in DOMAIN bursts /\ bursts[j].at \in End(n) .. End(n) + bursts[k].len - 1
      BY <2>1 DEF TagsIn
    <3>2. End(n) \in Nat
      BY EndType
    <3>3. ~ (j < k)
      BY <1>1, <1>3, <1>5, <3>1, <3>2
    <3>4. ~ (k < j)
      <4> SUFFICES ASSUME k < j PROVE FALSE
        OBVIOUS
      <4>1. bursts[k].at + bursts[k].len <= bursts[j].at
        BY <1>1, <1>4, <3>1
      <4> QED
        BY <1>1, <1>3, <3>1, <3>2, <4>1
    <3> QED
      BY <1>1, <1>2, <3>1, <3>3, <3>4
  <2>2. k \in TagsIn(End(n), bursts[k].len)
    <3>1. bursts[k].at \in End(n) .. End(n) + bursts[k].len - 1
      BY <1>1, <1>3, EndType
    <3> QED
      BY <1>1, <3>1 DEF TagsIn
  <2> QED
    BY <2>1, <2>2
<1> QED
  BY <1>1, <1>3, <1>9, <1>10, <1>11

-----------------------------------------------------------------------------
(* What each step does. *)

LEMMA InitInv == Init => TxInv
<1> SUFFICES ASSUME Init PROVE TxInv
  OBVIOUS
<1> USE MapperAssumption DEF Init, MapperInit
<1>1. /\ pdus \in Seq(PsduLens \cup {NOT_A_PAIR}) /\ bursts \in Seq(Burst)
      /\ Len(bursts) = 0 /\ Len(pdus) = 0 /\ DOMAIN bursts = {}
  BY EmptySeq
<1>2. 0 % SEEDS = 0
  <2>1. 0 = SEEDS * 0 + 0 /\ SEEDS \in Nat \ {0}
    BY MapperAssumption
  <2> QED
    BY <2>1, ModUnique
<1>3. MapperInv
  <2>1. MapperTypeOK
    BY <1>1 DEF MapperTypeOK
  <2> QED
    BY <1>1, <1>2, <2>1 DEF MapperInv, End
<1>4. BurstsInv
  BY <1>1 DEF BurstsInv
<1>5. ReadersInv
  BY <1>1, EmptySeq DEF ReadersInv, End
<1>6. SentInv
  BY EmptySeq DEF SentInv
<1> QED
  BY <1>3, <1>4, <1>5, <1>6 DEF TxInv

(* A call of the reader's thread leaves what is behind it alone, and adds   *)
(* the output of the next burst.                                            *)
LEMMA HeaderKeeps == TxInv /\ GenerateHeader => TxInv'
<1> SUFFICES ASSUME TxInv, GenerateHeader PROVE TxInv'
  OBVIOUS
<1>1. MapperTypeOK /\ BurstsInv /\ MapperInv /\ ReadersInv /\ SentInv
  BY DEF TxInv, MapperInv
<1>2. PICK k \in Packet(headerRead) :
         /\ headers' = Append(headers, FormatHeader(headerRead, bursts[k].len))
         /\ headerRead' = headerRead + bursts[k].len
         /\ UNCHANGED <<mapperVars, chunkRead, payloads, sent>>
  BY DEF GenerateHeader
<1> DEFINE n == Len(headers)
<1>3. n \in 0 .. Len(bursts) /\ headerRead = End(n) /\ headers \in Seq(Bits)
  <2>1. Len(headers) \in Nat /\ Len(bursts) \in Nat
    BY <1>1, LenProperties DEF ReadersInv, MapperTypeOK
  <2> QED
    BY <1>1, <2>1 DEF ReadersInv
<1>4. /\ k = n + 1 /\ k \in DOMAIN bursts /\ bursts[k] \in Burst
      /\ headerRead' = End(k) /\ End(k) <= produced
      /\ TagsIn(headerRead, bursts[k].len) = {k}
  BY <1>1, <1>2, <1>3, NextBurst
<1>5. Max({k}) = k
  <2>1. k \in Int
    BY <1>3, <1>4
  <2> QED
    BY <2>1 DEF Max
<1>6. FormatHeader(headerRead, bursts[k].len) = HeaderOf(k)
  BY <1>4, <1>5 DEF FormatHeader, HeaderOf
<1>7. HeaderOf(k) \in Bits
  BY <1>4, HeaderType DEF HeaderOf, Burst
<1>8. /\ headers' \in Seq(Bits) /\ Len(headers') = k /\ DOMAIN headers' = 1 .. k
      /\ \A j \in DOMAIN headers : headers'[j] = headers[j]
      /\ headers'[k] = HeaderOf(k) /\ DOMAIN headers = 1 .. n
  BY <1>2, <1>3, <1>4, <1>6, <1>7, Appended
<1>9. UNCHANGED <<pdus, taken, encoding, nset, scrambler, symbolsLen, symbolsOffset,
                  produced, bursts>>
  BY <1>2 DEF mapperVars
<1>10. MapperInv' /\ BurstsInv'
  <2>1. MapperInv'
    BY <1>1, <1>9 DEF MapperInv, MapperTypeOK, End
  <2>2. BurstsInv'
    BY <1>1, <1>9 DEF BurstsInv, BurstOf, End, Items
  <2> QED
    BY <2>1, <2>2
<1>11. ReadersInv'
  <2>1. \A j \in DOMAIN headers' : headers'[j] = HeaderOf(j)
    <3> SUFFICES ASSUME NEW j \in 1 .. k PROVE headers'[j] = HeaderOf(j)
      BY <1>8
    <3>1. j = k \/ j \in 1 .. n
      BY <1>3, <1>4
    <3> QED
      BY <1>1, <1>8, <3>1 DEF ReadersInv
  <2>2. k <= Len(bursts)
    <3>1. DOMAIN bursts = 1 .. Len(bursts) /\ Len(bursts) \in Nat
      BY <1>1, LenProperties DEF MapperTypeOK
    <3> QED
      BY <1>4, <3>1
  <2>3. \A j : HeaderOf(j)' = HeaderOf(j) /\ PayloadOf(j)' = PayloadOf(j) /\ End(j)' = End(j)
    BY <1>9 DEF HeaderOf, PayloadOf, End
  <2> QED
    BY <1>1, <1>2, <1>4, <1>8, <1>9, <2>1, <2>2, <2>3 DEF ReadersInv
<1>12. SentInv'
  <2>1. Len(sent) \in Nat /\ DOMAIN sent = 1 .. Len(sent)
    BY <1>1, LenProperties DEF SentInv
  <2>2. \A j \in DOMAIN sent : j \in DOMAIN headers
    BY <1>1, <1>3, <1>8, <2>1 DEF SentInv
  <2> QED
    BY <1>1, <1>2, <1>3, <1>4, <1>8, <2>1, <2>2 DEF SentInv
<1> QED
  BY <1>10, <1>11, <1>12 DEF TxInv

LEMMA ChunksKeep == TxInv /\ MapChunks => TxInv'
<1> SUFFICES ASSUME TxInv, MapChunks PROVE TxInv'
  OBVIOUS
<1>1. MapperTypeOK /\ BurstsInv /\ MapperInv /\ ReadersInv /\ SentInv
  BY DEF TxInv, MapperInv
<1>2. PICK k \in Packet(chunkRead) :
         /\ payloads' = Append(payloads, PayloadOf(k))
         /\ chunkRead' = chunkRead + bursts[k].len
         /\ UNCHANGED <<mapperVars, headerRead, headers, sent>>
  BY DEF MapChunks, PayloadOf
<1> DEFINE n == Len(payloads)
           P == [pdu : Nat, coding : 0 .. 7, items : Nat, bpsc : Nat]
<1>3. n \in 0 .. Len(bursts) /\ chunkRead = End(n) /\ payloads \in Seq(P)
  <2>1. Len(payloads) \in Nat /\ Len(bursts) \in Nat
    BY <1>1, LenProperties DEF ReadersInv, MapperTypeOK
  <2> QED
    BY <1>1, <2>1 DEF ReadersInv
<1>4. /\ k = n + 1 /\ k \in DOMAIN bursts /\ bursts[k] \in Burst
      /\ chunkRead' = End(k) /\ End(k) <= produced
  BY <1>1, <1>2, <1>3, NextBurst
<1>5. PayloadOf(k) \in P
  <2>1. bursts[k].encoding \in 0 .. 7
    BY <1>4 DEF Burst
  <2>2. LegacyCoding[bursts[k].encoding + 1].bpsc \in Nat
    BY <2>1, CodingType
  <2> QED
    BY <1>4, <2>2 DEF PayloadOf, Burst
<1> HIDE DEF P
<1>6. /\ payloads' \in Seq(P) /\ Len(payloads') = k /\ DOMAIN payloads' = 1 .. k
      /\ \A j \in DOMAIN payloads : payloads'[j] = payloads[j]
      /\ payloads'[k] = PayloadOf(k) /\ DOMAIN payloads = 1 .. n
  BY <1>2, <1>3, <1>4, <1>5, Appended
<1>7. UNCHANGED <<pdus, taken, encoding, nset, scrambler, symbolsLen, symbolsOffset,
                  produced, bursts>>
  BY <1>2 DEF mapperVars
<1>8. MapperInv' /\ BurstsInv'
  <2>1. MapperInv'
    BY <1>1, <1>7 DEF MapperInv, MapperTypeOK, End
  <2>2. BurstsInv'
    BY <1>1, <1>7 DEF BurstsInv, BurstOf, End, Items
  <2> QED
    BY <2>1, <2>2
<1>9. ReadersInv'
  <2>1. \A j \in DOMAIN payloads' : payloads'[j] = PayloadOf(j)
    <3> SUFFICES ASSUME NEW j \in 1 .. k PROVE payloads'[j] = PayloadOf(j)
      BY <1>6
    <3>1. j = k \/ j \in 1 .. n
      BY <1>3, <1>4
    <3> QED
      BY <1>1, <1>6, <3>1 DEF ReadersInv
  <2>2. k <= Len(bursts)
    <3>1. DOMAIN bursts = 1 .. Len(bursts) /\ Len(bursts) \in Nat
      BY <1>1, LenProperties DEF MapperTypeOK
    <3> QED
      BY <1>4, <3>1
  <2>3. \A j : HeaderOf(j)' = HeaderOf(j) /\ PayloadOf(j)' = PayloadOf(j) /\ End(j)' = End(j)
    BY <1>7 DEF HeaderOf, PayloadOf, End
  <2> QED
    BY <1>1, <1>2, <1>4, <1>6, <1>7, <2>1, <2>2, <2>3 DEF ReadersInv, P
<1>10. SentInv'
  <2>1. Len(sent) \in Nat /\ DOMAIN sent = 1 .. Len(sent)
    BY <1>1, LenProperties DEF SentInv
  <2>2. \A j \in DOMAIN sent : j \in DOMAIN payloads
    BY <1>1, <1>3, <1>6, <2>1 DEF SentInv
  <2> QED
    BY <1>1, <1>2, <1>3, <1>4, <1>6, <2>1, <2>2 DEF SentInv
<1> QED
  BY <1>8, <1>9, <1>10 DEF TxInv

LEMMA MultiplexKeeps == TxInv /\ Multiplex => TxInv'
<1> SUFFICES ASSUME TxInv, Multiplex PROVE TxInv'
  OBVIOUS
<1>1. MapperInv /\ BurstsInv /\ ReadersInv /\ SentInv
  BY DEF TxInv
<1>2. UNCHANGED <<pdus, taken, encoding, nset, scrambler, symbolsLen, symbolsOffset,
                  produced, bursts, headerRead, headers, chunkRead, payloads>>
  BY DEF Multiplex, mapperVars
<1> DEFINE n == Len(sent)
           P == [pdu : Nat, coding : 0 .. 7, items : Nat, bpsc : Nat]
           H == Bits
           S == [header : H, payload : P]
           frame == [header |-> headers[n + 1], payload |-> payloads[n + 1]]
<1>3. /\ n \in Nat /\ n < Len(headers) /\ n < Len(payloads)
      /\ sent \in Seq(S) /\ headers \in Seq(H) /\ payloads \in Seq(P)
      /\ sent' = Append(sent, frame)
  <2>1. n \in Nat
    BY <1>1, LenProperties DEF SentInv
  <2> QED
    BY <1>1, <2>1 DEF Multiplex, SentInv, ReadersInv
<1> HIDE DEF P, H
<1>4. frame \in S
  <2>1. Len(headers) \in Nat /\ Len(payloads) \in Nat
    BY <1>3, LenProperties
  <2>2. n + 1 \in 1 .. Len(headers) /\ n + 1 \in 1 .. Len(payloads)
    BY <1>3, <2>1
  <2>3. headers[n + 1] \in H /\ payloads[n + 1] \in P
    BY <1>3, <2>2, ElementOfSeq
  <2> QED
    BY <2>3
<1> HIDE DEF S, frame
<1>5. /\ sent' \in Seq(S) /\ Len(sent') = n + 1 /\ DOMAIN sent' = 1 .. n + 1
      /\ \A j \in 1 .. n : sent'[j] = sent[j]
      /\ sent'[n + 1] = frame /\ DOMAIN sent = 1 .. n
  BY <1>3, <1>4, Appended
<1>6. SentInv'
  <2>1. \A j \in DOMAIN sent' : sent'[j] = [header |-> headers[j], payload |-> payloads[j]]
    <3> SUFFICES ASSUME NEW j \in 1 .. n + 1
                 PROVE  sent'[j] = [header |-> headers[j], payload |-> payloads[j]]
      BY <1>5
    <3>1. j = n + 1 \/ j \in 1 .. n
      BY <1>3
    <3> QED
      BY <1>1, <1>5, <3>1 DEF SentInv, frame
  <2>2. n + 1 <= Len(headers) /\ n + 1 <= Len(payloads)
    <3>1. Len(headers) \in Nat /\ Len(payloads) \in Nat
      BY <1>3, LenProperties
    <3> QED
      BY <1>3, <3>1
  <2> QED
    BY <1>2, <1>5, <2>1, <2>2 DEF SentInv, S, P, H
<1>7. MapperInv'
  BY <1>1, <1>2 DEF MapperInv, MapperTypeOK, End
<1>8. BurstsInv'
  BY <1>1, <1>2 DEF BurstsInv, BurstOf, End, Items
<1>9. ReadersInv'
  BY <1>1, <1>2 DEF ReadersInv, HeaderOf, PayloadOf, End
<1> QED
  BY <1>6, <1>7, <1>8, <1>9 DEF TxInv

(* Steps that make no burst. *)
LEMMA OutsideKeeps == TxInv /\ Outside => TxInv'
<1> SUFFICES ASSUME TxInv, Outside PROVE TxInv'
  OBVIOUS
<1>1. MapperInv /\ MapperTypeOK /\ BurstsInv /\ ReadersInv /\ SentInv
  BY DEF TxInv, MapperInv
<1>2. UNCHANGED <<taken, scrambler, symbolsLen, symbolsOffset, produced, bursts,
                  headerRead, headers, chunkRead, payloads, sent>>
  BY DEF Outside, Post, SetEncoding
<1>3. /\ pdus' \in Seq(PsduLens \cup {NOT_A_PAIR})
      /\ taken \in 0 .. Len(pdus')
      /\ \A k \in 1 .. Len(pdus) : pdus'[k] = pdus[k]
  <2> DEFINE M == PsduLens \cup {NOT_A_PAIR}
  <2>1. pdus \in Seq(M) /\ taken \in 0 .. Len(pdus) /\ Len(pdus) \in Nat
    BY <1>1, LenProperties DEF MapperTypeOK
  <2>2. CASE Post
    <3>1. PICK m \in M : pdus' = Append(pdus, m)
      BY <2>2 DEF Post
    <3> HIDE DEF M
    <3>2. /\ pdus' \in Seq(M) /\ Len(pdus') = Len(pdus) + 1
          /\ \A k \in 1 .. Len(pdus) : pdus'[k] = pdus[k]
      BY <2>1, <3>1, Appended
    <3>3. taken \in 0 .. Len(pdus')
      BY <2>1, <3>2
    <3> QED
      BY <3>2, <3>3 DEF M
  <2>3. CASE SetEncoding
    BY <2>1, <2>3 DEF SetEncoding
  <2> QED
    BY <2>2, <2>3 DEF Outside
<1>4. encoding' \in Encodings /\ encoding' \in 0 .. 7 /\ nset' \in 0 .. MAX_SET
  <2>1. CASE Post
    BY <1>1, <2>1 DEF Post, MapperInv, MapperTypeOK
  <2>2. CASE SetEncoding
    BY <1>1, <2>2, MapperAssumption DEF SetEncoding, MapperTypeOK
  <2> QED
    BY <2>1, <2>2 DEF Outside
<1>5. MapperInv'
  BY <1>1, <1>2, <1>3, <1>4 DEF MapperInv, MapperTypeOK, End
<1>6. BurstsInv'
  <2>1. ASSUME NEW k \in DOMAIN bursts PROVE BurstOf(k)'
    <3>1. BurstOf(k)
      BY <1>1 DEF BurstsInv
    <3>2. bursts[k].pdu \in 1 .. Len(pdus)
      <4>1. Len(pdus) \in Nat /\ taken \in 0 .. Len(pdus)
        BY <1>1, LenProperties DEF MapperTypeOK
      <4> QED
        BY <3>1, <4>1 DEF BurstOf
    <3> QED
      BY <1>2, <1>3, <3>1, <3>2 DEF BurstOf, End, Items
  <2> QED
    BY <1>1, <1>2, <2>1 DEF BurstsInv
<1>7. ReadersInv'
  BY <1>1, <1>2 DEF ReadersInv, HeaderOf, PayloadOf, End
<1>8. SentInv'
  BY <1>1, <1>2 DEF SentInv
<1> QED
  BY <1>5, <1>6, <1>7, <1>8 DEF TxInv

LEMMA NoPduKeeps ==
    ASSUME TxInv, NoPdu, UNCHANGED <<headerRead, headers, chunkRead, payloads, sent>>
    PROVE  TxInv'
<1>1. MapperInv /\ MapperTypeOK /\ BurstsInv /\ ReadersInv /\ SentInv
  BY DEF TxInv, MapperInv
<1>2. UNCHANGED <<pdus, encoding, nset, scrambler, symbolsLen, symbolsOffset, produced,
                  bursts, headerRead, headers, chunkRead, payloads, sent>>
      /\ taken' = Len(pdus)
  BY DEF NoPdu
<1>3. Len(pdus) \in Nat /\ taken \in 0 .. Len(pdus)
  BY <1>1, LenProperties DEF MapperTypeOK
<1>4. MapperInv'
  BY <1>1, <1>2, <1>3 DEF MapperInv, MapperTypeOK, End
<1>5. BurstsInv'
  <2>1. ASSUME NEW k \in DOMAIN bursts PROVE BurstOf(k)'
    <3>1. BurstOf(k)
      BY <1>1 DEF BurstsInv
    <3>2. bursts[k].pdu \in 1 .. Len(pdus)
      BY <1>3, <3>1 DEF BurstOf
    <3> QED
      BY <1>2, <3>1, <3>2 DEF BurstOf, End, Items
  <2> QED
    BY <1>1, <1>2, <2>1 DEF BurstsInv
<1>6. ReadersInv'
  BY <1>1, <1>2 DEF ReadersInv, HeaderOf, PayloadOf, End
<1>7. SentInv'
  BY <1>1, <1>2 DEF SentInv
<1> QED
  BY <1>4, <1>5, <1>6, <1>7 DEF TxInv

LEMMA ReadType == ASSUME TxInv PROVE headerRead \in Nat /\ chunkRead \in Nat
<1>1. MapperTypeOK /\ BurstsInv /\ ReadersInv
  BY DEF TxInv, MapperInv
<1>2. Len(headers) \in 0 .. Len(bursts) /\ Len(payloads) \in 0 .. Len(bursts)
  <2>1. Len(headers) \in Nat /\ Len(payloads) \in Nat /\ Len(bursts) \in Nat
    BY <1>1, LenProperties DEF ReadersInv, MapperTypeOK
  <2> QED
    BY <1>1, <2>1 DEF ReadersInv
<1>3. End(Len(headers)) \in Nat /\ End(Len(payloads)) \in Nat
  BY <1>1, <1>2, EndType
<1> QED
  BY <1>1, <1>3 DEF ReadersInv

LEMMA RoomType == ASSUME TxInv, NEW noutput \in 1 .. Room PROVE noutput \in Nat \ {0}
<1>1. headerRead \in Nat /\ chunkRead \in Nat /\ produced \in Nat
  BY ReadType DEF TxInv, MapperInv, MapperTypeOK
<1>2. Min({headerRead, chunkRead}) \in Nat
  <2>1. {headerRead, chunkRead} \subseteq Nat /\ {headerRead, chunkRead} # {}
    BY <1>1
  <2>2. Min({headerRead, chunkRead}) \in {headerRead, chunkRead}
    BY <2>1, LeastOf
  <2> QED
    BY <1>1, <2>2
<1>3. Room \in Int
  BY <1>1, <1>2, BufferAssumption DEF Room
<1> QED
  BY <1>3

(* What a call copies: the write position keeps inside the burst. *)
LEMMA Copied ==
    ASSUME NEW len \in Nat, NEW from \in Nat, from < len, NEW noutput \in Nat \ {0},
           produced \in Nat, Copy(len, from, noutput)
    PROVE  /\ produced' \in Nat /\ produced' > produced /\ symbolsOffset' \in Nat
           /\ \/ symbolsOffset' = 0 /\ produced' = produced + (len - from)
              \/ /\ symbolsOffset' > 0 /\ symbolsOffset' < len
                 /\ produced' = produced + (symbolsOffset' - from)
  BY DEF Copy

LEMMA SendMoreKeeps ==
    ASSUME TxInv, NEW noutput \in Nat \ {0}, SendMore(noutput),
           UNCHANGED <<headerRead, headers, chunkRead, payloads, sent>>
    PROVE  TxInv'
<1>1. MapperInv /\ MapperTypeOK /\ BurstsInv /\ ReadersInv /\ SentInv
  BY DEF TxInv, MapperInv
<1>2. UNCHANGED <<pdus, taken, encoding, nset, scrambler, symbolsLen, bursts,
                  headerRead, headers, chunkRead, payloads, sent>>
  BY DEF SendMore
<1> DEFINE n == Len(bursts)
<1>3. /\ n \in Nat /\ n > 0 /\ n \in DOMAIN bursts
      /\ symbolsOffset \in Nat /\ symbolsLen \in Nat /\ produced \in Nat
      /\ symbolsLen = bursts[n].len /\ symbolsOffset < symbolsLen
      /\ bursts[n].at \in Nat
      /\ produced = bursts[n].at + symbolsOffset
  <2>1. n \in Nat /\ DOMAIN bursts = 1 .. n
    BY <1>1, LenProperties DEF MapperTypeOK
  <2>2. n > 0
    BY <1>1 DEF SendMore, MapperInv
  <2>3. n \in DOMAIN bursts
    BY <2>1, <2>2
  <2>4. bursts[n] \in Burst
    BY <1>1, <2>3 DEF BurstsInv, BurstOf
  <2> QED
    BY <1>1, <2>1, <2>2, <2>3, <2>4 DEF SendMore, MapperInv, MapperTypeOK, Burst
<1>4. /\ produced' \in Nat /\ produced' > produced /\ symbolsOffset' \in Nat
      /\ \/ symbolsOffset' = 0 /\ produced' = produced + (symbolsLen - symbolsOffset)
         \/ /\ symbolsOffset' > 0 /\ symbolsOffset' < symbolsLen
            /\ produced' = produced + (symbolsOffset' - symbolsOffset)
  BY <1>3, Copied DEF SendMore
<1>5. MapperInv'
  <2>1. MapperTypeOK'
    BY <1>1, <1>2, <1>4 DEF MapperTypeOK
  <2>2. End(n) = bursts[n].at + bursts[n].len
    BY <1>3 DEF End
  <2>3. symbolsOffset' = 0 => produced' = End(n)
    BY <1>3, <1>4, <2>2, SMTT(60)
  <2>4. symbolsOffset' > 0 => /\ symbolsOffset' < symbolsLen
                              /\ produced' = bursts[n].at + symbolsOffset'
    BY <1>3, <1>4
  <2>5. End(n)' = End(n)
    BY <1>2 DEF End
  <2> QED
    BY <1>1, <1>2, <1>3, <2>1, <2>3, <2>4, <2>5 DEF MapperInv
<1>6. BurstsInv'
  BY <1>1, <1>2 DEF BurstsInv, BurstOf, End, Items
<1>7. ReadersInv'
  <2>1. headerRead <= produced' /\ chunkRead <= produced'
    <3>1. headerRead \in Nat /\ chunkRead \in Nat
      BY ReadType
    <3>2. headerRead <= produced /\ chunkRead <= produced
      BY <1>1 DEF ReadersInv
    <3> QED
      BY <1>3, <1>4, <3>1, <3>2
  <2> QED
    BY <1>1, <1>2, <2>1 DEF ReadersInv, HeaderOf, PayloadOf, End
<1>8. SentInv'
  BY <1>1, <1>2 DEF SentInv
<1> QED
  BY <1>5, <1>6, <1>7, <1>8 DEF TxInv

(* The burst of the PDU that is taken comes behind all others. *)
LEMMA TakePduKeeps ==
    ASSUME TxInv, NEW noutput \in Nat \ {0}, TakePdu(noutput),
           UNCHANGED <<headerRead, headers, chunkRead, payloads, sent>>
    PROVE  TxInv'
<1>1. MapperInv /\ MapperTypeOK /\ BurstsInv /\ ReadersInv /\ SentInv
  BY DEF TxInv, MapperInv
<1> DEFINE k    == Min(NextPdus)
           nsym == NSym(pdus[k], LegacyOfdm(encoding).dbps)
           len  == nsym * CARRIERS
           b    == [at |-> produced, pdu |-> k, bytes |-> pdus[k], encoding |-> encoding,
                    len |-> len, coding |-> encoding, seed |-> scrambler]
<1>2. /\ k \in taken + 1 .. Len(pdus) /\ pdus[k] \in PsduLens /\ pdus[k] \in Nat
      /\ taken \in Nat /\ Len(pdus) \in Nat /\ taken <= Len(pdus)
  <2>1. Len(pdus) \in Nat /\ taken \in 0 .. Len(pdus)
    BY <1>1, LenProperties DEF MapperTypeOK
  <2>2. NextPdus \subseteq Nat /\ NextPdus # {}
    BY <2>1 DEF NextPdus, TakePdu
  <2>3. k \in NextPdus
    BY <2>2, LeastOf
  <2>4. k \in taken + 1 .. Len(pdus) /\ pdus[k] # NOT_A_PAIR
    BY <2>3 DEF NextPdus
  <2>5. pdus[k] \in PsduLens \cup {NOT_A_PAIR}
    <3>1. k \in 1 .. Len(pdus)
      BY <2>1, <2>4
    <3> QED
      BY <1>1, <3>1, ElementOfSeq DEF MapperTypeOK
  <2>6. pdus[k] \in PsduLens /\ pdus[k] \in Nat
    BY <2>4, <2>5, MapperAssumption
  <2> HIDE DEF k
  <2>7. taken \in Nat /\ taken <= Len(pdus)
    BY <2>1
  <2> QED
    BY <2>1, <2>4, <2>6, <2>7
<1> HIDE DEF k
<1>3. UNCHANGED <<pdus, encoding, nset, headerRead, headers, chunkRead, payloads, sent>>
      /\ taken' = k /\ symbolsOffset = 0
  BY DEF TakePdu, k
<1>4. PICK n \in Nat : n = Len(bursts) /\ DOMAIN bursts = 1 .. n
  BY <1>1, LenProperties DEF MapperTypeOK
<1>5. scrambler \in 1 .. SEEDS /\ scrambler \in Nat
      /\ scrambler = (n % SEEDS) + 1 /\ NextScrambler = ((n + 1) % SEEDS) + 1
  <2>1. scrambler \in 1 .. SEEDS /\ scrambler = (n % SEEDS) + 1
    BY <1>1, <1>4 DEF MapperInv, MapperTypeOK
  <2>2. (n + 1) % SEEDS = IF (n % SEEDS) + 1 = SEEDS THEN 0 ELSE (n % SEEDS) + 1
    <3>1. n \in Int /\ SEEDS \in Nat \ {0}
      BY <1>4, MapperAssumption
    <3> QED
      BY <3>1, ModNext
  <2>3. PICK m : m = n % SEEDS
    OBVIOUS
  <2>4. m \in 0 .. SEEDS - 1
    BY <1>4, <2>3, MapperAssumption
  <2> QED
    BY <2>1, <2>2, <2>3, <2>4, MapperAssumption DEF NextScrambler
<1>6. encoding \in Encodings /\ encoding \in 0 .. 7 /\ produced \in Nat
      /\ produced = End(n) /\ symbolsLen \in Nat
  BY <1>1, <1>3, <1>4 DEF MapperInv, MapperTypeOK
<1>7. len = Items(pdus[k], encoding) /\ len \in Nat \ {0}
  BY <1>2, <1>6, ItemsPositive DEF Items
<1>8. b \in Burst
  BY <1>2, <1>5, <1>6, <1>7 DEF Burst
<1>9. CASE nsym > MAX_SYM
  <2>1. UNCHANGED <<scrambler, symbolsLen, symbolsOffset, produced, bursts>>
    BY <1>9 DEF TakePdu, k
  <2>2. MapperInv'
    BY <1>1, <1>2, <1>3, <2>1 DEF MapperInv, MapperTypeOK, End
  <2>3. BurstsInv'
    <3>1. ASSUME NEW j \in DOMAIN bursts PROVE BurstOf(j)'
      <4>1. BurstOf(j)
        BY <1>1 DEF BurstsInv
      <4>2. bursts[j].pdu \in 1 .. k
        BY <1>2, <4>1 DEF BurstOf
      <4> QED
        BY <1>3, <2>1, <4>1, <4>2 DEF BurstOf, End, Items
    <3> QED
      BY <1>1, <2>1, <3>1 DEF BurstsInv
  <2>4. ReadersInv'
    BY <1>1, <1>3, <2>1 DEF ReadersInv, HeaderOf, PayloadOf, End
  <2>5. SentInv'
    BY <1>1, <1>3 DEF SentInv
  <2> QED
    BY <2>2, <2>3, <2>4, <2>5 DEF TxInv
<1>10. CASE ~ (nsym > MAX_SYM)
  <2> HIDE DEF b, len, nsym
  <2>1. /\ scrambler' = NextScrambler /\ symbolsLen' = len
        /\ bursts' = Append(bursts, b) /\ Copy(len, 0, noutput)
    BY <1>10 DEF TakePdu, k, b, len, nsym
  <2>2. /\ bursts' \in Seq(Burst) /\ Len(bursts') = n + 1 /\ DOMAIN bursts' = 1 .. n + 1
        /\ \A j \in 1 .. n : bursts'[j] = bursts[j]
        /\ bursts'[n + 1] = b
    BY <1>1, <1>4, <1>8, <2>1, Appended DEF MapperTypeOK
  <2>3. /\ produced' \in Nat /\ produced' > produced /\ symbolsOffset' \in Nat
        /\ \/ symbolsOffset' = 0 /\ produced' = produced + len
           \/ /\ symbolsOffset' > 0 /\ symbolsOffset' < len
              /\ produced' = produced + symbolsOffset'
    BY <1>6, <1>7, <2>1, Copied
  <2>4. \A j \in 0 .. n : End(j)' = End(j)
    BY <1>4, <2>2 DEF End
  <2>5. /\ b.at = produced /\ b.len = len /\ b.pdu = k /\ b.bytes = pdus[k]
        /\ b.encoding = encoding /\ b.coding = encoding /\ b.seed = scrambler
    BY DEF b
  <2>6. End(n + 1)' = produced + len
    <3>1. n + 1 # 0
      BY <1>4
    <3> QED
      BY <2>2, <2>5, <3>1 DEF End
  <2>7. MapperInv'
    <3>1. MapperTypeOK'
      <4>1. scrambler' \in 1 .. SEEDS
        BY <1>5, <2>1, MapperAssumption DEF NextScrambler
      <4>2. taken' \in 0 .. Len(pdus)
        BY <1>2, <1>3
      <4> QED
        BY <1>1, <1>3, <1>7, <2>1, <2>2, <2>3, <4>1, <4>2 DEF MapperTypeOK
    <3>2. scrambler' = (Len(bursts') % SEEDS) + 1
      BY <1>5, <2>1, <2>2
    <3>3. symbolsOffset' = 0 => produced' = End(Len(bursts))'
      BY <2>2, <2>3, <2>6
    <3>4. symbolsOffset' > 0 => /\ Len(bursts') > 0
                                /\ symbolsLen' = bursts'[Len(bursts')].len
                                /\ symbolsOffset' < symbolsLen'
                                /\ produced' = bursts'[Len(bursts')].at + symbolsOffset'
      BY <1>4, <2>1, <2>2, <2>3, <2>5
    <3> QED
      BY <1>3, <1>6, <3>1, <3>2, <3>3, <3>4 DEF MapperInv
  <2>8. BurstsInv'
    <3>1. ASSUME NEW j \in 1 .. n PROVE BurstOf(j)'
      <4>1. BurstOf(j)
        BY <1>1, <1>4 DEF BurstsInv
      <4>2. bursts[j].pdu \in 1 .. k
        BY <1>2, <4>1 DEF BurstOf
      <4>3. bursts'[j] = bursts[j] /\ End(j - 1)' = End(j - 1)
        BY <1>4, <2>2, <2>4
      <4> QED
        BY <1>3, <4>1, <4>2, <4>3 DEF BurstOf, Items
    <3>2. BurstOf(n + 1)'
      <4>1. End(n + 1 - 1)' = produced
        <5>1. n + 1 - 1 = n
          BY <1>4
        <5> QED
          BY <1>4, <1>6, <2>4, <5>1
      <4>2. b.pdu \in 1 .. k
        BY <1>2, <2>5
      <4>3. b.len = Items(b.bytes, b.encoding) /\ b.len > 0
        BY <1>7, <2>5
      <4>4. b.seed = ((n + 1 - 1) % SEEDS) + 1
        <5>1. n + 1 - 1 = n
          BY <1>4
        <5> QED
          BY <1>5, <2>5, <5>1
      <4> QED
        BY <1>2, <1>3, <1>6, <1>8, <2>2, <2>5, <4>1, <4>2, <4>3, <4>4 DEF BurstOf, Items
    <3>3. ASSUME NEW i \in 1 .. n + 1, NEW j \in 1 .. n + 1, i < j
          PROVE  /\ bursts'[i].at + bursts'[i].len <= bursts'[j].at
                 /\ bursts'[i].pdu < bursts'[j].pdu
      <4>1. CASE j \in 1 .. n
        <5>1. i \in 1 .. n
          BY <1>4, <3>3, <4>1
        <5> QED
          BY <1>1, <1>4, <2>2, <3>3, <4>1, <5>1 DEF BurstsInv
      <4>2. CASE j = n + 1
        <5>1. i \in 1 .. n
          BY <1>4, <3>3, <4>2
        <5>2. BurstOf(i) /\ bursts[i] \in Burst
          BY <1>1, <1>4, <5>1 DEF BurstsInv, BurstOf
        <5>3. bursts[i].pdu < k
          BY <1>2, <5>2 DEF BurstOf
        <5>4. bursts[i].at + bursts[i].len <= produced
          <6>1. CASE i = n
            <7>1. n # 0
              BY <5>1, <1>4
            <7> QED
              BY <1>6, <6>1, <7>1, <5>2 DEF End, Burst
          <6>2. CASE i < n
            <7>1. n \in 1 .. n
              BY <1>4, <5>1
            <7>2. bursts[i].at + bursts[i].len <= bursts[n].at
              BY <1>1, <1>4, <5>1, <6>2, <7>1 DEF BurstsInv
            <7>3. bursts[n] \in Burst
              BY <1>1, <1>4, <7>1 DEF BurstsInv, BurstOf
            <7>4. produced = bursts[n].at + bursts[n].len
              BY <1>6, <7>1 DEF End
            <7> QED
              BY <5>2, <7>2, <7>3, <7>4 DEF Burst
          <6> QED
            BY <1>4, <5>1, <6>1, <6>2
        <5> QED
          BY <2>2, <2>5, <4>2, <5>1, <5>3, <5>4
      <4> QED
        BY <1>4, <4>1, <4>2
    <3>4. \A j \in 1 .. n + 1 : BurstOf(j)'
      BY <1>4, <3>1, <3>2
    <3> QED
      BY <2>2, <3>3, <3>4 DEF BurstsInv
  <2>9. /\ Len(headers) \in 0 .. n /\ DOMAIN headers = 1 .. Len(headers)
        /\ Len(payloads) \in 0 .. n /\ DOMAIN payloads = 1 .. Len(payloads)
    <3>1. Len(headers) \in Nat /\ DOMAIN headers = 1 .. Len(headers)
          /\ Len(payloads) \in Nat /\ DOMAIN payloads = 1 .. Len(payloads)
      BY <1>1, LenProperties DEF ReadersInv
    <3> QED
      BY <1>1, <1>4, <3>1 DEF ReadersInv
  <2>10. ReadersInv'
    <3>1. \A j \in 1 .. n : HeaderOf(j)' = HeaderOf(j) /\ PayloadOf(j)' = PayloadOf(j)
      BY <2>2 DEF HeaderOf, PayloadOf
    <3>2. End(Len(headers))' = End(Len(headers)) /\ End(Len(payloads))' = End(Len(payloads))
      BY <1>3, <2>4, <2>9
    <3>3. headerRead <= produced' /\ chunkRead <= produced'
      <4>1. headerRead \in Nat /\ chunkRead \in Nat
        BY ReadType
      <4> QED
        BY <1>1, <1>6, <2>3, <4>1 DEF ReadersInv
    <3>4. Len(headers) <= Len(bursts') /\ Len(payloads) <= Len(bursts')
      BY <1>4, <2>2, <2>9
    <3>5. \A j \in DOMAIN headers : headers[j] = HeaderOf(j)'
      <4>1. \A j \in DOMAIN headers : j \in 1 .. n
        BY <1>4, <2>9
      <4> QED
        BY <1>1, <3>1, <4>1 DEF ReadersInv
    <3>6. \A j \in DOMAIN payloads : payloads[j] = PayloadOf(j)'
      <4>1. \A j \in DOMAIN payloads : j \in 1 .. n
        BY <1>4, <2>9
      <4> QED
        BY <1>1, <3>1, <4>1 DEF ReadersInv
    <3> QED
      BY <1>1, <1>3, <3>2, <3>3, <3>4, <3>5, <3>6 DEF ReadersInv
  <2>11. SentInv'
    BY <1>1, <1>3 DEF SentInv
  <2> QED
    BY <2>7, <2>8, <2>10, <2>11 DEF TxInv
<1> QED
  BY <1>9, <1>10

LEMMA NextKeeps == TxInv /\ [Next]_vars => TxInv'
<1> SUFFICES ASSUME TxInv, [Next]_vars PROVE TxInv'
  OBVIOUS
<1>1. CASE Outside
  BY <1>1, OutsideKeeps
<1>2. CASE Map
  <2>1. UNCHANGED <<headerRead, headers, chunkRead, payloads, sent>>
    BY <1>2 DEF Map
  <2>2. CASE NoPdu
    BY <2>1, <2>2, NoPduKeeps
  <2>3. ASSUME NEW noutput \in 1 .. Room, TakePdu(noutput) PROVE TxInv'
    <3>1. noutput \in Nat \ {0}
      BY RoomType
    <3> QED
      BY <2>1, <2>3, <3>1, TakePduKeeps
  <2>4. ASSUME NEW noutput \in 1 .. Room, SendMore(noutput) PROVE TxInv'
    <3>1. noutput \in Nat \ {0}
      BY RoomType
    <3> QED
      BY <2>1, <2>4, <3>1, SendMoreKeeps
  <2> QED
    BY <1>2, <2>2, <2>3, <2>4 DEF Map, MapperWork
<1>3. CASE GenerateHeader
  BY <1>3, HeaderKeeps
<1>4. CASE MapChunks
  BY <1>4, ChunksKeep
<1>5. CASE Multiplex
  BY <1>5, MultiplexKeeps
<1>6. CASE UNCHANGED vars
  <2>1. UNCHANGED <<pdus, taken, encoding, nset, scrambler, symbolsLen, symbolsOffset,
                    produced, bursts, headerRead, headers, chunkRead, payloads, sent>>
    BY <1>6 DEF vars, mapperVars
  <2>2. MapperInv' /\ BurstsInv'
    BY <2>1 DEF TxInv, MapperInv, MapperTypeOK, BurstsInv, BurstOf, End, Items
  <2>3. ReadersInv' /\ SentInv'
    BY <2>1 DEF TxInv, ReadersInv, SentInv, HeaderOf, PayloadOf, End
  <2> QED
    BY <2>2, <2>3 DEF TxInv
<1> QED
  BY <1>1, <1>2, <1>3, <1>4, <1>5, <1>6 DEF Next

-----------------------------------------------------------------------------
(* Every reachable state is one of TxInv: the bursts lie one behind the     *)
(* other with one set of tags each, and every reader has made one output    *)
(* of each of the first bursts, and none of a later one.                    *)
THEOREM TxInductive == Spec => []TxInv
<1>1. Init => TxInv
  BY InitInv
<1>2. TxInv /\ [Next]_vars => TxInv'
  BY NextKeeps
<1> QED
  BY <1>1, <1>2, PTL DEF Spec

-----------------------------------------------------------------------------
LEMMA Narrowed ==
    ASSUME NEW S, NEW T, NEW s \in Seq(S), \A k \in DOMAIN s : s[k] \in T
    PROVE  s \in Seq(T)
<1>1. PICK n \in Nat : n = Len(s) /\ s \in [1 .. n -> S]
  BY LenProperties
<1>2. s \in [1 .. n -> T]
  BY <1>1
<1> QED
  BY <1>2, SeqDef

(* A frame that was sent is of the burst with its number. *)
LEMMA SentBurst ==
    ASSUME TxInv, NEW k \in DOMAIN sent
    PROVE  /\ k \in DOMAIN headers /\ k \in DOMAIN payloads /\ k \in DOMAIN bursts
           /\ sent[k] = [header |-> HeaderOf(k), payload |-> PayloadOf(k)]
           /\ BurstOf(k)
<1>1. MapperTypeOK /\ BurstsInv /\ ReadersInv /\ SentInv
  BY DEF TxInv, MapperInv
<1>2. /\ Len(sent) \in Nat /\ DOMAIN sent = 1 .. Len(sent)
      /\ Len(headers) \in Nat /\ DOMAIN headers = 1 .. Len(headers)
      /\ Len(payloads) \in Nat /\ DOMAIN payloads = 1 .. Len(payloads)
      /\ Len(bursts) \in Nat /\ DOMAIN bursts = 1 .. Len(bursts)
  BY <1>1, LenProperties DEF SentInv, ReadersInv, MapperTypeOK
<1>3. k \in DOMAIN headers /\ k \in DOMAIN payloads /\ k \in DOMAIN bursts
  BY <1>1, <1>2 DEF SentInv, ReadersInv
<1> QED
  BY <1>1, <1>3 DEF SentInv, ReadersInv, BurstsInv

LEMMA SentPdu ==
    TxInv => \A i \in DOMAIN sent : /\ i \in DOMAIN bursts
                                    /\ sent[i].payload.pdu = bursts[i].pdu
                                    /\ sent[i].payload.pdu \in Nat
<1> SUFFICES ASSUME TxInv, NEW i \in DOMAIN sent
             PROVE  /\ i \in DOMAIN bursts
                    /\ sent[i].payload.pdu = bursts[i].pdu
                    /\ sent[i].payload.pdu \in Nat
  OBVIOUS
<1>1. /\ i \in DOMAIN bursts /\ sent[i] = [header |-> HeaderOf(i), payload |-> PayloadOf(i)]
      /\ BurstOf(i)
  BY SentBurst
<1>2. bursts[i].pdu \in Nat
  BY <1>1 DEF BurstOf, Burst
<1> QED
  BY <1>1, <1>2 DEF PayloadOf

(* The variables have their types: no reader is ahead of mapper, every      *)
(* payload is of a message that was posted, and every frame that left holds *)
(* one of the payloads that chunks_to_symbols made.                         *)
THEOREM TxTypes == Spec => []TypeOK
<1>1. TxInv => TypeOK
  <2> SUFFICES ASSUME TxInv PROVE TypeOK
    OBVIOUS
  <2>1. MapperTypeOK /\ BurstsInv /\ ReadersInv /\ SentInv
    BY DEF TxInv, MapperInv
  <2>2. headerRead \in 0 .. produced /\ chunkRead \in 0 .. produced
    BY <2>1, ReadType DEF ReadersInv, MapperTypeOK
  <2> DEFINE P == [pdu : Nat, coding : 0 .. 7, items : Nat, bpsc : Nat]
             Q == [pdu : 1 .. Len(pdus), coding : 0 .. 7, items : Nat, bpsc : Nat]
             H == Bits
             R == {payloads[k] : k \in DOMAIN payloads}
  <2>3. payloads \in Seq(Q)
    <3>1. ASSUME NEW k \in DOMAIN payloads PROVE payloads[k] \in Q
      <4>1. Len(payloads) \in Nat /\ DOMAIN payloads = 1 .. Len(payloads)
            /\ Len(bursts) \in Nat /\ DOMAIN bursts = 1 .. Len(bursts)
            /\ Len(pdus) \in Nat /\ taken \in 0 .. Len(pdus)
        BY <2>1, LenProperties DEF ReadersInv, MapperTypeOK
      <4>2. k \in DOMAIN bursts
        BY <2>1, <4>1 DEF ReadersInv
      <4>3. BurstOf(k) /\ payloads[k] = PayloadOf(k)
        BY <2>1, <4>2 DEF BurstsInv, ReadersInv
      <4>4. bursts[k].pdu \in 1 .. Len(pdus)
        BY <4>1, <4>3 DEF BurstOf
      <4>5. bursts[k].encoding \in 0 .. 7 /\ bursts[k].coding \in 0 .. 7
            /\ bursts[k].len \in Nat
        BY <4>3 DEF BurstOf, Burst
      <4>6. LegacyCoding[bursts[k].encoding + 1].bpsc \in Nat
        BY <4>5, CodingType
      <4> QED
        BY <4>3, <4>4, <4>5, <4>6 DEF PayloadOf
    <3>2. payloads \in Seq(P)
      BY <2>1 DEF ReadersInv
    <3> HIDE DEF P, Q
    <3> QED
      BY <3>1, <3>2, Narrowed
  <2>4. sent \in Seq([header : H, payload : R])
    <3> DEFINE S == [header : H, payload : P]
               T == [header : H, payload : R]
    <3> HIDE DEF P, H
    <3>1. ASSUME NEW k \in DOMAIN sent PROVE sent[k] \in T
      <4>1. k \in DOMAIN headers /\ k \in DOMAIN payloads
        BY SentBurst
      <4>2. sent[k] = [header |-> headers[k], payload |-> payloads[k]]
        BY <2>1 DEF SentInv
      <4>3. headers[k] \in H
        <5>1. headers \in Seq(H)
          BY <2>1 DEF ReadersInv, H
        <5> QED
          BY <4>1, <5>1, LenProperties, ElementOfSeq
      <4>4. payloads[k] \in R
        BY <4>1
      <4> QED
        BY <4>2, <4>3, <4>4
    <3>2. sent \in Seq(S)
      BY <2>1 DEF SentInv, P, H
    <3> HIDE DEF S, T
    <3>3. sent \in Seq(T)
      BY <3>1, <3>2, Narrowed
    <3> QED
      BY <3>3 DEF T
  <2> QED
    BY <2>1, <2>2, <2>3, <2>4 DEF TypeOK, ReadersInv
<1> QED
  BY <1>1, TxInductive, PTL

(* d_scrambler wraps after SEEDS states and no earlier, whatever PSDUs were *)
(* lost in between: two bursts less than SEEDS apart differ in it, and it   *)
(* is never the state that leaves a burst as it is.                         *)
THEOREM SeedsAreFresh == Spec => []SeedsFresh
<1>1. TxInv => SeedsFresh
  <2> SUFFICES ASSUME TxInv PROVE SeedsFresh
    OBVIOUS
  <2>1. SEEDS \in Nat \ {0}
    BY MapperAssumption
  <2>2. /\ \A k \in DOMAIN bursts : bursts[k].seed = ((k - 1) % SEEDS) + 1
        /\ \A k \in DOMAIN bursts : k \in Nat \ {0}
    <3>1. Len(bursts) \in Nat /\ DOMAIN bursts = 1 .. Len(bursts)
      BY LenProperties DEF TxInv, MapperInv, MapperTypeOK
    <3> QED
      BY <3>1 DEF TxInv, BurstsInv, BurstOf
  <2>3. ASSUME NEW k \in DOMAIN bursts PROVE bursts[k].seed \in 1 .. SEEDS
    BY <2>1, <2>2
  <2>4. ASSUME NEW j \in DOMAIN bursts, NEW k \in DOMAIN bursts, j < k, k - j < SEEDS
        PROVE  bursts[j].seed # bursts[k].seed
    <3>1. PICK a \in Int : a = j - 1
      BY <2>2
    <3>2. PICK d \in 1 .. SEEDS - 1 : d = k - j
      BY <2>1, <2>2, <2>4
    <3>3. (a + d) % SEEDS # a % SEEDS
      BY <2>1, ModApart
    <3>4. a + d = k - 1
      BY <2>2, <3>1, <3>2
    <3>5. a % SEEDS \in 0 .. SEEDS - 1 /\ (a + d) % SEEDS \in 0 .. SEEDS - 1
      BY <2>1
    <3>6. bursts[j].seed = (a % SEEDS) + 1 /\ bursts[k].seed = ((a + d) % SEEDS) + 1
      BY <2>2, <3>1, <3>4
    <3> QED
      BY <3>3, <3>5, <3>6
  <2> QED
    BY <2>3, <2>4 DEF SeedsFresh
<1> QED
  BY <1>1, TxInductive, PTL

LEMMA DescribesIfRead ==
    ASSUME TxInv,
           \A e \in Encodings, bytes \in PsduLens :
              ParseSignal(SignalHeader(e, bytes))
                  = [ok |-> TRUE, encoding |-> e, bytes |-> bytes]
    PROVE  SignalDescribesPayload
<1> SUFFICES ASSUME NEW k \in DOMAIN sent
             PROVE  LET signal  == ParseSignal(sent[k].header)
                        payload == sent[k].payload
                    IN  /\ signal.ok
                        /\ signal.encoding = payload.coding
                        /\ signal.bytes = pdus[payload.pdu]
                        /\ NSym(signal.bytes, LegacyOfdm(signal.encoding).dbps) * CARRIERS
                               = payload.items
                        /\ LegacyCoding[signal.encoding + 1].bpsc = payload.bpsc
  BY DEF SignalDescribesPayload
<1>1. BurstOf(k) /\ sent[k] = [header |-> HeaderOf(k), payload |-> PayloadOf(k)]
  BY SentBurst
<1>2. ParseSignal(HeaderOf(k)) = [ok |-> TRUE, encoding |-> bursts[k].encoding,
                                  bytes |-> bursts[k].bytes]
  BY <1>1, Zenon DEF BurstOf, HeaderOf
<1> QED
  BY <1>1, <1>2 DEF BurstOf, PayloadOf, Items

(* If no PSDU is longer than twelve bits of length can tell (mac makes none *)
(* of more than 1528 octets), the header of every frame tells the length,   *)
(* encoding, number of symbols and constellation of the payload it was      *)
(* joined with, however often set_encoding is called while a PSDU goes      *)
(* through the three threads.                                               *)
THEOREM HeaderDescribesPayload ==
    ASSUME PsduLens \subseteq TwelveBitLengths
    PROVE  Spec => []SignalDescribesPayload
<1>1. \A e \in Encodings, bytes \in PsduLens :
         ParseSignal(SignalHeader(e, bytes)) = [ok |-> TRUE, encoding |-> e, bytes |-> bytes]
  <2> TAKE e \in Encodings, bytes \in PsduLens
  <2>1. e \in 0 .. 7 /\ bytes \in TwelveBitLengths
    BY MapperAssumption
  <2> QED
    BY <2>1, SignalRoundTrips, Zenon
<1>2. TxInv => SignalDescribesPayload
  BY <1>1, DescribesIfRead
<1> QED
  BY <1>2, TxInductive, PTL

(* The transmitter implements FrameDelivery: a PSDU is sent at most once    *)
(* and never after a later one, for every number of messages, encodings     *)
(* and sizes of the buffer between the threads.                             *)
THEOREM PsdusInOrder == Spec => DeliverySpec
<1> DEFINE D == [k \in DOMAIN sent |-> sent[k].payload.pdu]
<1>1. Init => Delivery!Init
  <2> SUFFICES ASSUME Init PROVE 1 .. Len(pdus) = {} /\ D = <<>>
    BY DEF Delivery!Init
  <2>1. pdus = <<>> /\ sent = <<>>
    BY DEF Init, MapperInit
  <2>2. Len(pdus) = 0 /\ DOMAIN sent = {}
    BY <2>1
  <2>3. D = <<>>
    BY <2>2
  <2> QED
    BY <2>2, <2>3
<1>2. TxInv /\ [Next]_vars
          => [Delivery!AnnounceFrame \/ Delivery!DeliverFrame]_<<1 .. Len(pdus), D>>
  <2> SUFFICES ASSUME TxInv, [Next]_vars
               PROVE  \/ Delivery!AnnounceFrame \/ Delivery!DeliverFrame
                      \/ UNCHANGED <<1 .. Len(pdus), D>>
    OBVIOUS
  <2>1. CASE UNCHANGED <<pdus, sent>>
    BY <2>1
  <2>2. CASE Post /\ UNCHANGED sent
    <3> DEFINE M == PsduLens \cup {NOT_A_PAIR}
    <3>1. PICK m \in M : pdus' = Append(pdus, m)
      BY <2>2 DEF Post
    <3>2. pdus \in Seq(M)
      BY DEF TxInv, MapperInv, MapperTypeOK
    <3> HIDE DEF M
    <3>3. Len(pdus) \in Nat /\ Len(pdus') = Len(pdus) + 1
      BY <3>1, <3>2, Appended
    <3>4. PICK n \in Nat : n = Len(pdus) /\ n + 1 = Len(pdus')
      BY <3>3
    <3>5. 1 .. n + 1 = 1 .. n \cup {n + 1} /\ \A g \in 1 .. n : g < n + 1
      OBVIOUS
    <3>6. UNCHANGED D
      BY <2>2
    <3>7. n + 1 \in 1 .. Len(pdus') /\ n + 1 > 0
      BY <3>4
    <3> QED
      BY <3>4, <3>5, <3>6, <3>7 DEF Delivery!AnnounceFrame
  <2>3. CASE Multiplex
    <3>1. TxInv' /\ UNCHANGED pdus
      BY <2>3, MultiplexKeeps DEF Multiplex, mapperVars
    <3>2. PICK n \in Nat : n = Len(sent) /\ DOMAIN sent = 1 .. n /\ DOMAIN sent' = 1 .. n + 1
                           /\ \A k \in 1 .. n : sent'[k] = sent[k]
      <4> DEFINE S == [header : Bits, payload : [pdu : Nat, coding : 0 .. 7, items : Nat,
                                                 bpsc : Nat]]
      <4>1. sent \in Seq(S) /\ sent' \in Seq(S)
        BY <3>1 DEF TxInv, SentInv
      <4>2. PICK f : sent' = Append(sent, f)
        BY <2>3 DEF Multiplex
      <4> HIDE DEF S
      <4>3. /\ Len(sent) \in Nat /\ DOMAIN sent = 1 .. Len(sent)
            /\ DOMAIN sent' = 1 .. Len(sent') /\ Len(sent') = Len(sent) + 1
            /\ \A k \in 1 .. Len(sent) : sent'[k] = sent[k]
        BY <4>1, <4>2, LenProperties
      <4> QED
        BY <4>3
    <3>3. \A k \in 1 .. n + 1 : /\ k \in DOMAIN bursts'
                                /\ sent'[k].payload.pdu = bursts'[k].pdu
      <4> SUFFICES ASSUME NEW k \in 1 .. n + 1
                   PROVE  k \in DOMAIN bursts' /\ sent'[k].payload.pdu = bursts'[k].pdu
        OBVIOUS
      <4>1. k \in DOMAIN sent'
        BY <3>2
      <4>2. (TxInv => \A i \in DOMAIN sent : /\ i \in DOMAIN bursts
                                             /\ sent[i].payload.pdu = bursts[i].pdu
                                             /\ sent[i].payload.pdu \in Nat)'
        BY SentPdu, PTL
      <4> QED
        BY <3>1, <4>1, <4>2
    <3> DEFINE f == sent'[n + 1].payload.pdu
    <3>4. f \in 1 .. Len(pdus) /\ f \in Nat
      <4>1. n + 1 \in DOMAIN bursts' /\ f = bursts'[n + 1].pdu
        BY <3>2, <3>3
      <4>2. bursts'[n + 1].pdu \in 1 .. taken' /\ taken' \in 0 .. Len(pdus')
        BY <3>1, <4>1 DEF TxInv, BurstsInv, BurstOf, MapperInv, MapperTypeOK
      <4>3. Len(pdus') \in Nat
        BY <3>1, LenProperties DEF TxInv, MapperInv, MapperTypeOK
      <4> QED
        BY <3>1, <4>1, <4>2, <4>3
    <3>5. \A k \in 1 .. n : D[k] < f
      <4> SUFFICES ASSUME NEW k \in 1 .. n PROVE sent[k].payload.pdu < f
        BY <3>2
      <4>1. k \in 1 .. n + 1 /\ n + 1 \in 1 .. n + 1 /\ k < n + 1
        BY <3>2
      <4>2. bursts'[k].pdu < bursts'[n + 1].pdu
        BY <3>1, <3>3, <4>1 DEF TxInv, BurstsInv
      <4> QED
        BY <3>2, <3>3, <4>1, <4>2
    <3>6. D' = Append(D, f)
      <4>1. D \in Seq(Nat)
        <5>1. \A k \in 1 .. n : D[k] \in Nat
          <6>1. \A k \in 1 .. n : sent[k].payload.pdu \in Nat
            BY <3>2, SentPdu
          <6> QED
            BY <3>2, <6>1
        <5>2. D \in [1 .. n -> Nat]
          BY <3>2, <5>1
        <5> QED
          BY <5>2, SeqDef
      <4>2. Len(D) = n
        <5>1. DOMAIN D = 1 .. n
          BY <3>2
        <5>2. DOMAIN D = 1 .. Len(D) /\ Len(D) \in Nat
          BY <4>1, LenProperties
        <5> HIDE DEF D
        <5> QED
          BY <5>1, <5>2
      <4>3. D' = [k \in 1 .. n + 1 |-> sent'[k].payload.pdu]
        BY <3>2
      <4>4. \A k \in 1 .. n : D[k] = sent'[k].payload.pdu
        BY <3>2
      <4> HIDE DEF D, f
      <4>5. /\ Append(D, f) \in Seq(Nat) /\ DOMAIN Append(D, f) = 1 .. n + 1
            /\ \A k \in 1 .. n : Append(D, f)[k] = D[k]
            /\ Append(D, f)[n + 1] = f /\ Len(Append(D, f)) = n + 1
        BY <3>4, <4>1, <4>2, Appended
      <4>6. Append(D, f) \in [1 .. n + 1 -> Nat]
        BY <4>5, LenProperties
      <4>7. \A k \in 1 .. n + 1 : Append(D, f)[k] = sent'[k].payload.pdu
        <5> SUFFICES ASSUME NEW k \in 1 .. n + 1
                     PROVE  Append(D, f)[k] = sent'[k].payload.pdu
          OBVIOUS
        <5>1. k = n + 1 \/ k \in 1 .. n
          OBVIOUS
        <5> QED
          BY <4>4, <4>5, <5>1 DEF f
      <4> QED
        BY <4>3, <4>6, <4>7
    <3>7. DOMAIN D = 1 .. n
      BY <3>2
    <3> HIDE DEF D, f
    <3>8. 1 .. Len(pdus') = 1 .. Len(pdus)
      BY <3>1
    <3> QED
      BY <3>4, <3>5, <3>6, <3>7, <3>8 DEF Delivery!DeliverFrame, D
  <2>4. \/ UNCHANGED <<pdus, sent>> \/ (Post /\ UNCHANGED sent) \/ Multiplex
    BY DEF Next, Outside, SetEncoding, Map, MapperWork, NoPdu, TakePdu, SendMore,
           GenerateHeader, MapChunks, mapperVars, vars
  <2> QED
    BY <2>1, <2>2, <2>3, <2>4
<1>3. Spec => Delivery!Spec
  BY <1>1, <1>2, TxInductive, PTL DEF Spec, Delivery!Spec
<1> QED
  BY <1>3 DEF DeliverySpec
=============================================================================
