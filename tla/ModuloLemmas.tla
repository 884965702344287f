---------------------------- MODULE ModuloLemmas ----------------------------
(***************************************************************************)
(* Division with remainder by an arbitrary positive integer, and the least *)
(* of a set of natural numbers, stated once for all proofs.                *)
(***************************************************************************)
EXTENDS Integers, TLAPS, WellFoundedInduction

(* Quotient and remainder recompose the number. *)
LEMMA DivMod ==
    ASSUME NEW F \in Nat \ {0}, NEW a \in Int
    PROVE  /\ a \div F \in Int
           /\ a % F \in 0 .. F - 1
           /\ a = F * (a \div F) + (a % F)
  OBVIOUS

LEMMA Recompose ==
    ASSUME NEW F \in Nat \ {0}, NEW a \in Int
    PROVE  \E q \in Int, r \in 0 .. F - 1 : a = F * q + r /\ a % F = r
  BY DivMod

(* The remainder is the only number below F that does. *)
LEMMA ModUnique ==
    ASSUME NEW F \in Nat \ {0}, NEW a \in Int, NEW q \in Int,
           NEW r \in 0 .. F - 1, a = F * q + r
    PROVE  a % F = r
  OBVIOUS

LEMMA DivUnique ==
    ASSUME NEW F \in Nat \ {0}, NEW a \in Int, NEW q \in Int,
           NEW r \in 0 .. F - 1, a = F * q + r
    PROVE  a \div F = q
<1>1. PICK t \in Int, u \in 0 .. F - 1 : a = F * t + u /\ t = a \div F
  BY DivMod
<1>2. CASE t < q
  <2>1. F * (q - t) >= F
    BY <1>1, <1>2
  <2>2. F * (q - t) = F * q - F * t
    BY <1>1
  <2> QED
    BY <1>1, <2>1, <2>2
<1>3. CASE t > q
  <2>1. F * (t - q) >= F
    BY <1>1, <1>3
  <2>2. F * (t - q) = F * t - F * q
    BY <1>1
  <2> QED
    BY <1>1, <2>1, <2>2
<1> QED
  BY <1>1, <1>2, <1>3

(* Numbers with the same remainder keep it when the same is added to both. *)
LEMMA ModAdd ==
    ASSUME NEW F \in Nat \ {0}, NEW a \in Int, NEW b \in Int, NEW c \in Int,
           a % F = b % F
    PROVE  (a + c) % F = (b + c) % F
<1>1. PICK qa \in Int : a = F * qa + (a % F)
  BY DivMod
<1>2. PICK qb \in Int : b = F * qb + (b % F)
  BY DivMod
<1>3. b + c \in Int
  OBVIOUS
<1>4. PICK s \in 0 .. F - 1, qc \in Int : b + c = F * qc + s
  BY <1>3, DivMod
<1>5. a % F \in Int /\ b % F = a % F
  BY DivMod
<1>6. a + c = F * (qa - qb + qc) + s
  <2>1. F * (qa - qb + qc) = F * qa - F * qb + F * qc
    OBVIOUS
  <2>2. F * qa \in Int /\ F * qb \in Int /\ F * qc \in Int
    OBVIOUS
  <2> QED
    BY <1>1, <1>2, <1>4, <1>5, <2>1, <2>2
<1>7. (b + c) % F = s
  BY <1>3, <1>4, ModUnique
<1>8. (a + c) % F = s
  <2>1. a + c \in Int /\ qa - qb + qc \in Int
    OBVIOUS
  <2> QED
    BY <1>6, <2>1, ModUnique
<1> QED
  BY <1>7, <1>8

LEMMA ModSucc ==
    ASSUME NEW F \in Nat \ {0}, NEW a \in Int, NEW b \in Int, a % F = b % F
    PROVE  (a + 1) % F = (b + 1) % F
<1>1. \A c \in Int : (a + c) % F = (b + c) % F
  BY ModAdd
<1> QED
  BY <1>1

(* Padding by what is missing to the next multiple reaches that multiple. *)
LEMMA ModPad ==
    ASSUME NEW F \in Nat \ {0}, NEW a \in Int
    PROVE  /\ (F - (a % F)) % F \in 0 .. F - 1
           /\ (a + ((F - (a % F)) % F)) % F = 0
<1>1. PICK q \in Int, r \in 0 .. F - 1 : a = F * q + r /\ a % F = r
  BY DivMod
<1>2. CASE r = 0
  <2>1. F % F = 0
    <3>1. F = F * 1 + 0
      OBVIOUS
    <3> QED
      BY <3>1, ModUnique
  <2> QED
    BY <1>1, <1>2, <2>1
<1>3. CASE r # 0
  <2>1. (F - r) % F = F - r
    <3>1. F - r \in Int /\ F - r \in 0 .. F - 1 /\ F - r = F * 0 + (F - r)
      BY <1>3
    <3> QED
      BY <3>1, ModUnique
  <2>2. a + (F - r) = F * (q + 1) + 0
    BY <1>1
  <2>3. (a + (F - r)) % F = 0
    <3> DEFINE b == a + (F - r)
    <3>1. b \in Int /\ q + 1 \in Int /\ 0 \in 0 .. F - 1
      BY <1>1
    <3>2. b = F * (q + 1) + 0
      BY <2>2
    <3> HIDE DEF b
    <3>3. b % F = 0
      BY <3>1, <3>2, ModUnique
    <3> QED
      BY <3>3 DEF b
  <2> QED
    BY <1>1, <1>3, <2>1, <2>3
<1> QED
  BY <1>2, <1>3

(* A counter modulo F goes to the next number, or wraps. *)
LEMMA ModNext ==
    ASSUME NEW F \in Nat \ {0}, NEW a \in Int
    PROVE  (a + 1) % F = IF (a % F) + 1 = F THEN 0 ELSE (a % F) + 1
<1>1. PICK q \in Int, r \in 0 .. F - 1 : a = F * q + r /\ a % F = r
  BY Recompose
<1>2. CASE r + 1 = F
  <2>1. a + 1 = F * (q + 1) + 0
    BY <1>1, <1>2
  <2>2. a + 1 \in Int /\ q + 1 \in Int /\ 0 \in 0 .. F - 1
    OBVIOUS
  <2>3. (a + 1) % F = 0
    BY <2>1, <2>2, ModUnique
  <2> QED
    BY <1>1, <1>2, <2>3
<1>3. CASE r + 1 # F
  <2>1. a + 1 = F * q + (r + 1)
    BY <1>1
  <2>2. a + 1 \in Int /\ r + 1 \in 0 .. F - 1
    BY <1>3
  <2>3. (a + 1) % F = r + 1
    BY <2>1, <2>2, ModUnique
  <2> QED
    BY <1>1, <1>3, <2>3
<1> QED
  BY <1>2, <1>3

(* Numbers less than F apart have different remainders. *)
LEMMA ModApart ==
    ASSUME NEW F \in Nat \ {0}, NEW a \in Int, NEW d \in 1 .. F - 1
    PROVE  (a + d) % F # a % F
<1>1. PICK q \in Int, r \in 0 .. F - 1 : a = F * q + r /\ a % F = r
  BY Recompose
<1>2. a + d \in Int
  OBVIOUS
<1>3. PICK p \in Int, t \in 0 .. F - 1 : a + d = F * p + t /\ (a + d) % F = t
  BY <1>2, Recompose
<1>4. SUFFICES ASSUME r = t PROVE FALSE
  BY <1>1, <1>3
<1>5. F * (p - q) = d
  <2>1. F * (p - q) = F * p - F * q
    OBVIOUS
  <2> QED
    BY <1>1, <1>3, <1>4, <2>1
<1>6. p - q >= 1 => F * (p - q) >= F
  OBVIOUS
<1>7. p - q <= 0 => F * (p - q) <= 0
  OBVIOUS
<1> QED
  BY <1>5, <1>6, <1>7

(* Whole multiples, and a remainder taken before, change nothing.           *)
LEMMA ModTimes ==
    ASSUME NEW F \in Nat \ {0}, NEW a \in Int, NEW q \in Int
    PROVE  (a + F * q) % F = a % F
<1>1. PICK p \in Int, r \in 0 .. F - 1 : a = F * p + r /\ a % F = r
  BY Recompose
<1>2. F * (p + q) = F * p + F * q /\ F * q \in Int
  OBVIOUS
<1>3. a + F * q = F * (p + q) + r /\ a + F * q \in Int /\ p + q \in Int
  BY <1>1, <1>2
<1>4. (a + F * q) % F = r
  BY <1>3, ModUnique
<1> QED
  BY <1>1, <1>4

LEMMA ModOfMod ==
    ASSUME NEW F \in Nat \ {0}, NEW a \in Int, NEW c \in Int
    PROVE  ((a % F) + c) % F = (a + c) % F
<1>1. PICK q \in Int, r \in 0 .. F - 1 : a = F * q + r /\ a % F = r
  BY Recompose
<1>2. a + c = (r + c) + F * q /\ r + c \in Int
  BY <1>1
<1>3. ((r + c) + F * q) % F = (r + c) % F
  BY <1>2, ModTimes
<1> QED
  BY <1>1, <1>2, <1>3

(* A set of natural numbers that is not empty has a least member. *)
LEMMA LeastNat ==
    ASSUME NEW S, S \subseteq Nat, S # {}
    PROVE  \E m \in S : \A n \in S : m <= n
<1>1. \E m \in S : \A n \in S : ~ (<<n, m>> \in OpToRel(<, Nat))
  BY NatLessThanWellFounded, WFMin
<1>2. PICK m \in S : \A n \in S : ~ (<<n, m>> \in OpToRel(<, Nat))
  BY <1>1
<1>3. \A n \in S : ~ (n < m)
  BY <1>2 DEF OpToRel
<1>4. \A n \in S : m <= n
  <2> SUFFICES ASSUME NEW n \in S PROVE m <= n
    OBVIOUS
  <2>1. m \in Nat /\ n \in Nat
    OBVIOUS
  <2> QED
    BY <1>3, <2>1
<1> QED
  BY <1>4
=============================================================================
