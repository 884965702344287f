--------------------------- MODULE SyncLongProofs ---------------------------
(***************************************************************************)
(* What sync_long guarantees after any upstream block: type correctness,   *)
(* the alignment of its output frames to FFT vectors, output free of guard *)
(* intervals, and exceptions and lost frames only where tags come too      *)
(* close, for every FFT length, correlation window and cut into calls.     *)
(***************************************************************************)
EXTENDS SyncLong, ModuloLemmas, FiniteSetTheorems

(* A set of pair numbers has a least and a greatest element. *)
LEMMA PairBounds ==
    ASSUME NEW S \in SUBSET (1 .. 6), S # {}
    PROVE  Min(S) \in S /\ Max(S) \in S
<1>1. 1 \in S \/ 2 \in S \/ 3 \in S \/ 4 \in S \/ 5 \in S \/ 6 \in S
  <2>1. PICK x : x \in S
    OBVIOUS
  <2>2. x = 1 \/ x = 2 \/ x = 3 \/ x = 4 \/ x = 5 \/ x = 6
    <3>1. x \in 1 .. 6
      BY <2>1
    <3> QED
      BY <3>1
  <2> QED
    BY <2>1, <2>2
<1>2. ASSUME NEW m \in S, \A k \in 1 .. 6 : k < m => k \notin S
      PROVE  \E x \in S : \A y \in S : x <= y
  BY <1>2
<1>3. ASSUME NEW m \in S, \A k \in 1 .. 6 : k > m => k \notin S
      PROVE  \E x \in S : \A y \in S : x >= y
  BY <1>3
<1>4. \E x \in S : \A y \in S : x <= y
  <2>1. CASE 1 \in S
    BY <1>2, <2>1
  <2>2. CASE 1 \notin S /\ 2 \in S
    BY <1>2, <2>2
  <2>3. CASE 1 \notin S /\ 2 \notin S /\ 3 \in S
    BY <1>2, <2>3
  <2>4. CASE 1 \notin S /\ 2 \notin S /\ 3 \notin S /\ 4 \in S
    BY <1>2, <2>4
  <2>5. CASE S \cap (1 .. 4) = {} /\ 5 \in S
    BY <1>2, <2>5
  <2>6. CASE S \cap (1 .. 5) = {} /\ 6 \in S
    BY <1>2, <2>6
  <2> QED
    BY <1>1, <2>1, <2>2, <2>3, <2>4, <2>5, <2>6
<1>5. \E x \in S : \A y \in S : x >= y
  <2>1. CASE 6 \in S
    BY <1>3, <2>1
  <2>2. CASE 6 \notin S /\ 5 \in S
    BY <1>3, <2>2
  <2>3. CASE 6 \notin S /\ 5 \notin S /\ 4 \in S
    BY <1>3, <2>3
  <2>4. CASE 6 \notin S /\ 5 \notin S /\ 4 \notin S /\ 3 \in S
    BY <1>3, <2>4
  <2>5. CASE S \cap (3 .. 6) = {} /\ 2 \in S
    BY <1>3, <2>5
  <2>6. CASE S \cap (2 .. 6) = {} /\ 1 \in S
    BY <1>3, <2>6
  <2> QED
    BY <1>1, <2>1, <2>2, <2>3, <2>4, <2>5, <2>6
<1> QED
  BY <1>4, <1>5 DEF Min, Max

(* Whatever the four peaks, the search yields a start inside the window or  *)
(* the default one, and the default exactly when no fine offset was set.    *)
LEMMA SearchResultsType ==
    ASSUME NEW r \in SearchResults
    PROVE  /\ r.start \in 0 .. SYNC_LENGTH
           /\ r.found \in BOOLEAN
           /\ ~r.found => r.start = SYNC_LENGTH
<1>1. PICK v \in Peaks : r = FoundFrameStart(v)
  BY DEF SearchResults
<1>2. DOMAIN PeakPairs = 1 .. 6
  BY DEF PeakPairs
<1>3. ASSUME NEW p \in 1 .. 6 PROVE Earlier(v, p) \in 0 .. SYNC_LENGTH
  <2>1. PeakPairs[p][1] \in 1 .. 4 /\ PeakPairs[p][2] \in 1 .. 4
    BY DEF PeakPairs
  <2>2. \A i \in 1 .. 4 : v[i] \in 0 .. SYNC_LENGTH - 1
    BY DEF Peaks
  <2> QED
    BY <2>1, <2>2, LongAssumption DEF Earlier
<1> DEFINE exact == {p \in DOMAIN PeakPairs : Exact(v, p)}
           near  == {p \in DOMAIN PeakPairs : Near(v, p)}
<1>4. exact \in SUBSET (1 .. 6) /\ near \in SUBSET (1 .. 6)
  BY <1>2
<1>5. CASE exact # {}
  <2>1. r = [start |-> Earlier(v, Min(exact)), found |-> TRUE]
    BY <1>1, <1>5 DEF FoundFrameStart
  <2>2. Min(exact) \in 1 .. 6
    BY <1>4, <1>5, PairBounds
  <2> QED
    BY <1>3, <2>1, <2>2
<1>6. CASE exact = {} /\ near # {}
  <2>1. r = [start |-> Earlier(v, Max(near)), found |-> TRUE]
    BY <1>1, <1>6 DEF FoundFrameStart
  <2>2. Max(near) \in 1 .. 6
    BY <1>4, <1>6, PairBounds
  <2> QED
    BY <1>3, <2>1, <2>2
<1>7. CASE exact = {} /\ near = {}
  <2>1. r = [start |-> SYNC_LENGTH, found |-> FALSE]
    BY <1>1, <1>7 DEF FoundFrameStart
  <2> QED
    BY <2>1, LongAssumption
<1> QED
  BY <1>5, <1>6, <1>7

(* The number of copied samples is a number, and it is 0 before the start.  *)
LEMMA KeptOfType ==
    ASSUME NEW n \in Nat, offset \in Nat, frameStart \in Nat
    PROVE  /\ KeptOf(n) \in Nat
           /\ offset + n <= frameStart => KeptOf(n) = 0
<1> DEFINE K == {k \in 0 .. n - 1 : Kept(offset + k - frameStart)}
<1>1. IsFiniteSet(0 .. n - 1)
  BY FS_Interval
<1>2. IsFiniteSet(K)
  BY <1>1, FS_Subset
<1>3. KeptOf(n) \in Nat
  BY <1>2, FS_CardinalityType DEF KeptOf
<1>4. ASSUME offset + n <= frameStart PROVE KeptOf(n) = 0
  <2>1. ASSUME NEW k \in 0 .. n - 1 PROVE ~Kept(offset + k - frameStart)
    BY <1>4 DEF Kept
  <2>2. K = {}
    BY <2>1
  <2> QED
    BY <2>2, FS_EmptySet DEF KeptOf
<1> QED
  BY <1>3, <1>4

(* The tag value a call works with is the number of some tag, or the old    *)
(* value.                                                                   *)
LEMMA ShortAfterTagsType ==
    ASSUME StreamTypeOK, freqShort \in Nat
    PROVE  ShortAfterTags \in Nat
<1>1. CASE nread < written /\ TagAt(nread)
  <2>1. \E k \in DOMAIN tags : tags[k] = nread
    BY <1>1 DEF TagAt
  <2>2. ShortAfterTags \in DOMAIN tags
    BY <1>1, <2>1 DEF ShortAfterTags
  <2> QED
    BY <2>2 DEF StreamTypeOK
<1>2. CASE ~(nread < written /\ TagAt(nread))
  BY <1>2 DEF ShortAfterTags
<1> QED
  BY <1>1, <1>2

-----------------------------------------------------------------------------
LongTypes == LongTypeOK /\ StreamTypeOK

(* One call of general_work keeps every variable in its type. *)
LEMMA LongWorkType ==
    ASSUME LongTypes, LongWork
    PROVE  LongTypes'
<1> USE DEF LongTypes, LongTypeOK, StreamTypeOK, streamVars
<1>1. ShortAfterTags \in Nat
  BY ShortAfterTagsType
<1>2. CASE SyncCall
  <2>1. PICK n \in FFT .. written - nread :
          LET left == SYNC_LENGTH - offset
              m    == IF n - (FFT - 1) < left THEN n - (FFT - 1) ELSE left
          IN  /\ nread' = nread + m
              /\ \/ /\ m < left
                    /\ offset' = offset + m
                    /\ UNCHANGED <<longState, frameStart, freqLong, count>>
                 \/ /\ m = left
                    /\ offset' = 0
                    /\ count' = 0
                    /\ longState' = "COPY"
                    /\ \E r \in SearchResults :
                          /\ frameStart' = r.start
                          /\ freqLong' = IF r.found THEN ShortAfterTags ELSE freqLong
    BY <1>2 DEF SyncCall
  <2> QED
    BY <1>1, <1>2, <2>1, SearchResultsType, LongAssumption DEF SyncCall
<1>3. CASE SyncThrow
  BY <1>3 DEF SyncThrow
<1>4. CASE CopyCall
  <2>1. PICK n \in 1 .. written - nread :
          /\ nread' = nread + n
          /\ offset' = offset + n
          /\ produced' = produced + KeptOf(n)
          /\ count' = count + KeptOf(n)
          /\ longTags' = IF frameStart \in offset .. offset + n - 1
                         THEN Append(longTags, [at |-> produced, start |-> frameStart,
                                                short |-> freqShort, long |-> freqLong])
                         ELSE longTags
    BY <1>4 DEF CopyCall
  <2>2. n \in Nat /\ KeptOf(n) \in Nat
    BY KeptOfType, LongAssumption
  <2>3. [at |-> produced, start |-> frameStart,
         short |-> freqShort, long |-> freqLong] \in LongTag
    BY LongAssumption DEF LongTag
  <2>4. longTags' \in Seq(LongTag)
    BY <2>1, <2>3
  <2> QED
    BY <1>4, <2>1, <2>2, <2>4 DEF CopyCall
<1>5. CASE ResetCall
  <2>1. (FFT - (count % FFT)) % FFT \in Nat
    BY ModPad, LongAssumption
  <2> QED
    BY <1>1, <1>5, <2>1, LongAssumption DEF ResetCall
<1> QED
  BY <1>2, <1>3, <1>4, <1>5 DEF LongWork

(* Type correctness of sync_long and its input stream. *)
THEOREM LongTypeCorrect == LongSpec => []LongTypes
<1>1. LongInit /\ StreamInit => LongTypes
  BY LongAssumption DEF LongInit, StreamInit, LongTypes, LongTypeOK, StreamTypeOK
<1>2. LongTypes /\ [LongWork \/ Upstream]_longVars => LongTypes'
  <2> SUFFICES ASSUME LongTypes, [LongWork \/ Upstream]_longVars PROVE LongTypes'
    OBVIOUS
  <2>1. CASE LongWork
    BY <2>1, LongWorkType
  <2>2. CASE Upstream
    <3>1. StreamTypeOK'
      <4>1. CASE UpstreamTag
        BY <4>1 DEF LongTypes, StreamTypeOK, UpstreamTag, AddTag
      <4>2. CASE UpstreamSample
        BY <4>2 DEF LongTypes, StreamTypeOK, UpstreamSample
      <4> QED
        BY <2>2, <4>1, <4>2 DEF Upstream
    <3>2. LongTypeOK'
      BY <2>2 DEF LongTypes, LongTypeOK, Upstream, longOwnVars
    <3> QED
      BY <3>1, <3>2 DEF LongTypes
  <2>3. CASE UNCHANGED longVars
    BY <2>3 DEF LongTypes, LongTypeOK, StreamTypeOK, longVars, longOwnVars, streamVars
  <2> QED
    BY <2>1, <2>2, <2>3
<1> QED
  BY <1>1, <1>2, PTL DEF LongSpec, LongStart

-----------------------------------------------------------------------------
(* One call of general_work keeps the output aligned.  Only COPY and RESET  *)
(* write; the step into SYNC is the one that needs the padding to be right, *)
(* and the step past the frame start the one that needs nothing written.    *)
LEMMA LongWorkAligned ==
    ASSUME LongTypes, AlignmentInv, LongWork
    PROVE  AlignmentInv'
<1> USE DEF LongTypes, LongTypeOK
<1>0. 0 % FFT = 0
  <2>1. 0 = FFT * 0 + 0 /\ 0 \in 0 .. FFT - 1
    BY LongAssumption
  <2> QED
    BY <2>1, ModUnique, LongAssumption
<1>00. FFT \in Nat \ {0} /\ produced \in Int /\ count \in Int
  BY LongAssumption
<1>1. CASE SyncCall
  <2>1. /\ produced' = produced /\ longTags' = longTags
        /\ longState = "SYNC"
        /\ \/ longState' = "SYNC"
           \/ longState' = "COPY" /\ count' = 0
    BY <1>1 DEF SyncCall
  <2> QED
    BY <1>0, <2>1 DEF AlignmentInv, VectorAligned
<1>2. CASE SyncThrow
  BY <1>2 DEF SyncThrow, AlignmentInv, VectorAligned
<1>3. CASE CopyCall
  <2>1. PICK n \in 1 .. written - nread :
          /\ offset' = offset + n
          /\ produced' = produced + KeptOf(n)
          /\ count' = count + KeptOf(n)
          /\ longTags' = IF frameStart \in offset .. offset + n - 1
                         THEN Append(longTags, [at |-> produced, start |-> frameStart,
                                                short |-> freqShort, long |-> freqLong])
                         ELSE longTags
    BY <1>3 DEF CopyCall
  <2>2. /\ longState = "COPY" /\ longState' = "COPY"
        /\ frameStart' = frameStart
    BY <1>3 DEF CopyCall
  <2>3. /\ n \in Nat /\ KeptOf(n) \in Nat
        /\ offset + n <= frameStart => KeptOf(n) = 0
    BY KeptOfType, LongAssumption
  <2>4. produced' % FFT = count' % FFT
    <3>1. produced % FFT = count % FFT /\ KeptOf(n) \in Int
      BY <2>2, <2>3 DEF AlignmentInv
    <3>2. (produced + KeptOf(n)) % FFT = (count + KeptOf(n)) % FFT
      BY <1>00, <3>1, ModAdd
    <3> QED
      BY <2>1, <3>2
  <2>5. offset' <= frameStart' => count' = 0
    BY <2>1, <2>2, <2>3, LongAssumption DEF AlignmentInv
  <2>6. VectorAligned'
    <3>1. CASE frameStart \in offset .. offset + n - 1
      <4>1. produced % FFT = 0
        BY <1>0, <2>2, <3>1, LongAssumption DEF AlignmentInv
      <4>2. longTags' = Append(longTags, [at |-> produced, start |-> frameStart,
                                          short |-> freqShort, long |-> freqLong])
        BY <2>1, <3>1
      <4>3. ASSUME NEW k \in DOMAIN longTags' PROVE longTags'[k].at % FFT = 0
        BY <4>1, <4>2 DEF AlignmentInv, VectorAligned
      <4> QED
        BY <4>3 DEF VectorAligned
    <3>2. CASE frameStart \notin offset .. offset + n - 1
      BY <2>1, <3>2 DEF AlignmentInv, VectorAligned
    <3> QED
      BY <3>1, <3>2
  <2> QED
    BY <2>2, <2>4, <2>5, <2>6 DEF AlignmentInv
<1>4. CASE ResetCall
  <2> DEFINE pad == (FFT - (count % FFT)) % FFT
  <2>1. /\ pad \in Nat
        /\ (count + pad) % FFT = 0
    BY <1>00, ModPad
  <2>2. produced % FFT = count % FFT
    BY <1>4 DEF ResetCall, AlignmentInv
  <2>3. (produced + pad) % FFT = 0
    <3>1. (produced + pad) % FFT = (count + pad) % FFT
      <4> HIDE DEF pad
      <4>1. pad \in Int
        BY <2>1
      <4> QED
        BY <1>00, <2>2, <4>1, ModAdd
    <3> QED
      BY <2>1, <3>1
  <2>4. PICK noutput \in 1 .. FFT :
          /\ produced' = produced + (IF pad < noutput THEN pad ELSE noutput)
          /\ count' = count + (IF pad < noutput THEN pad ELSE noutput)
          /\ \/ pad < noutput /\ longState' = "SYNC"
             \/ pad >= noutput /\ longState' = "RESET"
    BY <1>4 DEF ResetCall
  <2>5. VectorAligned'
    BY <1>4 DEF ResetCall, AlignmentInv, VectorAligned
  <2> HIDE DEF pad
  <2>6. CASE pad < noutput /\ longState' = "SYNC"
    BY <2>3, <2>4, <2>5, <2>6 DEF AlignmentInv
  <2>7. CASE pad >= noutput /\ longState' = "RESET"
    <3>1. produced' % FFT = count' % FFT
      <4>1. produced' = produced + noutput /\ count' = count + noutput
        BY <2>1, <2>4, <2>7, LongAssumption
      <4>2. (produced + noutput) % FFT = (count + noutput) % FFT
        <5>1. noutput \in Int
          BY LongAssumption
        <5> QED
          BY <1>00, <2>2, <5>1, ModAdd
      <4> QED
        BY <4>1, <4>2
    <3> QED
      BY <2>5, <2>7, <3>1 DEF AlignmentInv
  <2> QED
    BY <2>4, <2>6, <2>7
<1> QED
  BY <1>1, <1>2, <1>3, <1>4 DEF LongWork

(* Every frame of sync_long's output starts on an FFT vector boundary. *)
THEOREM LongAligned == LongSpec => []VectorAligned
<1>1. LongInit /\ StreamInit => AlignmentInv
  <2>1. 0 = FFT * 0 + 0 /\ 0 \in 0 .. FFT - 1
    BY LongAssumption
  <2>2. 0 % FFT = 0
    BY <2>1, ModUnique, LongAssumption
  <2> QED
    BY <2>2 DEF LongInit, AlignmentInv, VectorAligned
<1>2. LongTypes /\ AlignmentInv /\ [LongWork \/ Upstream]_longVars => AlignmentInv'
  <2> SUFFICES ASSUME LongTypes, AlignmentInv, [LongWork \/ Upstream]_longVars
               PROVE  AlignmentInv'
    OBVIOUS
  <2>1. CASE LongWork
    BY <2>1, LongWorkAligned
  <2>2. CASE UNCHANGED longOwnVars
    BY <2>2 DEF longOwnVars, AlignmentInv, VectorAligned
  <2> QED
    BY <2>1, <2>2 DEF Upstream, longVars
<1>3. AlignmentInv => VectorAligned
  BY DEF AlignmentInv
<1> QED
  BY <1>1, <1>2, <1>3, LongTypeCorrect, PTL DEF LongSpec, LongStart

-----------------------------------------------------------------------------
(* The guard intervals.  The copied samples are counted one by one: each    *)
(* adds one to OutputOf where it is kept, and nothing where it is not.      *)

GI  == FFT \div 4       \* a guard interval
SYM == FFT + GI         \* a symbol with its guard interval

LEMMA SymbolSizes == /\ FFT \in Nat /\ FFT > 0
                     /\ GI \in Nat /\ GI > 0 /\ SYM \in Nat \ {0} /\ SYM = FFT + GI
  BY LongAssumption DEF GI, SYM

(* OutputOf and Kept behind the L-LTF, q symbols and r samples on. *)
LEMMA OutputOfBody ==
    ASSUME NEW a \in Int, NEW q \in Int, NEW r \in 0 .. SYM - 1,
           a - 2 * FFT = SYM * q + r, a - 2 * FFT > 0
    PROVE  OutputOf(a) = 2 * FFT + FFT * q + (IF r - GI > 0 THEN r - GI ELSE 0)
<1>1. a - 2 * FFT \in Int /\ ~(a <= 0) /\ ~(a - 2 * FFT <= 0)
  BY SymbolSizes
<1>2. (a - 2 * FFT) % SYM = r /\ (a - 2 * FFT) \div SYM = q
  BY <1>1, SymbolSizes, ModUnique, DivUnique
<1>3. OutputOf(a) = 2 * FFT + FFT * ((a - 2 * FFT) \div SYM)
                    + (IF ((a - 2 * FFT) % SYM) - GI > 0 THEN ((a - 2 * FFT) % SYM) - GI ELSE 0)
  BY <1>1, Zenon DEF OutputOf, GI, SYM
<1> QED
  BY <1>2, <1>3, Zenon

LEMMA KeptBody ==
    ASSUME NEW a \in Int, NEW q \in Int, NEW r \in 0 .. SYM - 1,
           a - 2 * FFT = SYM * q + r, a - 2 * FFT >= 0
    PROVE  Kept(a) <=> r >= GI
<1>1. a - 2 * FFT \in Int /\ a >= 0 /\ ~(a < 2 * FFT)
  BY SymbolSizes
<1>2. (a - 2 * FFT) % SYM = r
  BY <1>1, SymbolSizes, ModUnique
<1>3. Kept(a) <=> r > GI - 1
  BY <1>1, <1>2, Zenon DEF Kept, GI, SYM
<1> QED
  BY <1>3, SymbolSizes

(* Up to the end of the L-LTF every sample from the frame start on counts.  *)
LEMMA OutputOfHead ==
    ASSUME NEW a \in Int, a - 2 * FFT <= 0
    PROVE  OutputOf(a) = IF a <= 0 THEN 0 ELSE a
<1>1. CASE a <= 0
  <2>1. ~(a > 0)
    BY <1>1
  <2> QED
    BY <1>1, <2>1, Zenon DEF OutputOf
<1>2. CASE ~(a <= 0)
  <2>1. a > 0
    BY <1>2
  <2> QED
    BY <1>2, <2>1, Zenon DEF OutputOf
<1> QED
  BY <1>1, <1>2

LEMMA OutputOfNext ==
    ASSUME NEW a \in Int
    PROVE  OutputOf(a + 1) = OutputOf(a) + (IF Kept(a) THEN 1 ELSE 0)
<1>1. CASE a < 2 * FFT
  <2>1. Kept(a) <=> a >= 0
    BY <1>1 DEF Kept
  <2>2. a - 2 * FFT <= 0 /\ a + 1 \in Int /\ (a + 1) - 2 * FFT <= 0
    BY <1>1, SymbolSizes
  <2>3. /\ OutputOf(a) = IF a <= 0 THEN 0 ELSE a
        /\ OutputOf(a + 1) = IF a + 1 <= 0 THEN 0 ELSE a + 1
    BY <2>2, OutputOfHead, Zenon
  <2> QED
    BY <2>1, <2>3
<1>2. CASE a >= 2 * FFT
  <2>1. a - 2 * FFT \in Int /\ a - 2 * FFT >= 0
    BY <1>2, SymbolSizes
  <2>2. PICK q \in Int, r \in 0 .. SYM - 1 : a - 2 * FFT = SYM * q + r
    BY <2>1, SymbolSizes, DivMod
  <2>3. Kept(a) <=> r >= GI
    BY <2>1, <2>2, KeptBody
  <2>4. FFT * q \in Int /\ r \in Int /\ GI \in Int
    BY SymbolSizes
  <2>5. OutputOf(a) = 2 * FFT + FFT * q + (IF r - GI > 0 THEN r - GI ELSE 0)
    <3>1. CASE a - 2 * FFT > 0
      BY <2>2, <3>1, OutputOfBody, Zenon
    <3>2. CASE a - 2 * FFT = 0
      <4>1. 0 = SYM * 0 + 0 /\ 0 \in 0 .. SYM - 1 /\ SYM \in Nat \ {0}
        BY SymbolSizes
      <4>2. q = 0 /\ r = 0
        <5>1. 0 \div SYM = 0 /\ 0 % SYM = 0
          BY <4>1, ModUnique, DivUnique
        <5> QED
          BY <2>2, <3>2, <4>1, <5>1, ModUnique, DivUnique
      <4>3. OutputOf(a) = IF a <= 0 THEN 0 ELSE a
        BY <3>2, OutputOfHead
      <4>4. FFT * q = 0
        BY <4>2, SymbolSizes
      <4> QED
        BY <3>2, <4>2, <4>3, <4>4, SymbolSizes
    <3> QED
      BY <2>1, <3>1, <3>2
  <2>6. a + 1 \in Int /\ (a + 1) - 2 * FFT > 0 /\ (a + 1) - 2 * FFT = SYM * q + r + 1
    BY <2>1, <2>2, SymbolSizes
  <2>7. CASE r + 1 < SYM
    <3>1. r + 1 \in 0 .. SYM - 1
      BY <2>7, SymbolSizes
    <3>2. (a + 1) - 2 * FFT = SYM * q + (r + 1)
      BY <2>1, <2>2, SymbolSizes
    <3>3. OutputOf(a + 1) = 2 * FFT + FFT * q + (IF (r + 1) - GI > 0 THEN (r + 1) - GI ELSE 0)
      BY <2>6, <3>1, <3>2, OutputOfBody, Zenon
    <3> QED
      BY <2>3, <2>4, <2>5, <3>3, SymbolSizes
  <2>8. CASE r + 1 = SYM
    <3>1. SYM * (q + 1) = SYM * q + SYM /\ FFT * (q + 1) = FFT * q + FFT /\ q + 1 \in Int
      BY SymbolSizes
    <3>2. (a + 1) - 2 * FFT = SYM * (q + 1) + 0 /\ 0 \in 0 .. SYM - 1
      BY <2>1, <2>2, <2>8, <3>1, SymbolSizes
    <3>3. OutputOf(a + 1) = 2 * FFT + FFT * (q + 1) + (IF 0 - GI > 0 THEN 0 - GI ELSE 0)
      BY <2>6, <3>1, <3>2, OutputOfBody, Zenon
    <3> QED
      BY <2>3, <2>4, <2>5, <2>8, <3>1, <3>3, SymbolSizes
  <2> QED
    BY <2>7, <2>8, SymbolSizes
<1> QED
  BY <1>1, <1>2, SymbolSizes

LEMMA OutputOfType ==
    ASSUME NEW a \in Int
    PROVE  OutputOf(a) \in Int
<1>1. CASE a - 2 * FFT <= 0
  BY <1>1, OutputOfHead, SymbolSizes
<1>2. CASE a - 2 * FFT > 0
  <2>1. a - 2 * FFT \in Int /\ FFT \in Int /\ GI \in Int
    BY SymbolSizes
  <2>2. PICK q \in Int, r \in 0 .. SYM - 1 : a - 2 * FFT = SYM * q + r
    BY <2>1, SymbolSizes, DivMod
  <2>3. OutputOf(a) = 2 * FFT + FFT * q + (IF r - GI > 0 THEN r - GI ELSE 0)
    BY <1>2, <2>2, OutputOfBody
  <2>4. FFT * q \in Int /\ r \in Int
    BY <2>1
  <2> QED
    BY <2>1, <2>3, <2>4
<1> QED
  BY <1>1, <1>2, SymbolSizes

(* The copied ones of n samples from distance a on. *)
KeptAmong(a, n) == {k \in 0 .. n - 1 : Kept(a + k)}

LEMMA KeptAmongNext ==
    ASSUME NEW a \in Int, NEW n \in Nat
    PROVE  /\ IsFiniteSet(KeptAmong(a, n)) /\ Cardinality(KeptAmong(a, n)) \in Nat
           /\ Cardinality(KeptAmong(a, n + 1))
                 = Cardinality(KeptAmong(a, n)) + (IF Kept(a + n) THEN 1 ELSE 0)
<1>1. IsFiniteSet(KeptAmong(a, n))
  <2>1. IsFiniteSet(0 .. n - 1)
    BY FS_Interval
  <2>2. KeptAmong(a, n) \subseteq 0 .. n - 1
    BY DEF KeptAmong
  <2> QED
    BY <2>1, <2>2, FS_Subset
<1>2. n \notin KeptAmong(a, n)
  BY DEF KeptAmong
<1>3. CASE Kept(a + n)
  <2>1. KeptAmong(a, n + 1) = KeptAmong(a, n) \cup {n}
    BY <1>3 DEF KeptAmong
  <2> QED
    BY <1>1, <1>2, <1>3, <2>1, FS_AddElement, FS_CardinalityType
<1>4. CASE ~Kept(a + n)
  <2>1. KeptAmong(a, n + 1) = KeptAmong(a, n)
    BY <1>4 DEF KeptAmong
  <2>2. Cardinality(KeptAmong(a, n)) \in Nat
    BY <1>1, FS_CardinalityType
  <2> QED
    BY <1>1, <1>4, <2>1, <2>2
<1> QED
  BY <1>3, <1>4

(* By induction on n, as the absence of a least counterexample.             *)
LEMMA OutputOfKept ==
    ASSUME NEW a \in Int, NEW n \in Nat
    PROVE  OutputOf(a + n) = OutputOf(a) + Cardinality(KeptAmong(a, n))
<1> DEFINE P(i) == OutputOf(a + i) = OutputOf(a) + Cardinality(KeptAmong(a, i))
           S == {i \in Nat : ~P(i)}
<1>1. \A i \in Nat : OutputOf(a + i) \in Int
  <2>1. \A b \in Int : OutputOf(b) \in Int
    BY OutputOfType
  <2> QED
    BY <2>1
<1>2. P(0)
  <2>1. KeptAmong(a, 0) = {} /\ a + 0 = a
    BY DEF KeptAmong
  <2>2. OutputOf(a) \in Int
    BY OutputOfType
  <2> QED
    BY <2>1, <2>2, FS_EmptySet
<1>3. ASSUME NEW i \in Nat, P(i) PROVE P(i + 1)
  <2>1. OutputOf((a + i) + 1) = OutputOf(a + i) + (IF Kept(a + i) THEN 1 ELSE 0)
    BY OutputOfNext
  <2>2. Cardinality(KeptAmong(a, i)) \in Nat
    BY KeptAmongNext
  <2>3. Cardinality(KeptAmong(a, i + 1))
           = Cardinality(KeptAmong(a, i)) + (IF Kept(a + i) THEN 1 ELSE 0)
    BY KeptAmongNext
  <2>4. (a + i) + 1 = a + (i + 1) /\ OutputOf(a) \in Int
    BY OutputOfType
  <2> QED
    BY <1>3, <2>1, <2>2, <2>3, <2>4
<1> HIDE DEF P
<1>4. S = {}
  <2>1. SUFFICES ASSUME S # {} PROVE FALSE
    OBVIOUS
  <2>2. PICK m \in S : \A i \in S : m <= i
    BY <2>1, LeastNat
  <2>3. m \in Nat /\ ~P(m) /\ m # 0
    BY <1>2
  <2>4. m - 1 \in Nat /\ ~(m <= m - 1)
    BY <2>3
  <2>5. P(m - 1)
    BY <2>2, <2>4
  <2>6. P((m - 1) + 1) /\ (m - 1) + 1 = m
    BY <1>3, <2>4, <2>5
  <2> QED
    BY <2>3, <2>6
<1>5. P(n)
  BY <1>4
<1> QED
  BY <1>5 DEF P

LEMMA KeptOfIsKeptAmong ==
    ASSUME NEW n \in Nat, offset \in Nat, frameStart \in Nat
    PROVE  KeptOf(n) = Cardinality(KeptAmong(offset - frameStart, n))
<1>1. ASSUME NEW k \in 0 .. n - 1 PROVE offset + k - frameStart = (offset - frameStart) + k
  OBVIOUS
<1>2. {k \in 0 .. n - 1 : Kept(offset + k - frameStart)} = KeptAmong(offset - frameStart, n)
  BY <1>1 DEF KeptAmong
<1> QED
  BY <1>2 DEF KeptOf

(* No guard interval sample gets out and no sample of a symbol is lost,     *)
(* however general_work's calls cut the frame (sync_long.cc:179-208).       *)
THEOREM LongStripsGuardIntervals == LongSpec => []GuardIntervalsStripped
<1>1. LongInit /\ StreamInit => GuardIntervalsStripped
  BY DEF LongInit, GuardIntervalsStripped
<1>2. LongTypes /\ GuardIntervalsStripped /\ [LongWork \/ Upstream]_longVars
         => GuardIntervalsStripped'
  <2> SUFFICES ASSUME LongTypes, GuardIntervalsStripped, [LongWork \/ Upstream]_longVars
               PROVE  GuardIntervalsStripped'
    OBVIOUS
  <2> USE DEF LongTypes, LongTypeOK
  <2>1. CASE SyncCall
    <3>1. longState' = "COPY" => \E r \in SearchResults :
             count' = 0 /\ offset' = 0 /\ frameStart' = r.start
      BY <2>1 DEF SyncCall
    <3>2. ASSUME NEW r \in SearchResults, longState' = "COPY",
                 count' = 0, offset' = 0, frameStart' = r.start
          PROVE  count' = OutputOf(offset' - frameStart')
      <4>1. r.start \in 0 .. SYNC_LENGTH
        BY SearchResultsType
      <4>2. 0 - r.start \in Int /\ 0 - r.start <= 0 /\ (0 - r.start) - 2 * FFT <= 0
        BY <4>1, LongAssumption
      <4>3. OutputOf(0 - r.start) = 0
        BY <4>2, OutputOfHead
      <4> QED
        BY <3>2, <4>3
    <3> QED
      BY <3>1, <3>2 DEF GuardIntervalsStripped
  <2>2. CASE SyncThrow
    BY <2>2 DEF SyncThrow, GuardIntervalsStripped
  <2>3. CASE CopyCall
    <3>1. PICK n \in 1 .. written - nread :
             offset' = offset + n /\ count' = count + KeptOf(n)
      BY <2>3 DEF CopyCall
    <3>2. longState = "COPY" /\ frameStart' = frameStart
      BY <2>3 DEF CopyCall
    <3>3. n \in Nat /\ offset \in Nat /\ frameStart \in Nat /\ offset - frameStart \in Int
      BY LongAssumption
    <3>4. KeptOf(n) = Cardinality(KeptAmong(offset - frameStart, n))
      BY <3>3, KeptOfIsKeptAmong
    <3>5. OutputOf((offset - frameStart) + n) = OutputOf(offset - frameStart) + KeptOf(n)
      BY <3>3, <3>4, OutputOfKept
    <3>6. (offset - frameStart) + n = offset' - frameStart'
      BY <3>1, <3>2, <3>3
    <3>7. count = OutputOf(offset - frameStart)
      BY <3>2 DEF GuardIntervalsStripped
    <3> QED
      BY <3>1, <3>5, <3>6, <3>7 DEF GuardIntervalsStripped
  <2>4. CASE ResetCall
    BY <2>4 DEF ResetCall, GuardIntervalsStripped
  <2>5. CASE UNCHANGED longOwnVars
    BY <2>5 DEF longOwnVars, GuardIntervalsStripped
  <2> QED
    BY <2>1, <2>2, <2>3, <2>4, <2>5 DEF LongWork, Upstream, longVars
<1> QED
  BY <1>1, <1>2, LongTypeCorrect, PTL DEF LongSpec, LongStart

-----------------------------------------------------------------------------
(* Tags that come too close.  The frame in work starts at a tag, and        *)
(* general_work is as far past it as d_offset says: less than a correlation *)
(* window in SYNC, a whole window more in COPY.  A tag passed over in SYNC  *)
(* lies in that window; COPY passes over none.                              *)

TagsInOrder ==
    /\ \A k \in DOMAIN tags : tags[k] <= written
    /\ \A j, k \in DOMAIN tags : j < k => tags[j] < tags[k]
    /\ tags = <<>> => written = 0
    /\ tags # <<>> => tags[1] = 0

SyncPlace ==
    IF freqShort = 0 THEN nread = 0 /\ offset = 0
                     ELSE nread = tags[freqShort] + offset

CopyPlace ==
    /\ freqShort > 0
    /\ nread = tags[freqShort] + SYNC_LENGTH + offset
    /\ \A k \in DOMAIN tags :
          tags[k] < tags[freqShort] + SYNC_LENGTH \/ nread <= tags[k]
    /\ offset > frameStart => \E k \in DOMAIN longTags : longTags[k].short = freqShort

PlaceInv ==
    /\ TagsInOrder
    /\ freqShort \in 0 .. Len(tags)
    /\ nread <= written
    /\ longState = "SYNC"  => SyncPlace
    /\ longState = "COPY"  => CopyPlace
    /\ longState = "RESET" => freqShort > 0 /\ nread = tags[freqShort]
    /\ ThrowsOnlyOnCloseTags
    /\ AbandonedOnlyOnCloseTags

(* The number of the tag on the sample read next. *)
LEMMA TagOnNext ==
    ASSUME LongTypes, TagsInOrder, NEW k \in DOMAIN tags, tags[k] = nread,
           nread < written
    PROVE  ShortAfterTags = k
<1>1. TagAt(nread)
  BY DEF TagAt
<1>2. ShortAfterTags \in DOMAIN tags /\ tags[ShortAfterTags] = nread
  BY <1>1 DEF ShortAfterTags, TagAt
<1>3. \A j \in DOMAIN tags : j \in Int /\ tags[j] \in Int
  BY DEF LongTypes, StreamTypeOK
<1> QED
  BY <1>2, <1>3 DEF TagsInOrder

LEMMA NoTagOnNext ==
    ASSUME ~TagAt(nread)
    PROVE  ShortAfterTags = freqShort
  BY DEF ShortAfterTags

(* LongTypes, as ground facts. *)
LEMMA LongNumbers ==
    ASSUME LongTypes
    PROVE  /\ FFT \in Nat /\ FFT > 0 /\ SYNC_LENGTH \in Nat /\ SYNC_LENGTH >= FFT
           /\ offset \in Nat /\ frameStart \in 0 .. SYNC_LENGTH /\ nread \in Nat
           /\ written \in Nat /\ tags \in Seq(Nat) /\ longTags \in Seq(LongTag)
           /\ Len(tags) \in Nat /\ DOMAIN tags = 1 .. Len(tags)
           /\ \A k \in 1 .. Len(tags) : tags[k] \in Nat
           /\ longState = "SYNC" => offset < SYNC_LENGTH
  BY LongAssumption DEF LongTypes, LongTypeOK, StreamTypeOK

(* SYNC: the window starts at the newest tag read, and no output is left    *)
(* behind.                                                                  *)
LEMMA SyncCallPlace ==
    ASSUME LongTypes, PlaceInv, SyncCall
    PROVE  PlaceInv'
<1>1. /\ FFT \in Nat /\ FFT > 0 /\ SYNC_LENGTH \in Nat
      /\ offset \in Nat /\ nread \in Nat /\ written \in Nat /\ offset < SYNC_LENGTH
      /\ Len(tags) \in Nat /\ DOMAIN tags = 1 .. Len(tags)
      /\ \A k \in 1 .. Len(tags) : tags[k] \in Nat
  BY LongNumbers DEF SyncCall
<1>2. /\ UNCHANGED <<tags, written, longTags>> /\ freqShort' = ShortAfterTags
      /\ longState = "SYNC" /\ (TagAt(nread) => offset = 0)
  BY DEF SyncCall, streamVars
<1>3. \E m \in 1 .. written - nread :
          /\ nread' = nread + m
          /\ \/ m < SYNC_LENGTH - offset /\ offset' = offset + m /\ longState' = longState
             \/ /\ m = SYNC_LENGTH - offset /\ offset' = 0 /\ longState' = "COPY"
                /\ \E r \in SearchResults : frameStart' = r.start
  <2>1. PICK n \in FFT .. written - nread :
          LET left == SYNC_LENGTH - offset
              m    == IF n - (FFT - 1) < left THEN n - (FFT - 1) ELSE left
          IN  /\ nread' = nread + m
              /\ \/ m < left /\ offset' = offset + m /\ longState' = longState
                 \/ /\ m = left /\ offset' = 0 /\ longState' = "COPY"
                    /\ \E r \in SearchResults : frameStart' = r.start
    BY DEF SyncCall
  <2> DEFINE m == IF n - (FFT - 1) < SYNC_LENGTH - offset
                  THEN n - (FFT - 1) ELSE SYNC_LENGTH - offset
  <2>2. m \in 1 .. written - nread
    BY <1>1
  <2> HIDE DEF m
  <2>3. /\ nread' = nread + m
        /\ \/ m < SYNC_LENGTH - offset /\ offset' = offset + m /\ longState' = longState
           \/ /\ m = SYNC_LENGTH - offset /\ offset' = 0 /\ longState' = "COPY"
              /\ \E r \in SearchResults : frameStart' = r.start
    BY <2>1, Zenon DEF m
  <2> QED
    BY <2>2, <2>3
<1>4. PICK m \in 1 .. written - nread :
          /\ nread' = nread + m
          /\ \/ m < SYNC_LENGTH - offset /\ offset' = offset + m /\ longState' = longState
             \/ /\ m = SYNC_LENGTH - offset /\ offset' = 0 /\ longState' = "COPY"
                /\ \E r \in SearchResults : frameStart' = r.start
  BY <1>3
<1>5. TagsInOrder /\ SyncPlace /\ freqShort \in 0 .. Len(tags) /\ AbandonedOnlyOnCloseTags
  BY <1>2 DEF PlaceInv
<1>6. /\ ShortAfterTags \in 1 .. Len(tags) /\ nread = tags[ShortAfterTags] + offset
      /\ ShortAfterTags = freqShort \/ ShortAfterTags = 1
  <2>1. CASE freqShort = 0
    <3>1. nread = 0 /\ offset = 0 /\ written # 0 /\ nread < written
      BY <1>1, <1>5, <2>1 DEF SyncPlace
    <3>2. 1 \in DOMAIN tags /\ tags[1] = 0
      BY <1>1, <1>5, <3>1 DEF TagsInOrder
    <3>3. ShortAfterTags = 1
      BY <1>5, <3>1, <3>2, TagOnNext
    <3> QED
      BY <1>1, <3>1, <3>2, <3>3
  <2>2. CASE freqShort # 0
    <3>1. freqShort \in 1 .. Len(tags) /\ nread = tags[freqShort] + offset /\ nread < written
      BY <1>1, <1>5, <2>2 DEF SyncPlace
    <3>2. CASE TagAt(nread)
      <4>1. tags[freqShort] = nread
        BY <1>1, <1>2, <3>1, <3>2
      <4>2. ShortAfterTags = freqShort
        BY <1>1, <1>5, <3>1, <4>1, TagOnNext
      <4> QED
        BY <3>1, <4>2
    <3>3. CASE ~TagAt(nread)
      BY <3>1, <3>3, NoTagOnNext
    <3> QED
      BY <3>2, <3>3
  <2> QED
    BY <2>1, <2>2
<1>7. TagsInOrder' /\ nread' <= written' /\ freqShort' \in 0 .. Len(tags')
  <2>1. TagsInOrder'
    BY <1>2, <1>5 DEF TagsInOrder
  <2> QED
    BY <1>1, <1>2, <1>4, <1>6, <2>1
<1>8. AbandonedOnlyOnCloseTags'
  <2>1. CASE ShortAfterTags = 1
    BY <1>2, <2>1 DEF AbandonedOnlyOnCloseTags
  <2>2. CASE ShortAfterTags = freqShort
    BY <1>2, <1>5, <2>2 DEF AbandonedOnlyOnCloseTags
  <2> QED
    BY <1>6, <2>1, <2>2
<1>9. CASE m < SYNC_LENGTH - offset /\ offset' = offset + m /\ longState' = longState
  <2>1. nread' = tags'[freqShort'] + offset' /\ freqShort' # 0
    <3>1. /\ nread' = nread + m /\ offset' = offset + m
          /\ nread = tags[ShortAfterTags] + offset /\ m \in Nat
          /\ ShortAfterTags # 0 /\ tags[ShortAfterTags] \in Nat
      BY <1>1, <1>4, <1>6, <1>9
    <3>2. offset \in Nat
      BY <1>1
    <3>3. nread' = tags[ShortAfterTags] + offset'
      BY <3>1, <3>2
    <3> QED
      BY <1>2, <3>1, <3>3, Zenon
  <2>2. SyncPlace'
    BY <2>1, Zenon DEF SyncPlace
  <2> QED
    BY <1>2, <1>7, <1>8, <1>9, <2>2, Zenon DEF PlaceInv, ThrowsOnlyOnCloseTags
<1>10. CASE /\ m = SYNC_LENGTH - offset /\ offset' = 0 /\ longState' = "COPY"
            /\ \E r \in SearchResults : frameStart' = r.start
  <2> DEFINE c == ShortAfterTags
  <2>1. c \in Nat /\ c > 0 /\ tags[c] \in Nat /\ m \in Nat
    BY <1>1, <1>6
  <2>2. nread' = nread + m /\ m = SYNC_LENGTH - offset /\ nread = tags[c] + offset
    BY <1>4, <1>6, <1>10
  <2> HIDE DEF c
  <2>3. nread' = tags[c] + SYNC_LENGTH /\ nread' = tags[c] + SYNC_LENGTH + 0
    <3>1. offset \in Nat /\ SYNC_LENGTH \in Nat
      BY <1>1
    <3> QED
      BY <2>1, <2>2, <3>1
  <2>4. \A k \in DOMAIN tags : tags[k] < tags[c] + SYNC_LENGTH \/ nread' <= tags[k]
    BY <1>1, <2>1, <2>3
  <2>5. ~(offset' > frameStart')
    BY <1>10, SearchResultsType
  <2>6. freqShort' = c /\ tags' = tags /\ offset' = 0
    BY <1>2, <1>10 DEF c
  <2>7. CopyPlace'
    BY <2>1, <2>3, <2>4, <2>5, <2>6, Zenon DEF CopyPlace
  <2> QED
    BY <1>7, <1>8, <1>10, <2>7, Zenon DEF PlaceInv, ThrowsOnlyOnCloseTags
<1> QED
  BY <1>4, <1>9, <1>10

(* COPY: it stops short of the next tag, and the frame's tag is out once    *)
(* the frame start has gone by.                                             *)
LEMMA CopyCallPlace ==
    ASSUME LongTypes, PlaceInv, CopyCall
    PROVE  PlaceInv'
<1>1. /\ SYNC_LENGTH \in Nat /\ offset \in Nat /\ nread \in Nat /\ written \in Nat
      /\ frameStart \in Nat /\ longTags \in Seq(LongTag)
      /\ DOMAIN tags = 1 .. Len(tags) /\ \A k \in 1 .. Len(tags) : tags[k] \in Nat
  BY LongNumbers
<1>2. PICK n \in 1 .. written - nread :
          /\ Window(n) /\ nread' = nread + n /\ offset' = offset + n
          /\ longTags' = IF frameStart \in offset .. offset + n - 1
                         THEN Append(longTags, [at |-> produced, start |-> frameStart,
                                                short |-> freqShort, long |-> freqLong])
                         ELSE longTags
  BY DEF CopyCall
<1>3. /\ longState = "COPY" /\ ~TagAt(nread) /\ longState' = longState
      /\ frameStart' = frameStart /\ freqShort' = freqShort
      /\ tags' = tags /\ written' = written
  BY DEF CopyCall, streamVars
<1>4. /\ TagsInOrder /\ CopyPlace /\ freqShort \in 1 .. Len(tags)
      /\ AbandonedOnlyOnCloseTags
  BY <1>3 DEF PlaceInv, CopyPlace
<1>5. n \in Nat /\ n > 0 /\ nread + n <= written
  BY <1>1
<1>6. \A k \in 1 .. Len(tags) : tags[k] < tags[freqShort] + SYNC_LENGTH \/ nread' <= tags[k]
  <2> SUFFICES ASSUME NEW k \in 1 .. Len(tags), ~(tags[k] < tags[freqShort] + SYNC_LENGTH)
               PROVE  nread' <= tags[k]
    OBVIOUS
  <2>1. nread <= tags[k]
    BY <1>1, <1>4 DEF CopyPlace
  <2>2. tags[k] # nread
    BY <1>1, <1>3 DEF TagAt
  <2>3. tags[k] <= nread \/ nread + n <= tags[k]
    BY <1>1, <1>2, <1>3 DEF Window
  <2> QED
    BY <1>1, <1>2, <2>1, <2>2, <2>3
<1>7. \A k \in DOMAIN longTags : k \in DOMAIN longTags' /\ longTags'[k] = longTags[k]
  BY <1>1, <1>2
<1>8. offset' > frameStart => \E k \in DOMAIN longTags' : longTags'[k].short = freqShort
  <2>1. CASE offset > frameStart
    BY <1>4, <1>7, <2>1 DEF CopyPlace
  <2>2. CASE ~(offset > frameStart) /\ offset' > frameStart
    <3>1. frameStart \in offset .. offset + n - 1
      BY <1>1, <1>2, <1>5, <2>2
    <3>2. longTags' = Append(longTags, [at |-> produced, start |-> frameStart,
                                        short |-> freqShort, long |-> freqLong])
      BY <1>2, <3>1
    <3>3. /\ Len(longTags) + 1 \in DOMAIN longTags'
          /\ longTags'[Len(longTags) + 1].short = freqShort
      BY <1>1, <3>2
    <3> QED
      BY <3>3
  <2> QED
    BY <2>1, <2>2
<1>9. nread' = tags[freqShort] + SYNC_LENGTH + offset'
  <2>1. tags[freqShort] \in Nat /\ nread = tags[freqShort] + SYNC_LENGTH + offset
    BY <1>1, <1>4 DEF CopyPlace
  <2>2. nread' = nread + n /\ offset' = offset + n /\ SYNC_LENGTH \in Nat /\ offset \in Nat
    BY <1>1, <1>2
  <2> QED
    BY <1>5, <2>1, <2>2
<1>10. CopyPlace'
  <2>1. freqShort > 0
    BY <1>4 DEF CopyPlace
  <2> QED
    BY <1>1, <1>3, <1>6, <1>8, <1>9, <2>1, Zenon DEF CopyPlace
<1>11. TagsInOrder'
  BY <1>3, <1>4 DEF TagsInOrder
<1>12. AbandonedOnlyOnCloseTags'
  BY <1>3, <1>4, <1>7, Zenon DEF AbandonedOnlyOnCloseTags
<1>13. nread' <= written' /\ freqShort' \in 0 .. Len(tags')
  BY <1>2, <1>3, <1>4, <1>5
<1> QED
  BY <1>3, <1>10, <1>11, <1>12, <1>13 DEF PlaceInv, ThrowsOnlyOnCloseTags

(* RESET: the frame in work is left behind for the one whose tag is next,   *)
(* and with it every frame whose tag was passed over.                       *)
LEMMA ResetCallPlace ==
    ASSUME LongTypes, PlaceInv, ResetCall
    PROVE  PlaceInv'
<1>1. /\ SYNC_LENGTH \in Nat /\ SYNC_LENGTH > 0 /\ offset \in Nat /\ nread \in Nat
      /\ frameStart \in 0 .. SYNC_LENGTH
      /\ Len(tags) \in Nat /\ DOMAIN tags = 1 .. Len(tags)
      /\ \A k \in 1 .. Len(tags) : tags[k] \in Nat
  BY LongNumbers
<1>2. /\ longState = "RESET" \/ (longState = "COPY" /\ TagAt(nread))
      /\ nread < written /\ freqShort' = ShortAfterTags
      /\ UNCHANGED <<frameStart, nread, longTags, tags, written>>
      /\ (longState' = "SYNC" /\ offset' = 0) \/ longState' = "RESET"
  BY DEF ResetCall, streamVars
<1>3. TagsInOrder /\ AbandonedOnlyOnCloseTags /\ freqShort \in 0 .. Len(tags)
  BY DEF PlaceInv
<1> DEFINE d == ShortAfterTags
           c == freqShort
<1>4. d \in 1 .. Len(tags) /\ tags[d] = nread
  <2>1. CASE longState = "RESET"
    <3>1. c \in 1 .. Len(tags) /\ tags[c] = nread
      BY <1>1, <2>1 DEF PlaceInv
    <3> QED
      BY <1>1, <1>2, <1>3, <3>1, TagOnNext
  <2>2. CASE TagAt(nread)
    <3>1. PICK k \in DOMAIN tags : tags[k] = nread
      BY <2>2 DEF TagAt
    <3> QED
      BY <1>1, <1>2, <1>3, <3>1, TagOnNext
  <2> QED
    BY <1>2, <2>1, <2>2
<1>5. AbandonedOnlyOnCloseTags'
  <2>1. CASE longState = "RESET"
    <3>1. c \in 1 .. Len(tags) /\ tags[c] = nread
      BY <1>1, <2>1 DEF PlaceInv
    <3>2. d = c
      BY <1>1, <1>2, <1>3, <3>1, TagOnNext
    <3> QED
      BY <1>2, <1>3, <3>2 DEF AbandonedOnlyOnCloseTags
  <2>2. CASE longState = "COPY"
    <3>1. /\ c \in 1 .. Len(tags) /\ nread = tags[c] + SYNC_LENGTH + offset
          /\ \A k \in 1 .. Len(tags) :
                tags[k] < tags[c] + SYNC_LENGTH \/ nread <= tags[k]
          /\ offset > frameStart => \E k \in DOMAIN longTags : longTags[k].short = c
      BY <1>1, <2>2 DEF PlaceInv, CopyPlace
    <3> HIDE DEF d
    <3>2. ASSUME NEW j \in 1 .. d - 1
          PROVE  \/ \E k \in DOMAIN longTags : longTags[k].short = j
                 \/ j > 1 /\ tags[j] - tags[j - 1] < SYNC_LENGTH
                 \/ tags[j + 1] - tags[j] <= 2 * SYNC_LENGTH
      <4>1. j \in 1 .. Len(tags) /\ j + 1 \in 1 .. Len(tags) /\ j < d /\ j + 1 <= d
        BY <1>1, <1>4
      <4>2. tags[j] \in Nat /\ tags[j + 1] \in Nat /\ tags[c] \in Nat
        BY <1>1, <3>1, <4>1
      <4>3. tags[j] < nread /\ tags[j + 1] <= nread
        <5>1. tags[j] < tags[d]
          BY <1>1, <1>3, <1>4, <4>1 DEF TagsInOrder
        <5>2. j + 1 < d => tags[j + 1] < tags[d]
          BY <1>1, <1>3, <1>4, <4>1 DEF TagsInOrder
        <5> QED
          BY <1>1, <1>4, <4>1, <4>2, <5>1, <5>2
      <4>4. CASE j < c
        <5>1. j \in 1 .. c - 1
          BY <3>1, <4>4
        <5> QED
          BY <1>3, <5>1 DEF AbandonedOnlyOnCloseTags
      <4>5. CASE j = c /\ offset > frameStart
        BY <3>1, <4>5
      <4>6. CASE j = c /\ ~(offset > frameStart)
        <5>1. tags[j + 1] <= tags[j] + SYNC_LENGTH + offset /\ offset <= SYNC_LENGTH
          BY <1>1, <3>1, <4>3, <4>6
        <5> QED
          BY <1>1, <4>2, <5>1
      <4>7. CASE j > c
        <5>1. j - 1 \in 1 .. Len(tags) /\ c <= j - 1 /\ j > 1
          BY <3>1, <4>1, <4>7
        <5>2. tags[j] < tags[c] + SYNC_LENGTH
          BY <1>1, <3>1, <4>1, <4>2, <4>3
        <5>3. tags[c] <= tags[j - 1] /\ tags[j - 1] \in Nat
          <6>1. c < j - 1 => tags[c] < tags[j - 1]
            BY <1>1, <1>3, <3>1, <5>1 DEF TagsInOrder
          <6> QED
            BY <1>1, <3>1, <4>2, <5>1, <6>1
        <5> QED
          BY <1>1, <4>2, <5>1, <5>2, <5>3
      <4> QED
        BY <3>1, <4>4, <4>5, <4>6, <4>7
    <3>3. freqShort' = d
      BY <1>2 DEF d
    <3> QED
      BY <1>2, <3>2, <3>3, Zenon DEF AbandonedOnlyOnCloseTags
  <2> QED
    BY <1>2, <2>1, <2>2
<1> HIDE DEF d
<1>6. freqShort' = d /\ d > 0
  BY <1>2, <1>4 DEF d
<1>7. TagsInOrder' /\ nread' <= written' /\ freqShort' \in 0 .. Len(tags')
  <2>1. TagsInOrder'
    BY <1>2, <1>3 DEF TagsInOrder
  <2>2. nread <= written
    BY DEF PlaceInv
  <2> QED
    BY <1>2, <1>4, <1>6, <2>1, <2>2
<1>8. longState' = "SYNC" => SyncPlace'
  <2>1. ASSUME offset' = 0 PROVE nread' = tags'[freqShort'] + offset'
    BY <1>1, <1>2, <1>4, <1>6, <2>1
  <2> QED
    BY <1>2, <1>6, <2>1 DEF SyncPlace
<1>9. longState' = "RESET" => freqShort' > 0 /\ nread' = tags'[freqShort']
  BY <1>2, <1>4, <1>6
<1> QED
  BY <1>2, <1>5, <1>7, <1>8, <1>9 DEF PlaceInv, ThrowsOnlyOnCloseTags

(* SYNC throws at a tag less than a correlation window after another.       *)
LEMMA SyncThrowPlace ==
    ASSUME LongTypes, PlaceInv, SyncThrow
    PROVE  PlaceInv'
<1>1. /\ offset \in Nat /\ offset < SYNC_LENGTH /\ SYNC_LENGTH \in Nat /\ Len(tags) \in Nat
      /\ DOMAIN tags = 1 .. Len(tags) /\ \A k \in 1 .. Len(tags) : tags[k] \in Nat
  BY LongNumbers DEF SyncThrow
<1>2. /\ longState = "SYNC" /\ TagAt(nread) /\ offset # 0 /\ longState' = "THROWN"
      /\ UNCHANGED <<freqShort, nread, longTags, tags, written>>
  BY DEF SyncThrow, streamVars
<1>3. /\ TagsInOrder /\ SyncPlace /\ freqShort \in 0 .. Len(tags) /\ nread <= written
      /\ AbandonedOnlyOnCloseTags
  BY <1>2 DEF PlaceInv
<1>4. freqShort \in 1 .. Len(tags) /\ nread = tags[freqShort] + offset
  BY <1>2, <1>3 DEF SyncPlace
<1>5. PICK k \in 1 .. Len(tags) : tags[k] = nread
  BY <1>1, <1>2 DEF TagAt
<1>6. tags[freqShort] \in Nat /\ tags[k] \in Nat /\ tags[freqShort] < tags[k]
  BY <1>1, <1>2, <1>4, <1>5
<1>7. freqShort < k
  <2>1. k < freqShort => tags[k] < tags[freqShort]
    BY <1>1, <1>3, <1>4 DEF TagsInOrder
  <2> QED
    BY <1>4, <1>6, <2>1
<1>8. /\ freqShort \in 1 .. Len(tags) - 1 /\ freqShort + 1 \in 1 .. Len(tags)
      /\ freqShort + 1 <= k
  BY <1>1, <1>4, <1>7
<1>9. tags[freqShort + 1] - tags[freqShort] < SYNC_LENGTH
  <2>1. freqShort + 1 < k => tags[freqShort + 1] < tags[k]
    BY <1>1, <1>3, <1>8 DEF TagsInOrder
  <2>2. tags[freqShort + 1] \in Nat /\ tags[freqShort + 1] <= tags[k]
    BY <1>1, <1>6, <1>8, <2>1
  <2> QED
    BY <1>1, <1>4, <1>5, <1>6, <2>2
<1>10. TagsInOrder' /\ AbandonedOnlyOnCloseTags'
  BY <1>2, <1>3 DEF TagsInOrder, AbandonedOnlyOnCloseTags
<1>11. ThrowsOnlyOnCloseTags'
  BY <1>2, <1>8, <1>9 DEF ThrowsOnlyOnCloseTags
<1> QED
  BY <1>2, <1>3, <1>10, <1>11 DEF PlaceInv

(* Any upstream block: tags of later samples, in order.                     *)
LEMMA UpstreamPlace ==
    ASSUME LongTypes, PlaceInv, Upstream
    PROVE  PlaceInv'
<1>1. /\ SYNC_LENGTH \in Nat /\ nread \in Nat /\ written \in Nat /\ Len(tags) \in Nat
      /\ tags \in Seq(Nat) /\ DOMAIN tags = 1 .. Len(tags)
      /\ \A k \in 1 .. Len(tags) : tags[k] \in Nat
  BY LongNumbers
<1>2. /\ UNCHANGED <<longState, offset, frameStart, freqShort, nread, longTags>>
      /\ UpstreamTag \/ UpstreamSample
  BY DEF Upstream, longOwnVars
<1>3. /\ TagsInOrder /\ freqShort \in 0 .. Len(tags) /\ nread <= written
      /\ ThrowsOnlyOnCloseTags /\ AbandonedOnlyOnCloseTags
  BY DEF PlaceInv
<1>4. /\ Len(tags') \in Nat /\ Len(tags) <= Len(tags') /\ DOMAIN tags' = 1 .. Len(tags')
      /\ \A k \in 1 .. Len(tags) : tags'[k] = tags[k]
      /\ \A k \in 1 .. Len(tags') : k \in 1 .. Len(tags) \/ tags'[k] >= nread
      /\ TagsInOrder' /\ nread <= written'
  <2>1. CASE UpstreamTag
    <3>1. tags' = Append(tags, written) /\ written' = written /\ ~TagAt(written)
      BY <2>1 DEF UpstreamTag, AddTag
    <3>2. /\ Len(tags') = Len(tags) + 1 /\ DOMAIN tags' = 1 .. Len(tags) + 1
          /\ \A k \in 1 .. Len(tags) : tags'[k] = tags[k]
          /\ tags'[Len(tags) + 1] = written
      BY <1>1, <3>1
    <3>3. \A k \in 1 .. Len(tags) : tags[k] < written
      BY <1>1, <1>3, <3>1 DEF TagsInOrder, TagAt
    <3>4. \A k \in 1 .. Len(tags) + 1 : k \in 1 .. Len(tags) \/ k = Len(tags) + 1
      BY <1>1
    <3>5. \A k \in DOMAIN tags' : tags'[k] <= written'
      BY <1>1, <3>1, <3>2, <3>3, <3>4
    <3>6. \A j, k \in DOMAIN tags' : j < k => tags'[j] < tags'[k]
      <4> SUFFICES ASSUME NEW j \in DOMAIN tags', NEW k \in DOMAIN tags', j < k
                   PROVE  tags'[j] < tags'[k]
        OBVIOUS
      <4>1. j \in 1 .. Len(tags)
        BY <1>1, <3>2
      <4>2. CASE k \in 1 .. Len(tags)
        BY <1>1, <1>3, <3>2, <4>1, <4>2 DEF TagsInOrder
      <4>3. CASE k = Len(tags) + 1
        BY <3>2, <3>3, <4>1, <4>3
      <4> QED
        BY <3>2, <3>4, <4>2, <4>3
    <3>7. tags' # <<>> /\ tags'[1] = 0
      <4>1. CASE tags = <<>>
        BY <1>1, <1>3, <3>2, <4>1 DEF TagsInOrder
      <4>2. CASE tags # <<>>
        BY <1>1, <1>3, <3>2, <4>2 DEF TagsInOrder
      <4> QED
        BY <4>1, <4>2
    <3> QED
      BY <1>1, <1>3, <3>1, <3>2, <3>4, <3>5, <3>6, <3>7 DEF TagsInOrder
  <2>2. CASE UpstreamSample
    <3>1. tags' = tags /\ tags # <<>> /\ written' = written + 1
      BY <2>2 DEF UpstreamSample
    <3>2. TagsInOrder'
      BY <1>1, <1>3, <3>1 DEF TagsInOrder
    <3> QED
      BY <1>1, <1>3, <3>1, <3>2
  <2> QED
    BY <1>2, <2>1, <2>2
<1>5. longState' = "SYNC" => SyncPlace'
  BY <1>2, <1>3, <1>4 DEF PlaceInv, SyncPlace
<1>6. longState' = "COPY" => CopyPlace'
  <2> SUFFICES ASSUME longState' = "COPY" PROVE CopyPlace'
    OBVIOUS
  <2>1. CopyPlace /\ freqShort \in 1 .. Len(tags) /\ tags'[freqShort] = tags[freqShort]
    BY <1>2, <1>3, <1>4 DEF PlaceInv, CopyPlace
  <2>2. \A k \in DOMAIN tags' :
           tags'[k] < tags[freqShort] + SYNC_LENGTH \/ nread <= tags'[k]
    <3> SUFFICES ASSUME NEW k \in 1 .. Len(tags')
                 PROVE  tags'[k] < tags[freqShort] + SYNC_LENGTH \/ nread <= tags'[k]
      BY <1>4
    <3>1. CASE k \in 1 .. Len(tags)
      BY <1>1, <1>4, <2>1, <3>1 DEF CopyPlace
    <3>2. CASE tags'[k] >= nread
      BY <3>2
    <3> QED
      BY <1>4, <3>1, <3>2
  <2> QED
    BY <1>2, <2>1, <2>2, Zenon DEF CopyPlace
<1>7. longState' = "RESET" => freqShort' > 0 /\ nread' = tags'[freqShort']
  BY <1>2, <1>3, <1>4 DEF PlaceInv
<1>8. ThrowsOnlyOnCloseTags'
  <2> SUFFICES ASSUME longState' = "THROWN"
               PROVE  \E k \in 1 .. Len(tags') - 1 : tags'[k + 1] - tags'[k] < SYNC_LENGTH
    BY DEF ThrowsOnlyOnCloseTags
  <2>1. PICK k \in 1 .. Len(tags) - 1 : tags[k + 1] - tags[k] < SYNC_LENGTH
    BY <1>2, <1>3 DEF ThrowsOnlyOnCloseTags
  <2>2. k \in 1 .. Len(tags) /\ k + 1 \in 1 .. Len(tags) /\ k \in 1 .. Len(tags') - 1
    BY <1>1, <1>4
  <2>3. tags'[k + 1] = tags[k + 1] /\ tags'[k] = tags[k]
    BY <1>4, <2>2
  <2> QED
    BY <2>1, <2>2, <2>3
<1>9. AbandonedOnlyOnCloseTags'
  <2>1. ASSUME NEW j \in 1 .. freqShort - 1
        PROVE  /\ tags'[j] = tags[j] /\ tags'[j + 1] = tags[j + 1]
               /\ j > 1 => tags'[j - 1] = tags[j - 1]
    <3>1. /\ j \in 1 .. Len(tags) /\ j + 1 \in 1 .. Len(tags)
          /\ j > 1 => j - 1 \in 1 .. Len(tags)
      BY <1>1, <1>3
    <3> QED
      BY <1>4, <3>1
  <2> QED
    BY <1>2, <1>3, <2>1 DEF AbandonedOnlyOnCloseTags
<1> QED
  BY <1>2, <1>3, <1>4, <1>5, <1>6, <1>7, <1>8, <1>9 DEF PlaceInv

LEMMA LongPlaceInv == LongSpec => []PlaceInv
<1>1. LongInit /\ StreamInit => PlaceInv
  BY DEF LongInit, StreamInit, PlaceInv, TagsInOrder, SyncPlace,
         ThrowsOnlyOnCloseTags, AbandonedOnlyOnCloseTags
<1>2. LongTypes /\ PlaceInv /\ [LongWork \/ Upstream]_longVars => PlaceInv'
  <2> SUFFICES ASSUME LongTypes, PlaceInv, [LongWork \/ Upstream]_longVars
               PROVE  PlaceInv'
    OBVIOUS
  <2>1. CASE LongWork
    BY <2>1, SyncCallPlace, SyncThrowPlace, CopyCallPlace, ResetCallPlace DEF LongWork
  <2>2. CASE Upstream
    BY <2>2, UpstreamPlace
  <2>3. CASE UNCHANGED longVars
    BY <2>3 DEF longVars, longOwnVars, streamVars, PlaceInv, TagsInOrder, SyncPlace,
                CopyPlace, ThrowsOnlyOnCloseTags, AbandonedOnlyOnCloseTags
  <2> QED
    BY <2>1, <2>2, <2>3
<1> QED
  BY <1>1, <1>2, LongTypeCorrect, PTL DEF LongSpec, LongStart

(* general_work throws only if two consecutive tags are closer than a       *)
(* correlation window (sync_long.cc:104-109), whatever comes before it.     *)
THEOREM LongThrowsOnCloseTags == LongSpec => []ThrowsOnlyOnCloseTags
<1>1. PlaceInv => ThrowsOnlyOnCloseTags
  BY DEF PlaceInv
<1> QED
  BY <1>1, LongPlaceInv, PTL

(* A frame is left behind without an output tag only if another tag came    *)
(* within a correlation window before it, or within two behind it, before   *)
(* its frame start was reached.                                             *)
THEOREM LongAbandonsOnCloseTags == LongSpec => []AbandonedOnlyOnCloseTags
<1>1. PlaceInv => AbandonedOnlyOnCloseTags
  BY DEF PlaceInv
<1> QED
  BY <1>1, LongPlaceInv, PTL
=============================================================================
