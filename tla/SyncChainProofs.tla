-------------------------- MODULE SyncChainProofs ---------------------------
(***************************************************************************)
(* The two synchronisers together, for every plateau length, gap, window   *)
(* and FFT length with MIN_GAP >= 2 * SYNC_LENGTH: sync_short spaces its   *)
(* tags, so sync_long never throws, drops no frame, and announces frames   *)
(* in the order of their detection with their own coarse offset.           *)
(***************************************************************************)
EXTENDS SyncChain, SyncLongProofs

ShortSafe == ShortTypeOK /\ ShortInv

LEMMA ShortWorkSafe ==
    ASSUME ShortSafe, ShortWork
    PROVE  ShortSafe'
<1> USE ShortAssumption DEF ShortSafe, ShortTypeOK, StreamTypeOK
<1>1. ASSUME NEW above \in BOOLEAN, SearchSample(above)
      PROVE  ShortSafe'
  BY <1>1 DEF SearchSample, ShortInv, streamVars
<1>2. ASSUME NEW above \in BOOLEAN, CopySample(above)
      PROVE  ShortSafe'
  <2>1. ShortTypeOK'
    BY <1>2, SMTT(60) DEF CopySample
  <2>2. ShortInv'
    BY <1>2, SMTT(60) DEF CopySample, ShortInv
  <2> QED
    BY <2>1, <2>2
<1>3. ASSUME SearchTrigger \/ CopyRetrigger
      PROVE  ShortSafe'
  <2>1. /\ tags' = Append(tags, written)
        /\ written' = written /\ copied' = 0 /\ plateau' = 0
        /\ shortState' = "COPY"
    BY <1>3 DEF SearchTrigger, CopyRetrigger, AddTag
  <2>2. tags # <<>> => copied > MIN_GAP
    BY <1>3 DEF SearchTrigger, CopyRetrigger, ShortInv
  <2>3. \A k \in DOMAIN tags : tags[k] + MIN_GAP + 1 <= written
    BY <2>2 DEF ShortInv
  <2>4. ShortTypeOK'
    BY <2>1
  <2>5. /\ DOMAIN tags' = 1 .. Len(tags) + 1
        /\ DOMAIN tags = 1 .. Len(tags)
        /\ \A k \in DOMAIN tags : tags'[k] = tags[k] /\ tags[k] \in Nat
        /\ tags'[Len(tags) + 1] = written
        /\ Len(tags) \in Nat
    BY <2>1
  <2>6. ShortInv'
    <3>1. tags' # <<>> /\ tags'[1] = 0
      <4>1. CASE tags = <<>>
        BY <2>1, <4>1 DEF ShortInv
      <4>2. CASE tags # <<>>
        BY <2>1, <2>5, <4>2 DEF ShortInv
      <4> QED
        BY <4>1, <4>2
    <3>2. \A k \in DOMAIN tags' : tags'[k] + copied' <= written'
      BY <2>1, <2>3, <2>5
    <3>3. \A j, k \in DOMAIN tags' : j < k => tags'[j] + MIN_GAP + 1 <= tags'[k]
      <4>1. ASSUME NEW j \in DOMAIN tags', NEW k \in DOMAIN tags', j < k
            PROVE  tags'[j] + MIN_GAP + 1 <= tags'[k]
        <5>1. j \in DOMAIN tags
          BY <2>5, <4>1
        <5>2. CASE k \in DOMAIN tags
          BY <2>5, <4>1, <5>1, <5>2 DEF ShortInv
        <5>3. CASE k = Len(tags) + 1
          BY <2>3, <2>5, <5>1, <5>3
        <5> QED
          BY <2>5, <5>2, <5>3
      <4> QED
        BY <4>1
    <3> QED
      BY <2>1, <3>1, <3>2, <3>3 DEF ShortInv
  <2> QED
    BY <2>4, <2>6
<1> QED
  BY <1>1, <1>2, <1>3 DEF ShortWork

LEMMA LongWorkLeavesStream ==
    ASSUME LongWork
    PROVE  UNCHANGED streamVars
BY DEF LongWork, SyncCall, SyncThrow, CopyCall, ResetCall, streamVars

(* sync_short's part of the invariant holds in the chain: it is the only    *)
(* writer of the stream.                                                    *)
THEOREM ShortInvariant == Spec => []ShortSafe
<1>1. Init => ShortSafe
  BY ShortAssumption DEF Init, ShortInit, StreamInit, ShortSafe, ShortTypeOK,
                         StreamTypeOK, ShortInv
<1>2. ShortSafe /\ [Next]_vars => ShortSafe'
  <2> SUFFICES ASSUME ShortSafe, [Next]_vars PROVE ShortSafe'
    OBVIOUS
  <2>1. CASE ShortStep
    BY <2>1, ShortWorkSafe DEF ShortStep
  <2>2. CASE LongStep \/ UNCHANGED vars
    <3>1. UNCHANGED <<shortOwnVars, streamVars>>
      BY <2>2, LongWorkLeavesStream DEF LongStep, vars
    <3> QED
      BY <3>1 DEF ShortSafe, ShortTypeOK, StreamTypeOK, ShortInv, shortOwnVars,
                  streamVars
  <2> QED
    BY <2>1, <2>2 DEF Next
<1> QED
  BY <1>1, <1>2, PTL DEF Spec

(* Consecutive wifi_start tags of sync_short are more than MIN_GAP samples  *)
(* apart, for every pattern of plateaus.                                    *)
THEOREM TagSpacing == Spec => []ShortTagsApart
<1>1. ASSUME ShortSafe PROVE ShortTagsApart
  <2> USE <1>1, ShortAssumption DEF ShortSafe, ShortTypeOK, StreamTypeOK
  <2>1. ASSUME NEW k \in DOMAIN tags PROVE tags[k] <= written
    <3>1. tags[k] + copied <= written /\ tags[k] \in Nat
      BY DEF ShortInv
    <3> QED
      BY <3>1
  <2>2. ASSUME NEW k \in 1 .. Len(tags) - 1
        PROVE  tags[k] + (MIN_GAP + 1) <= tags[k + 1]
    <3>1. k \in DOMAIN tags /\ k + 1 \in DOMAIN tags /\ k < k + 1
      OBVIOUS
    <3>2. tags[k] \in Nat /\ tags[k + 1] \in Nat
      BY <3>1
    <3>3. tags[k] + MIN_GAP + 1 <= tags[k + 1]
      BY <3>1 DEF ShortInv
    <3> QED
      BY <3>2, <3>3
  <2> QED
    BY <2>1, <2>2 DEF ShortTagsApart, TagsApart
<1> QED
  BY <1>1, ShortInvariant, PTL

(* The chain implements sync_long's specification with an arbitrary         *)
(* upstream block: what sync_long guarantees to any upstream, it            *)
(* guarantees here.                                                         *)
THEOREM ChainImplementsLong == Spec => LongSpec
<1>1. Init => LongInit /\ StreamInit
  BY DEF Init
<1>2. ShortSafe /\ [Next]_vars => [LongWork \/ Upstream]_longVars
  <2> SUFFICES ASSUME ShortSafe, [Next]_vars
               PROVE  [LongWork \/ Upstream]_longVars
    OBVIOUS
  <2> USE DEF ShortSafe, ShortTypeOK, StreamTypeOK
  <2>1. ASSUME ShortStep PROVE Upstream \/ UNCHANGED longVars
    <3>1. ASSUME NEW above \in BOOLEAN, SearchSample(above)
          PROVE  UNCHANGED longVars
      BY <2>1, <3>1 DEF ShortStep, SearchSample, longVars
    <3>2. ASSUME NEW above \in BOOLEAN, CopySample(above)
          PROVE  Upstream
      BY <2>1, <3>2 DEF ShortStep, CopySample, Upstream, UpstreamSample, ShortInv
    <3>3. ASSUME SearchTrigger \/ CopyRetrigger
          PROVE  Upstream
      <4>1. ~TagAt(written)
        <5>1. tags # <<>> => copied > 0
          BY <3>3, ShortAssumption DEF SearchTrigger, CopyRetrigger, ShortInv
        <5> QED
          BY <5>1 DEF TagAt, ShortInv
      <4>2. AddTag(written) /\ UNCHANGED written
        BY <3>3 DEF SearchTrigger, CopyRetrigger
      <4> QED
        BY <2>1, <4>1, <4>2 DEF ShortStep, Upstream, UpstreamTag
    <3> QED
      BY <2>1, <3>1, <3>2, <3>3 DEF ShortStep, ShortWork
  <2>2. CASE LongStep
    BY <2>2 DEF LongStep
  <2>3. CASE UNCHANGED vars
    BY <2>3 DEF vars, longVars
  <2> QED
    BY <2>1, <2>2, <2>3 DEF Next
<1> QED
  BY <1>1, <1>2, ShortInvariant, PTL DEF Spec, LongSpec, LongStart

(* Type correctness of the chain. *)
THEOREM ChainTypeCorrect == Spec => []TypeOK
<1>1. ShortSafe /\ LongTypes => TypeOK
  BY DEF ShortSafe, LongTypes, TypeOK
<1> QED
  BY <1>1, ShortInvariant, ChainImplementsLong, LongTypeCorrect, PTL

(* Alignment, inherited through the implementation theorem. *)
THEOREM ChainAligned == Spec => []VectorAligned
  BY ChainImplementsLong, LongAligned, PTL

-----------------------------------------------------------------------------
ChainSafe == ShortSafe /\ LongTypes /\ LongInv

(* Two tags on the same sample are the same tag. *)
LEMMA TagsDistinct ==
    ASSUME ShortSafe
    PROVE  \A j, k \in DOMAIN tags : tags[j] = tags[k] => j = k
<1> USE ShortAssumption DEF ShortSafe, ShortTypeOK, StreamTypeOK
<1>1. ASSUME NEW j \in DOMAIN tags, NEW k \in DOMAIN tags, j < k
      PROVE  tags[j] # tags[k]
  BY <1>1 DEF ShortInv
<1>2. \A j, k \in DOMAIN tags : j < k \/ k < j \/ j = k
  OBVIOUS
<1> QED
  BY <1>1, <1>2

(* The tag value picked by a call is the tag on the sample read next. *)
LEMMA ShortAfterTagsValue ==
    ASSUME ShortSafe, NEW k \in DOMAIN tags, tags[k] = nread, nread < written
    PROVE  ShortAfterTags = k
<1>1. TagAt(nread)
  BY DEF TagAt
<1>2. ShortAfterTags \in DOMAIN tags /\ tags[ShortAfterTags] = nread
  BY <1>1 DEF ShortAfterTags, TagAt
<1> QED
  BY <1>2, TagsDistinct

(* The frame in work keeps its number while sync_long reads between tags. *)
LEMMA ShortAfterTagsKept ==
    ASSUME ~TagAt(nread)
    PROVE  ShortAfterTags = freqShort
BY DEF ShortAfterTags

(* In SYNC, with the first sample at hand, the frame in work is the one     *)
(* whose tag was met last; its number is one more than the frames announced.*)
LEMMA SyncFrame ==
    ASSUME ChainSafe, longState = "SYNC", nread < written
    PROVE  /\ ShortAfterTags \in DOMAIN tags
           /\ nread = tags[ShortAfterTags] + offset
           /\ Len(longTags) = ShortAfterTags - 1
           /\ freqShort <= ShortAfterTags
           /\ TagAt(nread) => offset = 0
<1> USE ShortAssumption, LongAssumption, GapAssumption
    DEF ChainSafe, ShortSafe, ShortTypeOK, StreamTypeOK, LongTypes, LongTypeOK
<1>1. CASE freqShort = 0
  <2>1. nread = 0 /\ offset = 0 /\ longTags = <<>>
    BY <1>1 DEF LongInv
  <2>2. tags # <<>> /\ tags[1] = 0 /\ 1 \in DOMAIN tags
    BY <2>1 DEF ShortInv
  <2>3. ShortAfterTags = 1
    BY <2>1, <2>2, ShortAfterTagsValue
  <2> QED
    BY <1>1, <2>1, <2>2, <2>3
<1>2. CASE freqShort > 0
  <2>1. /\ freqShort \in DOMAIN tags
        /\ offset < SYNC_LENGTH
        /\ nread = tags[freqShort] + offset
        /\ Len(longTags) = freqShort - 1
    BY <1>2 DEF LongInv
  <2>2. CASE offset = 0
    <3>1. ShortAfterTags = freqShort
      BY <2>1, <2>2, ShortAfterTagsValue
    <3> QED
      BY <2>1, <2>2, <3>1
  <2>3. CASE offset > 0
    <3>1. ASSUME NEW k \in DOMAIN tags PROVE tags[k] # nread
      <4>1. k < freqShort => tags[k] + MIN_GAP + 1 <= tags[freqShort]
        BY <2>1 DEF ShortInv
      <4>2. k > freqShort => tags[freqShort] + MIN_GAP + 1 <= tags[k]
        BY <2>1 DEF ShortInv
      <4> QED
        BY <2>1, <2>3, <4>1, <4>2, SMTT(60)
    <3>2. ~TagAt(nread)
      BY <3>1 DEF TagAt
    <3> QED
      BY <2>1, <3>2, ShortAfterTagsKept
  <2> QED
    BY <2>2, <2>3
<1> QED
  BY <1>1, <1>2

(* SYNC: correlating does not run past the next tag, and the frame whose    *)
(* window is complete is the one the search result is for.                  *)
LEMMA SyncCallKeeps ==
    ASSUME ChainSafe, SyncCall
    PROVE  LongInv'
<1>0. /\ SYNC_LENGTH \in Nat /\ SYNC_LENGTH > 0 /\ FFT \in Nat /\ FFT > 0
      /\ MIN_GAP \in Nat /\ MIN_GAP >= 2 * SYNC_LENGTH
      /\ written \in Nat /\ nread \in Nat /\ offset \in Nat
      /\ frameStart \in 0 .. SYNC_LENGTH
      /\ freqShort \in Nat /\ freqLong \in Nat
      /\ longTags \in Seq(LongTag)
      /\ \A k \in DOMAIN tags : k \in Nat /\ tags[k] \in Nat
      /\ longState = "SYNC" => offset < SYNC_LENGTH
  BY ShortAssumption, LongAssumption, GapAssumption
     DEF ChainSafe, ShortSafe, ShortTypeOK, StreamTypeOK, LongTypes, LongTypeOK
<1>1. PICK n \in FFT .. written - nread :
        LET left == SYNC_LENGTH - offset
            m    == IF n - (FFT - 1) < left THEN n - (FFT - 1) ELSE left
        IN  /\ nread' = nread + m
            /\ \/ /\ m < left
                  /\ offset' = offset + m
                  /\ UNCHANGED <<longState, frameStart, freqLong, count>>
               \/ /\ m = left
                  /\ offset' = 0
                  /\ count' = 0
                  /\ longState' = "COPY"
                  /\ \E r \in SearchResults :
                        /\ frameStart' = r.start
                        /\ freqLong' = IF r.found THEN ShortAfterTags ELSE freqLong
  BY DEF SyncCall
<1>2. /\ longState = "SYNC"
      /\ freqShort' = ShortAfterTags
      /\ longTags' = longTags /\ written' = written /\ tags' = tags
  BY DEF SyncCall, streamVars
<1>3. PICK m \in Nat :
        /\ nread' = nread + m
        /\ nread + m <= written
        /\ offset + m <= SYNC_LENGTH
        /\ \/ /\ offset + m < SYNC_LENGTH
              /\ offset' = offset + m
              /\ UNCHANGED <<longState, frameStart, freqLong, count>>
           \/ /\ offset + m = SYNC_LENGTH
              /\ offset' = 0
              /\ longState' = "COPY"
              /\ \E r \in SearchResults :
                    /\ frameStart' = r.start
                    /\ freqLong' = IF r.found THEN ShortAfterTags ELSE freqLong
  <2> DEFINE left == SYNC_LENGTH - offset
             m    == IF n - (FFT - 1) < left THEN n - (FFT - 1) ELSE left
  <2>1. m \in Nat /\ nread + m <= written /\ m <= left
    BY <1>2, <1>0
  <2>2. /\ m < left <=> offset + m < SYNC_LENGTH
        /\ m = left <=> offset + m = SYNC_LENGTH
        /\ m <= left <=> offset + m <= SYNC_LENGTH
    BY <1>2, <1>0
  <2> QED
    BY <1>1, <2>1, <2>2
<1>4. nread < written
  BY <1>1, <1>0
<1>5. PICK f \in DOMAIN tags :
        /\ f = ShortAfterTags /\ f \in Nat /\ f > 0
        /\ nread = tags[f] + offset
        /\ Len(longTags) = f - 1
        /\ freqShort <= f /\ freqLong <= f
  <2>1. /\ ShortAfterTags \in DOMAIN tags
        /\ nread = tags[ShortAfterTags] + offset
        /\ Len(longTags) = ShortAfterTags - 1
        /\ freqShort <= ShortAfterTags
    BY <1>2, <1>4, SyncFrame
  <2>2. /\ ShortAfterTags \in Nat /\ Len(longTags) \in Nat
        /\ freqLong <= freqShort
    BY <1>0, <2>1 DEF ChainSafe, LongInv
  <2>3. ShortAfterTags > 0 /\ freqLong <= ShortAfterTags
    BY <1>0, <2>1, <2>2
  <2> QED
    BY <2>1, <2>2, <2>3
<1>6. FramesInOrder' /\ StaleOffsetOnlyOnDefault' /\ nread' <= written'
  BY <1>2, <1>3 DEF ChainSafe, LongInv, FramesInOrder, StaleOffsetOnlyOnDefault
<1>7. CASE /\ offset' = offset + m
           /\ UNCHANGED <<longState, frameStart, freqLong, count>>
  <2>1. nread' = tags[f] + offset'
    <3>1. tags[f] \in Nat
      BY <1>5, <1>0
    <3>2. PICK x \in Nat : x = tags[f]
      BY <3>1
    <3>3. offset \in Nat /\ nread \in Nat /\ m \in Nat
      BY <1>0
    <3>4. nread = x + offset
      BY <1>5, <3>2
    <3>5. nread + m = x + (offset + m)
      BY <3>3, <3>4
    <3> QED
      BY <1>3, <1>7, <3>2, <3>5
  <2>2. /\ longState' = "SYNC" /\ NeverThrows'
        /\ freqShort' = f /\ freqLong' <= freqShort'
        /\ Len(longTags') = f - 1
    BY <1>2, <1>5, <1>7 DEF NeverThrows
  <2> QED
    BY <1>2, <1>5, <1>6, <2>1, <2>2 DEF LongInv
<1>8. CASE /\ offset + m = SYNC_LENGTH
           /\ offset' = 0
           /\ longState' = "COPY"
           /\ \E r \in SearchResults :
                 /\ frameStart' = r.start
                 /\ freqLong' = IF r.found THEN ShortAfterTags ELSE freqLong
  <2>1. /\ freqLong' <= freqShort'
        /\ freqLong' < freqShort' => frameStart' = SYNC_LENGTH
        /\ frameStart' \in 0 .. SYNC_LENGTH
    BY <1>2, <1>5, <1>8, SearchResultsType
  <2>2. nread' = tags[f] + SYNC_LENGTH
    <3>1. tags[f] \in Nat
      BY <1>0
    <3>2. nread = tags[f] + offset /\ offset + m = SYNC_LENGTH
      BY <1>5, <1>8
    <3>3. PICK x \in Nat : x = tags[f]
      BY <3>1
    <3>4. offset \in Nat /\ SYNC_LENGTH \in Nat /\ nread \in Nat
      BY <1>0
    <3>5. nread = x + offset /\ offset + m = SYNC_LENGTH
      BY <3>2, <3>3
    <3>6. nread + m = x + SYNC_LENGTH
      BY <3>4, <3>5
    <3> QED
      BY <1>3, <3>3, <3>6
  <2>3. ASSUME NEW k \in DOMAIN tags, k > f PROVE nread' <= tags[k]
    <3>1. tags[f] + MIN_GAP + 1 <= tags[k]
      BY <2>3 DEF ChainSafe, ShortSafe, ShortInv
    <3> QED
      BY <2>2, <3>1, <1>0
  <2>4. nread' = tags[f] + SYNC_LENGTH + offset' /\ offset' <= frameStart'
    BY <1>8, <2>1, <2>2, <1>0
  <2>5. /\ NeverThrows' /\ freqShort' = f
        /\ Len(longTags') = f - 1
    BY <1>2, <1>5, <1>8 DEF NeverThrows
  <2> QED
    BY <1>2, <1>5, <1>6, <1>8, <2>1, <2>3, <2>4, <2>5 DEF LongInv
<1> QED
  BY <1>3, <1>7, <1>8

(* COPY: it never reads past the next tag, and announces the frame when it  *)
(* passes the frame start.                                                  *)
LEMMA CopyCallKeeps ==
    ASSUME ChainSafe, CopyCall
    PROVE  LongInv'
<1>0. /\ SYNC_LENGTH \in Nat /\ SYNC_LENGTH > 0 /\ FFT \in Nat /\ FFT > 0
      /\ MIN_GAP \in Nat /\ MIN_GAP >= 2 * SYNC_LENGTH
      /\ written \in Nat /\ nread \in Nat /\ offset \in Nat
      /\ frameStart \in 0 .. SYNC_LENGTH
      /\ freqShort \in Nat /\ freqLong \in Nat
      /\ longTags \in Seq(LongTag)
      /\ \A k \in DOMAIN tags : k \in Nat /\ tags[k] \in Nat
      /\ longState = "SYNC" => offset < SYNC_LENGTH
  BY ShortAssumption, LongAssumption, GapAssumption
     DEF ChainSafe, ShortSafe, ShortTypeOK, StreamTypeOK, LongTypes, LongTypeOK
<1> DEFINE t == [at |-> produced, start |-> frameStart,
                 short |-> freqShort, long |-> freqLong]
<1>1. PICK n \in 1 .. written - nread :
        /\ Window(n)
        /\ nread' = nread + n
        /\ offset' = offset + n
        /\ longTags' = IF frameStart \in offset .. offset + n - 1
                       THEN Append(longTags, t)
                       ELSE longTags
  BY DEF CopyCall
<1>2. /\ longState = "COPY" /\ ~TagAt(nread)
      /\ longState' = "COPY" /\ frameStart' = frameStart
      /\ freqShort' = freqShort /\ freqLong' = freqLong
      /\ written' = written /\ tags' = tags
  BY DEF CopyCall, streamVars
<1>3. /\ freqShort > 0 /\ freqShort \in DOMAIN tags
      /\ nread = tags[freqShort] + SYNC_LENGTH + offset
      /\ Len(longTags) = IF offset <= frameStart THEN freqShort - 1 ELSE freqShort
      /\ freqLong <= freqShort
      /\ freqLong < freqShort => frameStart = SYNC_LENGTH
      /\ \A k \in DOMAIN tags : k > freqShort => nread <= tags[k]
      /\ FramesInOrder /\ StaleOffsetOnlyOnDefault
  BY <1>2, <1>0 DEF ChainSafe, LongInv
<1>4. /\ n \in Nat /\ n > 0 /\ nread' <= written'
      /\ nread' = tags[freqShort] + SYNC_LENGTH + offset'
  <2>1. n \in Nat /\ n > 0 /\ nread + n <= written
    BY <1>0
  <2>2. tags[freqShort] \in Nat
    BY <1>0, <1>3
  <2>3. nread + n = tags[freqShort] + SYNC_LENGTH + (offset + n)
    BY <1>0, <1>3, <2>1, <2>2
  <2> QED
    BY <1>1, <1>2, <2>1, <2>3
<1>5. ASSUME NEW k \in DOMAIN tags, k > freqShort PROVE nread' <= tags[k]
  <2>1. nread <= tags[k] /\ tags[k] # nread
    BY <1>2, <1>3, <1>5 DEF TagAt
  <2>2. nread + n <= tags[k]
    BY <1>1, <1>2, <2>1, <1>0 DEF Window
  <2> QED
    BY <1>1, <2>2
<1>6. CASE frameStart \in offset .. offset + n - 1
  <2>1. longTags' = Append(longTags, t) /\ Len(longTags) = freqShort - 1
    BY <1>1, <1>3, <1>6, <1>0
  <2>2. /\ Len(longTags') = freqShort
        /\ \A k \in DOMAIN longTags : longTags'[k] = longTags[k]
        /\ longTags'[freqShort] = t
        /\ \A k \in DOMAIN longTags' : k \in DOMAIN longTags \/ k = freqShort
        /\ t.short = freqShort /\ t.long = freqLong /\ t.start = frameStart
    BY <2>1, <1>0
  <2> HIDE DEF t
  <2>3. FramesInOrder'
    BY <1>3, <2>2 DEF FramesInOrder
  <2>4. StaleOffsetOnlyOnDefault'
    BY <1>3, <2>2 DEF StaleOffsetOnlyOnDefault
  <2>5. ~(offset' <= frameStart')
    BY <1>1, <1>2, <1>6, <1>0
  <2> QED
    BY <1>2, <1>3, <1>4, <1>5, <2>2, <2>3, <2>4, <2>5, <1>0
       DEF LongInv, NeverThrows
<1>7. CASE frameStart \notin offset .. offset + n - 1
  <2>1. longTags' = longTags
    BY <1>1, <1>7
  <2>2. offset <= frameStart <=> offset' <= frameStart'
    BY <1>1, <1>2, <1>7, <1>0
  <2>3. FramesInOrder' /\ StaleOffsetOnlyOnDefault'
    BY <1>3, <2>1 DEF FramesInOrder, StaleOffsetOnlyOnDefault
  <2>4. Len(longTags') = IF offset' <= frameStart' THEN freqShort' - 1 ELSE freqShort'
    BY <1>2, <1>3, <2>1, <2>2
  <2> QED
    BY <1>2, <1>3, <1>4, <1>5, <2>3, <2>4, <1>0 DEF LongInv, NeverThrows
<1> QED
  BY <1>6, <1>7

(* RESET: it is entered on the tag of the very next frame, and by then the  *)
(* frame start, at most 2 * SYNC_LENGTH after the old tag, has been passed. *)
LEMMA ResetCallKeeps ==
    ASSUME ChainSafe, ResetCall
    PROVE  LongInv'
<1> USE ShortAssumption, LongAssumption, GapAssumption
    DEF ChainSafe, ShortSafe, ShortTypeOK, StreamTypeOK, LongTypes, LongTypeOK
<1> DEFINE f == ShortAfterTags
<1>1. /\ freqShort' = f
      /\ UNCHANGED <<frameStart, freqLong, nread, longTags, written, tags>>
      /\ nread < written
      /\ (longState' = "SYNC" /\ offset' = 0) \/ longState' = "RESET"
  BY DEF ResetCall, streamVars
<1>2. /\ f \in DOMAIN tags /\ f > 0
      /\ nread = tags[f]
      /\ Len(longTags) = f - 1
      /\ freqLong <= f
  <2>1. CASE longState = "RESET"
    <3>1. /\ freqShort \in DOMAIN tags /\ freqShort > 0
          /\ nread = tags[freqShort] /\ Len(longTags) = freqShort - 1
          /\ freqLong <= freqShort
      BY <2>1 DEF LongInv
    <3>2. f = freqShort
      BY <1>1, <3>1, ShortAfterTagsValue
    <3> QED
      BY <3>1, <3>2
  <2>2. CASE longState = "COPY" /\ TagAt(nread)
    <3>1. /\ freqShort > 0 /\ freqShort \in DOMAIN tags
          /\ nread = tags[freqShort] + SYNC_LENGTH + offset
          /\ Len(longTags) = IF offset <= frameStart THEN freqShort - 1 ELSE freqShort
          /\ freqLong <= freqShort
          /\ \A k \in DOMAIN tags : k > freqShort => nread <= tags[k]
      BY <2>2 DEF LongInv
    <3>2. PICK j \in DOMAIN tags : tags[j] = nread
      BY <2>2 DEF TagAt
    <3>3. f = j
      BY <1>1, <3>2, ShortAfterTagsValue
    <3>4. j > freqShort
      <4>1. j < freqShort => tags[j] + MIN_GAP + 1 <= tags[freqShort]
        BY <3>1 DEF ShortInv
      <4>2. tags[j] > tags[freqShort]
        BY <3>1, <3>2
      <4> QED
        BY <3>1, <4>1, <4>2
    <3>5. j = freqShort + 1
      <4>1. freqShort + 1 \in DOMAIN tags
        BY <3>1, <3>4
      <4>2. nread <= tags[freqShort + 1]
        BY <3>1, <4>1
      <4>3. freqShort + 1 < j => tags[freqShort + 1] + MIN_GAP + 1 <= tags[j]
        BY <4>1 DEF ShortInv
      <4> QED
        BY <3>2, <3>4, <4>1, <4>2, <4>3
    <3>6. offset > frameStart
      <4>1. tags[freqShort] + MIN_GAP + 1 <= tags[j]
        BY <3>1, <3>4 DEF ShortInv
      <4> QED
        BY <3>1, <3>2, <4>1
    <3> QED
      BY <3>1, <3>2, <3>3, <3>5, <3>6
  <2> QED
    BY <2>1, <2>2 DEF ResetCall
<1>3. FramesInOrder' /\ StaleOffsetOnlyOnDefault'
  BY <1>1 DEF LongInv, FramesInOrder, StaleOffsetOnlyOnDefault
<1> HIDE DEF f
<1> QED
  BY <1>1, <1>2, <1>3 DEF LongInv, NeverThrows

(* A new tag comes MIN_GAP + 1 samples or more after the one in work, a new *)
(* sample changes nothing for sync_long.                                    *)
LEMMA ShortStepKeeps ==
    ASSUME ChainSafe, ShortSafe', ShortStep
    PROVE  LongInv'
<1> USE ShortAssumption DEF ChainSafe, ShortSafe, ShortTypeOK, StreamTypeOK,
                            LongTypes, LongTypeOK
<1>1. UNCHANGED longOwnVars
  BY DEF ShortStep
<1>2. ASSUME UNCHANGED tags, written' >= written
      PROVE  LongInv'
  BY <1>1, <1>2 DEF longOwnVars, LongInv, NeverThrows, FramesInOrder,
                    StaleOffsetOnlyOnDefault
<1>3. ASSUME tags' = Append(tags, written), written' = written
      PROVE  LongInv'
  <2>1. /\ \A k \in DOMAIN tags : tags'[k] = tags[k] /\ k \in DOMAIN tags'
        /\ \A k \in DOMAIN tags' : k \in DOMAIN tags \/ tags'[k] = written
    BY <1>3
  <2>2. /\ NeverThrows' /\ FramesInOrder' /\ StaleOffsetOnlyOnDefault'
        /\ nread' <= written' /\ freqLong' <= freqShort'
    BY <1>1, <1>3 DEF longOwnVars, LongInv, NeverThrows, FramesInOrder,
                      StaleOffsetOnlyOnDefault
  <2>3. longState = "COPY" =>
            \A k \in DOMAIN tags' : k > freqShort => nread <= tags'[k]
    <3>1. ASSUME longState = "COPY", NEW k \in DOMAIN tags', k > freqShort
          PROVE  nread <= tags'[k]
      <4>1. CASE k \in DOMAIN tags
        <5>1. freqShort > 0
          BY <3>1 DEF LongInv
        <5> QED
          BY <2>1, <3>1, <4>1, <5>1 DEF LongInv
      <4>2. CASE tags'[k] = written
        BY <4>2 DEF LongInv
      <4> QED
        BY <2>1, <4>1, <4>2
    <3> QED
      BY <3>1
  <2> QED
    BY <1>1, <2>1, <2>2, <2>3 DEF longOwnVars, LongInv
<1>4. \/ UNCHANGED tags /\ written' >= written
      \/ tags' = Append(tags, written) /\ written' = written
  <2>1. ASSUME NEW above \in BOOLEAN, SearchSample(above)
        PROVE  UNCHANGED tags /\ written' >= written
    BY <2>1 DEF SearchSample, streamVars
  <2>2. ASSUME NEW above \in BOOLEAN, CopySample(above)
        PROVE  UNCHANGED tags /\ written' >= written
    BY <2>2 DEF CopySample
  <2>3. ASSUME SearchTrigger \/ CopyRetrigger
        PROVE  tags' = Append(tags, written) /\ written' = written
    BY <2>3 DEF SearchTrigger, CopyRetrigger, AddTag
  <2> QED
    BY <2>1, <2>2, <2>3 DEF ShortStep, ShortWork
<1> QED
  BY <1>2, <1>3, <1>4

(* The invariant of the composition. *)
THEOREM ChainInvariant == Spec => []LongInv
<1>1. Init => LongInv
  BY DEF Init, LongInit, StreamInit, LongInv, NeverThrows, FramesInOrder,
         StaleOffsetOnlyOnDefault
<1>2. ShortSafe /\ ShortSafe' /\ LongTypes /\ LongInv /\ [Next]_vars => LongInv'
  <2> SUFFICES ASSUME ShortSafe, ShortSafe', LongTypes, LongInv, [Next]_vars
               PROVE  LongInv'
    OBVIOUS
  <2>0. ChainSafe
    BY DEF ChainSafe
  <2>1. CASE ShortStep
    BY <2>0, <2>1, ShortStepKeeps
  <2>2. CASE LongStep
    <3>1. ~SyncThrow
      BY <2>0, SyncFrame DEF SyncThrow
    <3> QED
      BY <2>0, <2>2, <3>1, SyncCallKeeps, CopyCallKeeps, ResetCallKeeps
         DEF LongStep, LongWork
  <2>3. CASE UNCHANGED vars
    BY <2>3 DEF vars, longOwnVars, streamVars, LongInv, NeverThrows,
                FramesInOrder, StaleOffsetOnlyOnDefault
  <2> QED
    BY <2>1, <2>2, <2>3 DEF Next
<1> QED
  BY <1>1, <1>2, ShortInvariant, ChainImplementsLong, LongTypeCorrect, PTL DEF Spec

(* sync_long never throws "wtf" behind sync_short. *)
THEOREM ChainNeverThrows == Spec => []NeverThrows
<1>1. LongInv => NeverThrows
  BY DEF LongInv
<1> QED
  BY <1>1, ChainInvariant, PTL

(* Every frame is announced under its own number and offset, and in order.  *)
THEOREM ChainFramesInOrder == Spec => []FramesInOrder
<1>1. LongInv => FramesInOrder
  BY DEF LongInv
<1> QED
  BY <1>1, ChainInvariant, PTL

(* No frame is given up before it was announced.                            *)
THEOREM ChainDropsNoFrame == Spec => []NoFrameDropped
<1>1. LongInv /\ LongTypes => NoFrameDropped
  BY DEF LongInv, LongTypes, LongTypeOK, NoFrameDropped
<1> QED
  BY <1>1, ChainInvariant, ChainImplementsLong, LongTypeCorrect, PTL

(* A frame is announced with the fine offset of an earlier one only if its  *)
(* search for a start fell back on the default.                             *)
THEOREM ChainOffsetsFresh == Spec => []StaleOffsetOnlyOnDefault
<1>1. LongInv => StaleOffsetOnlyOnDefault
  BY DEF LongInv
<1> QED
  BY <1>1, ChainInvariant, PTL
=============================================================================
