------------------------------ MODULE SyncLong ------------------------------
(***************************************************************************)
(* sync_long: the long-training-field synchroniser.  From a wifi_start tag *)
(* on it correlates SYNC_LENGTH samples with the L-LTF (SYNC), picks the   *)
(* frame start among the four highest peaks, copies the two L-LTF symbols  *)
(* and every following symbol without its guard interval (COPY), and, when *)
(* the next tag comes, pads the output to a whole FFT vector (RESET).      *)
(*                                                                         *)
(* One step is one call of general_work.  The scheduler's ninput and       *)
(* noutput are chosen freely.  What a COPY call does depends on the number *)
(* n of samples it consumes only, and every n up to the window is possible *)
(* with a large enough noutput, so COPY is parameterised by n.             *)
(***************************************************************************)
EXTENDS SampleStream, FiniteSetsExt

CONSTANTS
    FFT,                \* d_fft_len: 64 (20 MHz) or 128 (HT40)
    SYNC_LENGTH         \* block argument sync_length (320 in the flow graphs)

ASSUME LongAssumption == /\ FFT \in Nat \ {0}
                         /\ FFT % 4 = 0
                         /\ SYNC_LENGTH \in Nat
                         /\ SYNC_LENGTH >= FFT

VARIABLES
    longState,          \* d_state, or "THROWN" once general_work has thrown
    offset,             \* d_offset
    frameStart,         \* d_frame_start
    count,              \* d_count
    freqShort,          \* d_freq_offset_short: the tag it was read from
    freqLong,           \* d_freq_offset: the frame whose peaks gave it
    nread,              \* nitems_read(0)
    produced,           \* nitems_written(0)
    longTags            \* the wifi_start tags put on the output

longOwnVars == <<longState, offset, frameStart, count, freqShort, freqLong,
                 nread, produced, longTags>>
longVars == <<longOwnVars, streamVars>>

LongTag == [at : Nat, start : Nat, short : Nat, long : Nat]

LongTypeOK == /\ longState \in {"SYNC", "COPY", "RESET", "THROWN"}
              /\ offset \in Nat
              /\ longState = "SYNC" => offset < SYNC_LENGTH
              /\ frameStart \in 0 .. SYNC_LENGTH
              /\ count \in Nat
              /\ freqShort \in Nat
              /\ freqLong \in Nat
              /\ nread \in Nat
              /\ produced \in Nat
              /\ longTags \in Seq(LongTag)

(* d_count, d_frame_start, d_freq_offset and d_freq_offset_short have no    *)
(* initialiser in the code: 0 stands for whatever they hold.                *)
LongInit == /\ longState = "SYNC"
            /\ offset = 0 /\ frameStart = 0 /\ count = 0
            /\ freqShort = 0 /\ freqLong = 0
            /\ nread = 0 /\ produced = 0
            /\ longTags = <<>>

-----------------------------------------------------------------------------
(* The tag preamble of general_work. *)

(* A call may be given n input samples, after the cut at the first tag of   *)
(* the window.  A tag on the first sample does not cut the window, not even *)
(* at a second tag.                                                         *)
Window(n) ==
    /\ n \in 1 .. written - nread
    /\ ~TagAt(nread) => \A k \in DOMAIN tags :
                            tags[k] <= nread \/ nread + n <= tags[k]

(* The value of the tag on the sample read next, if there is one. *)
ShortAfterTags ==
    IF nread < written /\ TagAt(nread)
    THEN CHOOSE k \in DOMAIN tags : tags[k] = nread
    ELSE freqShort

-----------------------------------------------------------------------------
(* search_frame_start: the pairs of the four highest peaks, in loop order.  *)

PeakPairs == <<<<1, 2>>, <<1, 3>>, <<1, 4>>, <<2, 3>>, <<2, 4>>, <<3, 4>>>>

Earlier(peaks, p) ==
    LET a == peaks[PeakPairs[p][1]]
        b == peaks[PeakPairs[p][2]]
    IN  IF a > b THEN b ELSE a

(* The two peaks of pair p are d samples apart. *)
ApartBy(peaks, p, d) ==
    LET a == peaks[PeakPairs[p][1]]
        b == peaks[PeakPairs[p][2]]
    IN  a - b = d \/ b - a = d

Exact(peaks, p) == ApartBy(peaks, p, FFT)
Near(peaks, p)  == ApartBy(peaks, p, FFT - 1) \/ ApartBy(peaks, p, FFT + 1)

(* Mutant: a near pair leaves d_freq_offset alone. *)
FoundFrameStartStale(peaks) ==
    LET exact == {p \in DOMAIN PeakPairs : Exact(peaks, p)}
        near  == {p \in DOMAIN PeakPairs : Near(peaks, p)}
    IN  CASE exact # {} -> [start |-> Earlier(peaks, Min(exact)), found |-> TRUE]
          [] exact = {} /\ near # {} ->
                 [start |-> Earlier(peaks, Max(near)), found |-> FALSE]
          [] OTHER -> [start |-> SYNC_LENGTH, found |-> FALSE]

(* What the search over `peaks' leaves in d_frame_start, and whether it set *)
(* d_freq_offset too.  The first exact pair ends the search; while there is *)
(* none, each near pair overwrites the one before.                          *)
FoundFrameStart(peaks) ==
    LET exact == {p \in DOMAIN PeakPairs : Exact(peaks, p)}
        near  == {p \in DOMAIN PeakPairs : Near(peaks, p)}
    IN  CASE exact # {} ->
                 [start |-> Earlier(peaks, Min(exact)), found |-> TRUE]
          [] exact = {} /\ near # {} ->
                 [start |-> Earlier(peaks, Max(near)), found |-> TRUE]
          [] OTHER ->
                 [start |-> SYNC_LENGTH, found |-> FALSE]

(* Where the four highest of SYNC_LENGTH correlations may lie. *)
Peaks == {v \in [1 .. 4 -> 0 .. SYNC_LENGTH - 1] :
              \A i, j \in 1 .. 4 : i # j => v[i] # v[j]}

SearchResults == {FoundFrameStart(v) : v \in Peaks}

-----------------------------------------------------------------------------
(* The three branches of general_work. *)

(* Mutant: the look-ahead of the correlation is consumed too.               *)
SyncCallConsumesAll ==
    /\ longState = "SYNC"
    /\ TagAt(nread) => offset = 0
    /\ \E n \in FFT .. written - nread :
          LET left == SYNC_LENGTH - offset
              m    == IF n - (FFT - 1) < left THEN n - (FFT - 1) ELSE left
          IN  /\ Window(n)
              /\ nread' = nread + n
              /\ offset' = IF m < left THEN offset + m ELSE 0
              /\ longState' = IF m < left THEN "SYNC" ELSE "COPY"
              /\ count' = IF m < left THEN count ELSE 0
              /\ IF m < left THEN UNCHANGED <<frameStart, freqLong>>
                 ELSE \E r \in SearchResults :
                         /\ frameStart' = r.start
                         /\ freqLong' = IF r.found THEN ShortAfterTags ELSE freqLong
    /\ freqShort' = ShortAfterTags
    /\ UNCHANGED <<produced, longTags, streamVars>>

(* SYNC: n samples are enough for n - (FFT - 1) correlations, and the call  *)
(* ends with the last of the SYNC_LENGTH ones.  With fewer samples it does  *)
(* nothing (forecast asks for FFT of them).                                 *)
SyncCall ==
    /\ longState = "SYNC"
    /\ TagAt(nread) => offset = 0
    /\ \E n \in FFT .. written - nread :
          LET left == SYNC_LENGTH - offset
              m    == IF n - (FFT - 1) < left THEN n - (FFT - 1) ELSE left
          IN  /\ Window(n)
              /\ nread' = nread + m
              /\ \/ /\ m < left
                    /\ offset' = offset + m
                    /\ UNCHANGED <<longState, frameStart, freqLong, count>>
                 \/ /\ m = left
                    /\ offset' = 0
                    /\ count' = 0
                    /\ longState' = "COPY"
                    /\ \E r \in SearchResults :
                          /\ frameStart' = r.start
                          /\ freqLong' = IF r.found THEN ShortAfterTags ELSE freqLong
    /\ freqShort' = ShortAfterTags
    /\ UNCHANGED <<produced, longTags, streamVars>>

(* SYNC with a tag in the middle of the correlation: "wtf". *)
SyncThrow ==
    /\ longState = "SYNC"
    /\ nread < written /\ TagAt(nread) /\ offset # 0
    /\ longState' = "THROWN"
    /\ UNCHANGED <<offset, frameStart, count, freqShort, freqLong, nread,
                   produced, longTags, streamVars>>

(* Mutant: the guard interval ends one sample early. *)
KeptOneMore(rel) == rel >= 0 /\ (rel < 2 * FFT \/
                        (rel - 2 * FFT) % (FFT + FFT \div 4) >= FFT \div 4 - 1)

(* The sample at distance rel from the frame start is copied: it belongs to *)
(* the two L-LTF symbols, or to a later symbol and not to its guard         *)
(* interval.                                                                *)
Kept(rel) == /\ rel >= 0
             /\ \/ rel < 2 * FFT
                \/ (rel - 2 * FFT) % (FFT + FFT \div 4) > FFT \div 4 - 1

(* How many of the next n samples are copied. *)
KeptOf(n) == Cardinality({k \in 0 .. n - 1 : Kept(offset + k - frameStart)})

(* COPY, with the tag looked for among samples `from' to `to' of the call;  *)
(* only the mutants of CopyCall are written with it.                        *)
CopyCallTagging(from, to(_)) ==
    /\ longState = "COPY" /\ ~TagAt(nread)
    /\ \E n \in 1 .. written - nread :
          /\ Window(n)
          /\ nread' = nread + n
          /\ offset' = offset + n
          /\ produced' = produced + KeptOf(n)
          /\ count' = count + KeptOf(n)
          /\ longTags' = IF frameStart \in offset + from .. offset + to(n)
                         THEN Append(longTags, [at |-> produced, start |-> frameStart,
                                                short |-> freqShort, long |-> freqLong])
                         ELSE longTags
    /\ UNCHANGED <<longState, frameStart, freqShort, freqLong, streamVars>>

(* Mutants: the tag is put once more at the end of a call; the first sample *)
(* of a call is not looked at.                                              *)
CopyCallTagsTwice   == LET to(n) == n IN CopyCallTagging(0, to)
CopyCallMissesFirst == LET to(n) == n - 1 IN CopyCallTagging(1, to)

(* COPY: n samples are consumed; the frame's tag goes out with the sample   *)
(* at the frame start.                                                      *)
CopyCall ==
    /\ longState = "COPY"
    /\ ~TagAt(nread)
    /\ \E n \in 1 .. written - nread :
          /\ Window(n)
          /\ nread' = nread + n
          /\ offset' = offset + n
          /\ produced' = produced + KeptOf(n)
          /\ count' = count + KeptOf(n)
          /\ longTags' = IF frameStart \in offset .. offset + n - 1
                         THEN Append(longTags, [at |-> produced, start |-> frameStart,
                                                short |-> freqShort, long |-> freqLong])
                         ELSE longTags
    /\ UNCHANGED <<longState, frameStart, freqShort, freqLong, streamVars>>

(* RESET with `pad' zeros to write and `offsetAfter' left in d_offset; only *)
(* the mutants of ResetCall are written with it.                            *)
ResetCallLeaving(pad, offsetAfter) ==
    /\ longState = "RESET" \/ (longState = "COPY" /\ TagAt(nread))
    /\ nread < written
    /\ produced' = produced + pad
    /\ count' = count + pad
    /\ longState' = "SYNC"
    /\ offset' = offsetAfter
    /\ freqShort' = ShortAfterTags
    /\ UNCHANGED <<frameStart, freqLong, nread, longTags, streamVars>>

(* Mutants: as many zeros as the last vector has samples; d_offset is not   *)
(* reset.                                                                   *)
ResetCallPadsWrong   == ResetCallLeaving(count % FFT, 0)
ResetCallKeepsOffset == ResetCallLeaving((FFT - (count % FFT)) % FFT, offset)

(* RESET, which COPY enters on a tag: zeros until the output of the frame   *)
(* fills whole vectors.  The end is noticed only while noutput has room.    *)
ResetCall ==
    /\ longState = "RESET" \/ (longState = "COPY" /\ TagAt(nread))
    /\ nread < written
    /\ \E noutput \in 1 .. FFT :
          LET pad == (FFT - (count % FFT)) % FFT
              o   == IF pad < noutput THEN pad ELSE noutput
          IN  /\ produced' = produced + o
              /\ count' = count + o
              /\ \/ /\ pad < noutput
                    /\ longState' = "SYNC"
                    /\ offset' = 0
                 \/ /\ pad >= noutput
                    /\ longState' = "RESET"
                    /\ UNCHANGED offset
    /\ freqShort' = ShortAfterTags
    /\ UNCHANGED <<frameStart, freqLong, nread, longTags, streamVars>>

LongWork == SyncCall \/ SyncThrow \/ CopyCall \/ ResetCall

-----------------------------------------------------------------------------
(* Any upstream block at all: it writes samples one by one, starts with a   *)
(* tag, and puts at most one tag on a sample.  sync_short is one of these   *)
(* (SyncChain), with tags far apart; here they may come as close as they    *)
(* like.                                                                    *)
UpstreamTag == ~TagAt(written) /\ AddTag(written) /\ UNCHANGED written

UpstreamSample == /\ tags # <<>> /\ written < MAX_WRITTEN
                  /\ written' = written + 1
                  /\ UNCHANGED tags

Upstream == (UpstreamTag \/ UpstreamSample) /\ UNCHANGED longOwnVars

LongStart == LongInit /\ StreamInit

LongSpec == LongStart /\ [][LongWork \/ Upstream]_longVars

-----------------------------------------------------------------------------
(* Every wifi_start tag of the output sits on the first item of an FFT      *)
(* vector, whatever the spacing of the input tags and however the calls are *)
(* cut.  stream_to_vector, which follows, would otherwise hand frame_       *)
(* equalizer symbols that straddle two vectors.                             *)
VectorAligned == \A k \in DOMAIN longTags : longTags[k].at % FFT = 0

(* Why they do: the inductive strengthening.  In SYNC the output ends with  *)
(* a whole vector; in COPY and RESET d_count is congruent to it; and before *)
(* the frame start nothing of the frame is out.                             *)
AlignmentInv ==
    /\ longState = "SYNC" => produced % FFT = 0
    /\ longState \in {"COPY", "RESET"} => produced % FFT = count % FFT
    /\ (longState = "COPY" /\ offset <= frameStart) => count = 0
    /\ VectorAligned

(* The number of samples of a frame that end up on the output when `seen'   *)
(* of them, counted from the frame start, have gone by: the two L-LTF       *)
(* symbols, then the last FFT of every FFT + FFT/4.                         *)
OutputOf(seen) ==
    LET body == seen - 2 * FFT
        gi   == FFT \div 4
        part == (body % (FFT + gi)) - gi
    IN  CASE seen <= 0    -> 0
          [] seen > 0 /\ body <= 0 -> seen
          [] OTHER        -> 2 * FFT + FFT * (body \div (FFT + gi))
                             + (IF part > 0 THEN part ELSE 0)

(* While a frame is copied, the samples on the output since its start are   *)
(* exactly its L-LTF and symbol samples: no guard interval sample got out   *)
(* and no symbol sample was lost, over all cuts into calls.                 *)
GuardIntervalsStripped ==
    longState = "COPY" => count = OutputOf(offset - frameStart)

(* general_work throws "wtf" only if two tags are closer than a correlation *)
(* window: with tags at least SYNC_LENGTH apart it never does.              *)
ThrowsOnlyOnCloseTags ==
    longState = "THROWN" =>
        \E k \in 1 .. Len(tags) - 1 : tags[k + 1] - tags[k] < SYNC_LENGTH

(* A tag whose frame has been left behind without an output tag had another *)
(* tag close to it: before it, so that it was swallowed by the correlation  *)
(* window, or after it, before the frame start was reached.                 *)
AbandonedOnlyOnCloseTags ==
    \A j \in 1 .. freqShort - 1 :
        \/ \E k \in DOMAIN longTags : longTags[k].short = j
        \/ j > 1 /\ tags[j] - tags[j - 1] < SYNC_LENGTH
        \/ tags[j + 1] - tags[j] <= 2 * SYNC_LENGTH
=============================================================================
