----------------------------- MODULE SyncChain ------------------------------
(***************************************************************************)
(* sync_short feeding sync_long, as the flow graphs connect them: two GNU  *)
(* Radio threads that share a sample buffer with its tags.  What sync_long *)
(* needs from the stream (tags far enough apart) is exactly what           *)
(* sync_short's MIN_GAP gives it.                                          *)
(***************************************************************************)
EXTENDS SyncShort, SyncLong

(* The gap a frame needs: its correlation window and the latest start that  *)
(* the search may find in it.  True of the flow graphs: 700 >= 2 * 320.     *)
ASSUME GapAssumption == MIN_GAP >= 2 * SYNC_LENGTH

vars == <<shortOwnVars, longOwnVars, streamVars>>

Init == ShortInit /\ LongInit /\ StreamInit

ShortStep == ShortWork /\ UNCHANGED longOwnVars
LongStep  == LongWork /\ UNCHANGED shortOwnVars

Next == ShortStep \/ LongStep

(* GNU Radio gives every block a thread of its own, which calls             *)
(* general_work whenever the block's forecast is met: sync_long is not      *)
(* starved.  Nothing is assumed of sync_short: samples need not come.       *)
Spec == Init /\ [][Next]_vars
FairSpec == Spec /\ WF_vars(LongStep)

TypeOK == ShortTypeOK /\ LongTypeOK

-----------------------------------------------------------------------------
(* sync_short never puts two tags closer than MIN_GAP + 1 samples: the      *)
(* re-trigger test in COPY, and the fact that SEARCH is re-entered only     *)
(* after MAX_SAMPLES, hold together over every pattern of plateaus, the     *)
(* plateau counter that survives COPY -> SEARCH included.                   *)
ShortTagsApart == TagsApart(MIN_GAP + 1)

(* sync_long never throws "wtf": no tag reaches it in mid-correlation.      *)
NeverThrows == longState # "THROWN"

(* Frame k of sync_short is frame k of sync_long: the long tags are, in     *)
(* order and without a gap, those of the first short tags, and each carries *)
(* the coarse offset measured for its own frame.                            *)
FramesInOrder == \A k \in DOMAIN longTags : longTags[k].short = k

(* When sync_long turns to the next frame it has announced the current one: *)
(* no detected frame is dropped on the way.                                 *)
NoFrameDropped ==
    /\ longState = "RESET" => Len(longTags) = freqShort - 1
    /\ (longState = "SYNC" /\ offset > 0) => Len(longTags) = freqShort - 1

(* The fine offset of a frame is its own unless the search fell back on the *)
(* default start; then it is that of an earlier frame, never a later one.   *)
StaleOffsetOnlyOnDefault ==
    \A k \in DOMAIN longTags :
        /\ longTags[k].long <= k
        /\ longTags[k].long < k => longTags[k].start = SYNC_LENGTH

(* Inductive strengthening, sync_short's part: `copied' measures the        *)
(* distance from the newest tag, and it is MAX_SAMPLES while the gate is    *)
(* closed.                                                                  *)
ShortInv ==
    /\ tags = <<>> => shortState = "SEARCH" /\ written = 0
    /\ tags # <<>> => tags[1] = 0
    /\ (shortState = "SEARCH" /\ tags # <<>>) => copied = MAX_SAMPLES
    /\ \A k \in DOMAIN tags : tags[k] + copied <= written
    /\ \A j, k \in DOMAIN tags : j < k => tags[j] + MIN_GAP + 1 <= tags[k]

(* Inductive strengthening, sync_long's part: where it reads, relative to   *)
(* the tag of the frame it works on, and how many frames it has announced.  *)
LongInv ==
    /\ NeverThrows
    /\ nread <= written
    /\ freqLong <= freqShort
    /\ freqShort = 0 => /\ longState = "SYNC" /\ offset = 0
                        /\ nread = 0 /\ longTags = <<>>
    /\ freqShort > 0 =>
          /\ freqShort \in DOMAIN tags
          /\ longState = "SYNC" => /\ nread = tags[freqShort] + offset
                                   /\ Len(longTags) = freqShort - 1
          /\ longState = "RESET" => /\ nread = tags[freqShort]
                                    /\ Len(longTags) = freqShort - 1
          /\ longState = "COPY" =>
                /\ nread = tags[freqShort] + SYNC_LENGTH + offset
                /\ \A k \in DOMAIN tags : k > freqShort => nread <= tags[k]
                /\ Len(longTags) = IF offset <= frameStart
                                   THEN freqShort - 1 ELSE freqShort
                /\ freqLong < freqShort => frameStart = SYNC_LENGTH
    /\ FramesInOrder
    /\ StaleOffsetOnlyOnDefault

(* Once the samples that a frame's detection can need are there, sync_long  *)
(* announces the frame.                                                     *)
FrameAnnounced ==
    \A k \in 1 .. MAX_TAGS :
        (k \in DOMAIN tags /\ written > tags[k] + 2 * SYNC_LENGTH)
            ~> k \in DOMAIN longTags
=============================================================================
