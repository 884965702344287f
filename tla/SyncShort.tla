----------------------------- MODULE SyncShort ------------------------------
(***************************************************************************)
(* sync_short: the short-training-field detector.  It looks at the         *)
(* normalised autocorrelation of every input sample, opens the gate after  *)
(* MIN_PLATEAU consecutive samples above the threshold, and copies samples *)
(* until MAX_SAMPLES of them have passed, restarting the frame when a new  *)
(* plateau comes more than MIN_GAP samples after the last one.             *)
(*                                                                         *)
(* One step is one iteration of a loop in general_work.  Nothing of the    *)
(* block's state depends on how the scheduler cuts the stream into calls:  *)
(* the only statement outside the loops, COPY -> SEARCH, fires exactly     *)
(* when the loop stops because of it, and is part of that iteration here.  *)
(***************************************************************************)
EXTENDS SampleStream

CONSTANTS
    MIN_PLATEAU,        \* block argument min_plateau (2 in the flow graphs)
    MIN_GAP,            \* 700 in the code
    MAX_SAMPLES         \* 540 * 80 in the code

ASSUME ShortAssumption == /\ MIN_PLATEAU \in Nat
                          /\ MIN_GAP \in Nat
                          /\ MAX_SAMPLES \in Nat
                          /\ MIN_GAP < MAX_SAMPLES

VARIABLES
    shortState,         \* d_state
    plateau,            \* d_plateau
    copied              \* d_copied

shortOwnVars == <<shortState, plateau, copied>>
shortVars == <<shortOwnVars, streamVars>>

ShortTypeOK == /\ shortState \in {"SEARCH", "COPY"}
               /\ plateau \in 0 .. MIN_PLATEAU
               /\ copied \in 0 .. MAX_SAMPLES
               /\ StreamTypeOK

ShortInit == shortState = "SEARCH" /\ plateau = 0 /\ copied = 0

(* SEARCH, and no plateau is complete: the sample is dropped. *)
SearchSample(above) ==
    /\ shortState = "SEARCH"
    /\ above => plateau < MIN_PLATEAU
    /\ plateau' = IF above THEN plateau + 1 ELSE 0
    /\ UNCHANGED <<shortState, copied, streamVars>>

(* Mutant: the tag is put one sample too late. *)
SearchTriggerLate ==
    /\ shortState = "SEARCH" /\ plateau >= MIN_PLATEAU
    /\ shortState' = "COPY" /\ copied' = 0 /\ plateau' = 0
    /\ AddTag(written + 1)
    /\ UNCHANGED written

(* SEARCH, and the plateau is complete: the gate opens.  The sample is not  *)
(* consumed, so it becomes the first copied one and carries the tag.        *)
SearchTrigger ==
    /\ shortState = "SEARCH"
    /\ plateau >= MIN_PLATEAU
    /\ shortState' = "COPY"
    /\ copied' = 0
    /\ plateau' = 0
    /\ AddTag(written)
    /\ UNCHANGED written

(* Mutant: the gap is not tested. *)
CopyRetriggerAnyGap ==
    /\ shortState = "COPY" /\ plateau >= MIN_PLATEAU
    /\ copied' = 0 /\ plateau' = 0
    /\ AddTag(written)
    /\ UNCHANGED <<shortState, written>>

(* COPY, and a complete plateau comes late enough to be another frame.  The *)
(* loop breaks before the sample is copied: it is looked at again, as the   *)
(* first sample of the new frame.                                           *)
CopyRetrigger ==
    /\ shortState = "COPY"
    /\ plateau >= MIN_PLATEAU
    /\ copied > MIN_GAP
    /\ copied' = 0
    /\ plateau' = 0
    /\ AddTag(written)
    /\ UNCHANGED <<shortState, written>>

(* Mutant: the gate closes one sample too late. *)
CopySampleOneMore(above) ==
    /\ shortState = "COPY"
    /\ copied <= MAX_SAMPLES /\ written < MAX_WRITTEN
    /\ above => ~(plateau >= MIN_PLATEAU /\ copied > MIN_GAP)
    /\ plateau' = IF above /\ plateau < MIN_PLATEAU THEN plateau + 1 ELSE 0
    /\ written' = written + 1
    /\ copied' = copied + 1
    /\ shortState' = IF copied = MAX_SAMPLES THEN "SEARCH" ELSE "COPY"
    /\ UNCHANGED tags

(* COPY: the sample goes to the output; the gate closes with the last one. *)
CopySample(above) ==
    /\ shortState = "COPY"
    /\ copied < MAX_SAMPLES
    /\ written < MAX_WRITTEN
    /\ above => ~(plateau >= MIN_PLATEAU /\ copied > MIN_GAP)
    /\ plateau' = CASE ~above -> 0
                    [] above /\ plateau < MIN_PLATEAU -> plateau + 1
                    [] OTHER -> plateau
    /\ written' = written + 1
    /\ copied' = copied + 1
    /\ shortState' = IF copied + 1 = MAX_SAMPLES THEN "SEARCH" ELSE "COPY"
    /\ UNCHANGED tags

ShortWork ==
    \/ \E above \in BOOLEAN : SearchSample(above) \/ CopySample(above)
    \/ SearchTrigger
    \/ CopyRetrigger
=============================================================================
