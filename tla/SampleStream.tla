---------------------------- MODULE SampleStream ----------------------------
(***************************************************************************)
(* The sample buffer between sync_short and sync_long: how many samples    *)
(* sync_short has written and at which of them it put a "wifi_start" tag.  *)
(* Tag k carries the carrier frequency offset that trigger k measured; the *)
(* models name that value by k itself.  GNU Radio owns the buffer; only    *)
(* its effect on the two blocks is described here.                         *)
(***************************************************************************)
EXTENDS Integers, Sequences, FiniteSets

CONSTANTS
    MAX_WRITTEN,        \* bound: samples sync_short may write in a behaviour
    MAX_TAGS            \* bound: tags it may put on them

ASSUME BoundsAssumption == MAX_WRITTEN \in Nat /\ MAX_TAGS \in Nat

VARIABLES
    written,            \* nitems_written(0) of sync_short
    tags                \* positions of its wifi_start tags, oldest first

streamVars == <<written, tags>>

StreamTypeOK == /\ written \in Nat
                /\ tags \in Seq(Nat)

StreamInit == written = 0 /\ tags = <<>>

(* add_item_tag(0, p, "wifi_start", ...). *)
AddTag(p) == Len(tags) < MAX_TAGS /\ tags' = Append(tags, p)

(* Some wifi_start tag sits on sample p. *)
TagAt(p) == \E k \in DOMAIN tags : tags[k] = p

(* Two consecutive tags are at least d samples apart, and the newest one    *)
(* is not beyond the sample that will be written next.                      *)
TagsApart(d) ==
    /\ \A k \in DOMAIN tags : tags[k] <= written
    /\ \A k \in 1 .. Len(tags) - 1 : tags[k] + d <= tags[k + 1]
=============================================================================
