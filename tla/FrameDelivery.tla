---------------------------- MODULE FrameDelivery ----------------------------
(***************************************************************************)
(* What the receiver promises above the symbol level, and the legacy       *)
(* transmitter above the signal: frames are announced (in the transmitter, *)
(* posted) one after the other, and a frame that was announced is          *)
(* delivered (sent) at most once, and never after a later one.             *)
(***************************************************************************)
EXTENDS Naturals, Sequences

VARIABLES
    announced,          \* frames whose signal field was understood
    delivered           \* frames handed on, oldest first

Init == announced = {} /\ delivered = <<>>

AnnounceFrame ==
    \E f \in announced' : /\ f > 0
                          /\ \A g \in announced : g < f
                          /\ announced' = announced \cup {f}
                          /\ UNCHANGED delivered

DeliverFrame ==
    \E f \in announced : /\ \A k \in DOMAIN delivered : delivered[k] < f
                         /\ delivered' = Append(delivered, f)
                         /\ UNCHANGED announced

Spec == Init /\ [][AnnounceFrame \/ DeliverFrame]_<<announced, delivered>>
=============================================================================
