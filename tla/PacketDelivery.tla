--------------------------- MODULE PacketDelivery ---------------------------
(***************************************************************************)
(* What transceivers promise to the IP stacks above them: a packet that    *)
(* comes out of a station was put in at one, has the same length, and has  *)
(* not been overtaken.  It may get lost, and it may come twice; and        *)
(* packets of other networks come out in between.                          *)
(***************************************************************************)
EXTENDS Naturals, Sequences

CONSTANTS Stations, Lengths

VARIABLES
    offered,            \* lengths of the packets put in at each station
    delivered           \* what came out of each: [from, n, len], oldest first

Init == /\ offered = [s \in Stations |-> <<>>]
        /\ delivered = [s \in Stations |-> <<>>]

Offer(p) ==
    /\ \E len \in Lengths : offered' = [offered EXCEPT ![p] = Append(@, len)]
    /\ UNCHANGED delivered

(* The n-th packet of p comes out of s. *)
Deliver(s, p) ==
    /\ \E n \in DOMAIN offered[p] :
          /\ \A k \in DOMAIN delivered[s] :
                delivered[s][k].from = p => delivered[s][k].n <= n
          /\ delivered' = [delivered EXCEPT ![s] =
                               Append(@, [from |-> p, n |-> n, len |-> offered[p][n]])]
    /\ UNCHANGED offered

DeliverForeign(s) ==
    /\ \E k \in DOMAIN delivered'[s] :
          /\ delivered'[s][k].from \notin Stations
          /\ delivered' = [delivered EXCEPT ![s] = Append(@, delivered'[s][k])]
    /\ UNCHANGED offered

Next == \/ \E s, p \in Stations : Offer(p) \/ Deliver(s, p)
        \/ \E s \in Stations : DeliverForeign(s)

Spec == Init /\ [][Next]_<<offered, delivered>>
=============================================================================
