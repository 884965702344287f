----------------------------- MODULE MacLayerMC ------------------------------
(* Stations and frames for model checking MacLayer. *)
EXTENDS MacLayer

CONSTANTS a, b

(* a sends and b listens; b also hears itself, as a radio may. *)
Links == {<<b, a>>, <<b, b>>, <<b, OTHERS>>}
Tap   == [s \in Stations |-> IF s = a THEN 5 ELSE 1]

(* An IP packet, and one that is too long with the LLC header. *)
Lengths == {60, 1507}

Other(kind, len, field) ==
    [from |-> OTHERS, n |-> 0, kind |-> kind, len |-> len, field |-> field]

(* An acknowledgement, a beacon, a QoS data frame and a null data frame. *)
OtherFrames == {Other("Control", 14, 0), Other("Management", 80, 16),
                Other("QoS", 62, 32), Other("OtherData", 28, 48)}
=============================================================================
