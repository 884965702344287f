------------------------------ MODULE MacLayer ------------------------------
(***************************************************************************)
(* Transceivers above the physical layer, as wifi_transceiver.grc connects *)
(* them: ether_encap and mac towards the air, and ether_encap, parse_mac   *)
(* and mac, each on a thread of its own, on what decode_mac publishes.     *)
(***************************************************************************)
EXTENDS ParseMac

CONSTANTS
    TapLengths,         \* lengths of the Ethernet frames with IP packets
    MaxTap,             \* bound: how many of them a station gets
    MAX_WAITING         \* bound: how many of them wait at its mac

ASSUME TapAssumption ==
    TapLengths \subseteq Nat /\ MaxTap \in [Stations -> Nat] /\ MAX_WAITING \in Nat

vars == <<airVars, encapVars, macVars, parseVars>>

Init == AirInit /\ EncapInit /\ MacInit /\ ParseInit

TypeOK == AirTypeOK /\ EncapTypeOK /\ MacTypeOK /\ ParseTypeOK

TapStep(s) == /\ Len(tapIn[s]) < MaxTap[s]
              /\ Len(tapIn[s]) - Len(aired[s]) < MAX_WAITING
              /\ \E len \in TapLengths : FromTap(s, len)
              /\ UNCHANGED <<airVars, macVars, parseVars>>

AirStep(s) == /\ \/ \E p \in Stations : HearStation(s, p)
                 \/ \E f \in Foreign : HearForeign(s, f)
              /\ UNCHANGED <<encapVars, macVars, parseVars>>

EncapStep(s) == FromWifi(s) /\ UNCHANGED <<airVars, macVars, parseVars>>

MacStep(s) == /\ AppIn(s) \/ AppInThrow(s) \/ PhyIn(s)
              /\ UNCHANGED <<encapVars, parseVars>>

ParseStep(s) == Parse(s) /\ UNCHANGED <<airVars, encapVars, macVars>>

Next == \E s \in Stations :
            TapStep(s) \/ AirStep(s) \/ EncapStep(s) \/ MacStep(s) \/ ParseStep(s)

Spec == Init /\ [][Next]_vars

-----------------------------------------------------------------------------
(* Among the PDUs K of a station, the last one before k is j; there is none. *)
LastBefore(j, k, K) == j \in K /\ j < k /\ \A i \in K : i < k => i <= j
NoneBefore(k, K)    == \A i \in K : i >= k

(* Those of the PDUs h that have a whole header, and those with data. *)
Headed(h) == {k \in DOMAIN h : h[k].len >= HEADER}
DataAt(h) == {k \in DOMAIN h : IsData(h[k])}

(* f is a new frame of the station that sent g: fewer frames were lost in   *)
(* between than there are sequence numbers.                                 *)
NewAfter(f, g) == f.from = g.from /\ f.n - g.n \in 1 .. SEQ_MOD - 1

(* A frame that is decoded twice comes out of the tap twice only if another *)
(* one with a header and a different number was decoded in between: not for *)
(* an acknowledgement in between, and however many times it is repeated.    *)
RepeatsSuppressed ==
    \A s \in Stations : \A i, j \in DOMAIN tapOut[s] :
        (/\ i < j
         /\ tapOut[s][i].from \in Stations
         /\ tapOut[s][i].from = tapOut[s][j].from
         /\ tapOut[s][i].n = tapOut[s][j].n)
        => \E k \in Headed(heard[s]) :
              /\ tapOut[s][i].at < k /\ k < tapOut[s][j].at
              /\ heard[s][k].field # heard[s][tapOut[s][j].at].field

(* No new frame of a station is taken for a repetition: neither the first   *)
(* frame decoded, whatever d_last_seq starts from, nor one that follows an  *)
(* older frame of that station after any loss of fewer frames than there    *)
(* are sequence numbers, across their wrap.                                 *)
NewFramesDelivered ==
    \A s \in Stations : \A k \in 1 .. encapRead[s] :
        (/\ heard[s][k].from \in Stations
         /\ \/ NoneBefore(k, Headed(heard[s]))
            \/ \E j \in Headed(heard[s]) :
                  /\ LastBefore(j, k, Headed(heard[s]))
                  /\ NewAfter(heard[s][k], heard[s][j]))
        => \E d \in DOMAIN tapOut[s] : tapOut[s][d].at = k

(* "lost frames" is how many frames of the station were lost since the data *)
(* frame before, or since the station's first: whatever management and      *)
(* control frames came in between, and across the wrap.                     *)
LossCounted ==
    \A s \in Stations : \A r \in DOMAIN reports[s] :
        LET k == reports[s][r].at
            f == heard[s][k]
        IN  f.from \in Stations =>
              /\ (NoneBefore(k, DataAt(heard[s])) /\ f.n <= SEQ_MOD)
                    => reports[s][r].lost = f.n - 1
              /\ \A j \in DataAt(heard[s]) :
                    (LastBefore(j, k, DataAt(heard[s])) /\ NewAfter(f, heard[s][j]))
                    => reports[s][r].lost = f.n - heard[s][j].n - 1

-----------------------------------------------------------------------------
(* Between any two stations, packets come out as they were put in. *)
Packets == INSTANCE PacketDelivery WITH
    Lengths   <- TapLengths,
    offered   <- tapIn,
    delivered <- [s \in Stations |-> [k \in DOMAIN tapOut[s] |->
                     [from |-> tapOut[s][k].from, n |-> tapOut[s][k].n,
                      len |-> tapOut[s][k].len]]]

PacketSpec == Packets!Spec
=============================================================================
